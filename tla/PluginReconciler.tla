-------------------------- MODULE PluginReconciler --------------------------
(***************************************************************************)
(* plugin.go: how a pass of Reconcile installs, upgrades and drops the     *)
(* plugins of the tiers over SQL, one statement per step, and the plugin   *)
(* tables of the Picodata cluster it acts on.                              *)
(*                                                                         *)
(* A spec is the sequence of the tiers, [name, plugins], and a plugin is   *)
(* [name, version, services, context]: the services it declares and the    *)
(* keys of its migration context.  An installed version is identified by   *)
(* <<name, version>>.  What Picodata accepts is taken from how plugin.go   *)
(* uses it and from the ADR on plugins: ADD SERVICE, SET and MIGRATE may   *)
(* be repeated, ENABLE needs MIGRATE, DROP needs DISABLE, and at most      *)
(* MaxVersions versions of a plugin are installed at a time.               *)
(*                                                                         *)
(* Everything Reconcile does for a tier before its plugins is one step     *)
(* here, EnterTier; module Reconciler has its detail.                      *)
(***************************************************************************)
EXTENDS Integers, Sequences, FiniteSets

CONSTANTS
    Specs,       \* the specs the user may submit
    Manifest,    \* the services of each plugin, by name
    MaxVersions, \* how many versions of a plugin Picodata holds (2)
    Limit        \* how often users and failures act: see Budgets

Budgets == {"edits", "faults", "crashes", "unready"}

TiersOf(s) == { s[j] : j \in DOMAIN s }
PluginsOf(t) == { t.plugins[p] : p \in DOMAIN t.plugins }
Id(plugin) == <<plugin.name, plugin.version>>
Ids == UNION { UNION { { Id(p) : p \in PluginsOf(t) } : t \in TiersOf(s) } : s \in Specs }
TierNames == UNION { { t.name : t \in TiersOf(s) } : s \in Specs }

(* Tiers (MinItems) and plugins are lists; a tier lists a plugin once, and *)
(* declares no service its manifest does not have.                         *)
ASSUME PluginSpecsAssumption ==
    \A s \in Specs :
        /\ s \in Seq(TiersOf(s)) /\ s # <<>>
        /\ \A t \in TiersOf(s) :
              /\ t.plugins \in Seq(PluginsOf(t))
              /\ \A p \in PluginsOf(t) : p.services \subseteq Manifest[p.name]
              /\ \A p, q \in PluginsOf(t) : p.name = q.name => p = q

ASSUME PluginBoundsAssumption ==
    /\ MaxVersions \in Nat \ {0}
    /\ Limit \in [Budgets -> Nat]

VARIABLES
    spec,                         \* the tiers the user wants
    db,                           \* _pico_plugin and _pico_service
    status,                       \* the plugins in the status of the resource
    queued, timer,                \* the work queue; a pending RequeueAfter
    pc, want, ti, pi,             \* the running pass: where it is,
    enabled, services, context,   \*   what it read, what it still has to do,
    obsolete, row,
    tierStatuses, allReady,       \*   what it will report
    spent

userVars   == <<spec>>
queueVars  == <<queued, timer>>
passVars   == <<want, ti>>
pluginVars == <<pi, enabled, services, context>>
dropVars   == <<obsolete, row>>
reportVars == <<tierStatuses, allReady>>
localVars  == <<pc, passVars, pluginVars, dropVars, reportVars>>
vars == <<userVars, db, status, queueVars, localVars, spent>>

NotInstalled ==
    [exists |-> FALSE, enabled |-> FALSE, migrated |-> FALSE, context |-> {}, bound |-> {}]
NoRow == <<>>
NoReport == [tiers |-> <<>>, ready |-> FALSE]

SqlSteps == {"connect", "query", "create", "prepare", "services", "bind"}
DropSteps == {"list", "drop", "dropdisabled"}

Init ==
    /\ spec \in Specs
    /\ db = [i \in Ids |-> NotInstalled]
    /\ status = NoReport
    /\ queued = TRUE /\ timer = FALSE
    /\ pc = "idle" /\ want = <<>> /\ ti = 0 /\ pi = 0
    /\ enabled = FALSE /\ services = {} /\ context = {}
    /\ obsolete = {} /\ row = NoRow
    /\ tierStatuses = <<>> /\ allReady = TRUE
    /\ spent = [b \in Budgets |-> 0]

Spend(b) ==
    /\ spent[b] < Limit[b]
    /\ spent' = [spent EXCEPT ![b] = @ + 1]

tier == want[ti]
plugin == tier.plugins[pi]
id == Id(plugin)

-----------------------------------------------------------------------------
(* The pass around the plugins.                                            *)

ClearLocals ==
    /\ pc' = "idle" /\ want' = <<>> /\ ti' = 0 /\ pi' = 0
    /\ enabled' = FALSE /\ services' = {} /\ context' = {}
    /\ obsolete' = {} /\ row' = NoRow
    /\ tierStatuses' = <<>> /\ allReady' = TRUE

(* updateStatus.  A change of the status is an event, which requeues.  The *)
(* worker alone writes the status and a pass here starts from the resource *)
(* as it is, so the merge patch sets the status; module Reconciler has the *)
(* patch against a stale copy.                                             *)
PatchStatus(s) ==
    /\ status' = s
    /\ queued' = (queued \/ s # status)

BeginPass ==
    /\ pc = "idle" /\ queued
    /\ queued' = FALSE
    /\ pc' = "tier" /\ want' = spec /\ ti' = 1
    /\ UNCHANGED <<userVars, db, status, timer, pluginVars, dropVars, reportVars, spent>>

(* Append the tier's status and go on with the next tier. *)
TierDone(statuses, ready) ==
    /\ tierStatuses' = Append(tierStatuses, statuses)
    /\ allReady' = (allReady /\ ready)
    /\ pi' = 0 /\ enabled' = FALSE /\ services' = {} /\ context' = {}
    /\ obsolete' = {} /\ row' = NoRow
    /\ IF ti < Len(want) THEN ti' = ti + 1 /\ pc' = "tier" ELSE pc' = "report" /\ UNCHANGED ti
    /\ UNCHANGED want

(* The plugins of a tier are looked at only when it is ready; the pods     *)
(* that were missing requeue the request when they come.                   *)
EnterTier ==
    /\ pc = "tier"
    /\ \/ /\ tier.plugins # <<>>
          /\ pc' = "connect"
          /\ UNCHANGED <<passVars, pluginVars, dropVars, reportVars, queued, spent>>
       \/ /\ tier.plugins = <<>>
          /\ TierDone(<<>>, TRUE)
          /\ UNCHANGED <<queued, spent>>
       \/ /\ Spend("unready")
          /\ TierDone(<<>>, FALSE)
          /\ queued' = TRUE
    /\ UNCHANGED <<userVars, db, status, timer>>

(* The last call of the pass.  If it fails, or its answer is lost, the     *)
(* error is Reconcile's and requeues the request.                          *)
Report ==
    /\ pc = "report"
    /\ LET s == [tiers |-> tierStatuses, ready |-> allReady]
       IN \/ PatchStatus(s) /\ UNCHANGED spent
          \/ Spend("faults") /\ status' \in {status, s} /\ queued' = TRUE
    /\ ClearLocals
    /\ UNCHANGED <<userVars, db, timer>>

(* An error of reconcileTierPlugins: report the tiers before this one and  *)
(* come back in 15 seconds.  An error of that report is logged and         *)
(* dropped.                                                                *)
PluginsFailed ==
    /\ \/ PatchStatus([tiers |-> tierStatuses, ready |-> FALSE])
       \/ UNCHANGED <<status, queued>>
    /\ timer' = TRUE
    /\ ClearLocals

-----------------------------------------------------------------------------
(* SQL statements.  One that Picodata refuses has no effect; one that took *)
(* effect may still end in an error, when its answer is lost.              *)

Set(i, f, v) == db' = [db EXCEPT ![i] = [@ EXCEPT ![f] = v]]

Statement(Effect, Continue) ==
    /\ Effect
    /\ \/ Continue /\ UNCHANGED <<status, queueVars, spent>>
       \/ Spend("faults") /\ PluginsFailed
    /\ UNCHANGED userVars

Refused ==
    /\ PluginsFailed
    /\ UNCHANGED <<userVars, db, spent>>

(* A query, which only changes what the pass knows. *)
Query(Continue) ==
    /\ Continue
    /\ UNCHANGED <<userVars, db, status, queueVars, spent>>

(* getAdminPassword and pgx.Connect *)
Connect ==
    /\ pc = "connect"
    /\ Query(/\ pc' = "query" /\ pi' = 1
             /\ UNCHANGED <<passVars, enabled, services, context, dropVars, reportVars>>)

Prepare ==
    /\ pc' = "prepare"
    /\ services' = plugin.services /\ context' = plugin.context
    /\ UNCHANGED <<passVars, pi, dropVars, reportVars>>

queryPluginState ==
    /\ pc = "query"
    /\ Query(/\ enabled' = db[id].enabled
             /\ \/ /\ ~db[id].exists
                   /\ pc' = "create"
                   /\ UNCHANGED <<passVars, pi, services, context, dropVars, reportVars>>
                \/ /\ db[id].exists /\ ~db[id].enabled
                   /\ Prepare
                \/ /\ db[id].enabled
                   /\ pc' = "services"
                   /\ UNCHANGED <<passVars, pi, services, context, dropVars, reportVars>>)

Versions(name) == { i \in Ids : i[1] = name /\ db[i].exists }

CreatePlugin ==
    /\ pc = "create"
    /\ IF Cardinality(Versions(plugin.name)) < MaxVersions
       THEN Statement(Set(id, "exists", TRUE), Prepare /\ UNCHANGED enabled)
       ELSE Refused

Bind(svc) == Set(id, "bound", db[id].bound \cup {<<svc, tier.name>>})

AddService ==
    /\ pc = "prepare"
    /\ \E svc \in services :
          Statement(Bind(svc),
                    /\ services' = services \ {svc}
                    /\ UNCHANGED <<pc, passVars, pi, enabled, context, dropVars, reportVars>>)

(* Go iterates over the context, a map, in any order. *)
SetMigrationContext ==
    /\ pc = "prepare" /\ services = {}
    /\ \E k \in context :
          Statement(Set(id, "context", db[id].context \cup {k}),
                    /\ context' = context \ {k}
                    /\ UNCHANGED <<pc, passVars, pi, enabled, services, dropVars, reportVars>>)

(* Mutant of MigrateTo: the migration does not wait for its context. *)
MigrateBeforeContext ==
    /\ pc = "prepare" /\ services = {}
    /\ Statement(Set(id, "migrated", TRUE),
                 /\ pc' = "services"
                 /\ UNCHANGED <<passVars, pluginVars, dropVars, reportVars>>)

MigrateTo ==
    /\ pc = "prepare" /\ services = {} /\ context = {}
    /\ Statement(Set(id, "migrated", TRUE),
                 /\ pc' = "services"
                 /\ UNCHANGED <<passVars, pluginVars, dropVars, reportVars>>)

(* Mutant of queryPluginServices: bound to any tier is good enough. *)
queryUnboundServices ==
    /\ pc = "services"
    /\ Query(/\ services' = { svc \in Manifest[plugin.name] :
                                 /\ db[id].migrated
                                 /\ \A t \in TierNames : <<svc, t>> \notin db[id].bound }
             /\ pc' = "bind"
             /\ UNCHANGED <<passVars, pi, enabled, context, dropVars, reportVars>>)

(* The services of the version, which _pico_service lists only once it is  *)
(* migrated, that are not bound to the tier.                               *)
queryPluginServices ==
    /\ pc = "services"
    /\ Query(/\ services' = { svc \in Manifest[plugin.name] :
                                 db[id].migrated /\ <<svc, tier.name>> \notin db[id].bound }
             /\ pc' = "bind"
             /\ UNCHANGED <<passVars, pi, enabled, context, dropVars, reportVars>>)

BindService ==
    /\ pc = "bind"
    /\ \E svc \in services :
          Statement(Bind(svc),
                    /\ services' = services \ {svc}
                    /\ UNCHANGED <<pc, passVars, pi, enabled, context, dropVars, reportVars>>)

(* Mutant of NextPlugin: the loop runs once too often. *)
NextPluginOneTooMany ==
    /\ IF pi <= Len(tier.plugins) THEN pc' = "query" /\ pi' = pi + 1 ELSE pc' = "list" /\ pi' = 0
    /\ enabled' = FALSE
    /\ UNCHANGED <<passVars, services, context, dropVars, reportVars>>

NextPlugin ==
    /\ IF pi < Len(tier.plugins) THEN pc' = "query" /\ pi' = pi + 1 ELSE pc' = "list" /\ pi' = 0
    /\ enabled' = FALSE
    /\ UNCHANGED <<passVars, services, context, dropVars, reportVars>>

AlreadyEnabled ==
    /\ pc = "bind" /\ services = {} /\ enabled
    /\ Query(NextPlugin)

EnablePlugin ==
    /\ pc = "bind" /\ services = {} /\ ~enabled
    /\ IF db[id].migrated
       THEN Statement(Set(id, "enabled", TRUE), NextPlugin)
       ELSE Refused

-----------------------------------------------------------------------------
(* dropObsoletePlugins.  Its errors are logged and otherwise ignored.      *)

Statuses(t) ==
    [p \in DOMAIN t.plugins |-> [name |-> t.plugins[p].name, version |-> t.plugins[p].version]]

PluginsDone == TierDone(Statuses(tier), TRUE)

(* Mutant of IsObsolete: the version is not compared. *)
IsForeign(i) == i[1] \notin { p.name : p \in PluginsOf(tier) }

(* Not a version the tier wants. *)
IsObsolete(i) == i \notin { Id(p) : p \in PluginsOf(tier) }

ListInstalled ==
    /\ pc = "list"
    /\ Query(/\ obsolete' = { [id |-> i, enabled |-> db[i].enabled]
                                : i \in { i \in Ids : db[i].exists /\ IsObsolete(i) } }
             /\ pc' = "drop"
             /\ UNCHANGED <<passVars, pluginVars, row, reportVars>>)

DropStatement(Effect, Continue) ==
    /\ Effect
    /\ \/ Continue /\ UNCHANGED spent
       \/ Spend("faults") /\ PluginsDone
    /\ UNCHANGED <<userVars, status, queueVars>>

Disable(i) == Set(i, "enabled", FALSE)

DisableObsolete ==
    /\ pc = "drop"
    /\ \E r \in obsolete :
          /\ r.enabled
          /\ DropStatement(Disable(r.id),
                           /\ pc' = "dropdisabled" /\ row' = r
                           /\ UNCHANGED <<passVars, pluginVars, obsolete, reportVars>>)

(* Mutant of DropObsolete: an enabled version is dropped as it is. *)
DropObsoleteEnabled ==
    /\ \E r \in obsolete :
          /\ pc = "drop"
          /\ DropStatement(db' = [db EXCEPT ![r.id] = NotInstalled],
                           /\ pc' = "drop" /\ row' = NoRow /\ obsolete' = obsolete \ {r}
                           /\ UNCHANGED <<passVars, pluginVars, reportVars>>)

DropObsolete ==
    /\ \E r \in obsolete :
          /\ \/ pc = "drop" /\ ~r.enabled
             \/ pc = "dropdisabled" /\ r = row
          /\ DropStatement(db' = [db EXCEPT ![r.id] = NotInstalled],
                           /\ pc' = "drop" /\ row' = NoRow /\ obsolete' = obsolete \ {r}
                           /\ UNCHANGED <<passVars, pluginVars, reportVars>>)

AllDropped ==
    /\ pc = "drop" /\ obsolete = {}
    /\ Query(PluginsDone)

-----------------------------------------------------------------------------
(* Failures, the work queue and the user.                                  *)

(* Mutant of StatementFails: the error of a plugin is logged, the loop     *)
(* goes on to the drop.                                                    *)
StatementFailsIgnored ==
    /\ pc \in SqlSteps \ {"connect"}
    /\ Spend("faults")
    /\ pc' = "list" /\ pi' = 0 /\ enabled' = FALSE /\ services' = {} /\ context' = {}
    /\ UNCHANGED <<userVars, db, status, queueVars, passVars, dropVars, reportVars>>

(* A statement fails and has no effect. *)
StatementFails ==
    /\ Spend("faults")
    /\ \/ pc \in SqlSteps /\ PluginsFailed
       \/ pc \in DropSteps /\ PluginsDone /\ UNCHANGED <<status, queueVars>>
    /\ UNCHANGED <<userVars, db>>

RequeueAfterElapses ==
    /\ timer
    /\ timer' = FALSE /\ queued' = TRUE
    /\ UNCHANGED <<userVars, db, status, localVars, spent>>

(* The informers' periodic resync. *)
Resync ==
    /\ ~queued
    /\ queued' = TRUE
    /\ UNCHANGED <<userVars, db, status, timer, localVars, spent>>

Restart ==
    /\ Spend("crashes")
    /\ ClearLocals
    /\ queued' = TRUE /\ timer' = FALSE
    /\ UNCHANGED <<userVars, db, status>>

EditSpec ==
    /\ Spend("edits")
    /\ spec' \in Specs \ {spec}
    /\ queued' = TRUE
    /\ UNCHANGED <<db, status, timer, localVars>>

reconcilePlugin ==
    \/ queryPluginState \/ CreatePlugin \/ AddService \/ SetMigrationContext \/ MigrateTo
    \/ queryPluginServices \/ BindService \/ AlreadyEnabled \/ EnablePlugin

dropObsoletePlugins == ListInstalled \/ DisableObsolete \/ DropObsolete \/ AllDropped

Worker ==
    BeginPass \/ EnterTier \/ Connect \/ reconcilePlugin \/ dropObsoletePlugins
      \/ StatementFails \/ Report

Next == Worker \/ RequeueAfterElapses \/ Resync \/ Restart \/ EditSpec

Spec == Init /\ [][Next]_vars

(* The worker, the timer and the resync go on. *)
Fairness == WF_vars(Worker) /\ WF_vars(RequeueAfterElapses) /\ WF_vars(Resync)

FairSpec == Spec /\ Fairness

-----------------------------------------------------------------------------
(* Properties.                                                             *)

IdsOf(t) == { Id(p) : p \in PluginsOf(t) }

(* The tables, the worker's place and its loop variables are well formed:  *)
(* a pass is in a tier that has the plugin it works on, and a row is being *)
(* dropped only if it was listed as obsolete.                              *)
PluginTypeOK ==
    /\ spec \in Specs
    /\ DOMAIN db = Ids
    /\ \A i \in Ids :
          /\ DOMAIN db[i] = DOMAIN NotInstalled
          /\ db[i].exists \in BOOLEAN /\ db[i].enabled \in BOOLEAN /\ db[i].migrated \in BOOLEAN
          /\ db[i].bound \subseteq Manifest[i[1]] \X TierNames
          /\ ~db[i].exists => db[i] = NotInstalled
    /\ queued \in BOOLEAN /\ timer \in BOOLEAN
    /\ enabled \in BOOLEAN /\ allReady \in BOOLEAN
    /\ pc \in {"idle", "tier", "report"} \cup SqlSteps \cup DropSteps
    /\ pc # "idle" => want \in Specs /\ ti \in DOMAIN want
    /\ pc \in SqlSteps \ {"connect"} => pi \in DOMAIN tier.plugins
    /\ pc = "dropdisabled" => row \in obsolete
    /\ spent \in [Budgets -> Nat]

(* However often an installation is interrupted and taken up again, a      *)
(* version is enabled only when it has been migrated, with every key of    *)
(* its migration context set, and all of its services, those absent from   *)
(* the spec too, are bound to a tier.                                      *)
EnabledComplete ==
    \A i \in Ids : db[i].enabled =>
        /\ db[i].migrated
        /\ \E t \in TierNames : \A svc \in Manifest[i[1]] : <<svc, t>> \in db[i].bound
        /\ \E s \in Specs : \E t \in TiersOf(s) : \E p \in PluginsOf(t) :
              Id(p) = i /\ p.context \subseteq db[i].context

Running(name) == { i \in Ids : i[1] = name /\ db[i].enabled }

(* While a pass works for a spec that lists a plugin, the plugin does not  *)
(* stop: its old version is disabled only after its new one is enabled.    *)
UpgradeKeepsRunning ==
    [][ \A i \in UNION { IdsOf(t) : t \in TiersOf(want) } :
            Running(i[1]) # {} => Running(i[1])' # {} ]_vars

AtRest == pc = "idle" /\ ~queued /\ ~timer

(* At rest, a plugin that the status shows for a tier is enabled, and its  *)
(* services run on that tier.                                              *)
PluginStatusTruthful ==
    AtRest => \A j \in DOMAIN status.tiers : \A p \in DOMAIN status.tiers[j] :
        LET i == Id(status.tiers[j][p])
        IN db[i].enabled /\ \A svc \in Manifest[i[1]] : <<svc, spec[j].name>> \in db[i].bound

(* Once edits and failures stop, the installed plugins are, for good, the  *)
(* versions the spec lists, all of them enabled, and no others.            *)
PluginsConverge ==
    <>[]( \A i \in Ids : IF i \in UNION { IdsOf(t) : t \in TiersOf(spec) }
                         THEN db[i].enabled ELSE ~db[i].exists )

(* The stage of each version in PluginLifecycle. *)
Stage ==
    [i \in Ids |-> CASE db[i].enabled -> "enabled"
                     [] db[i].migrated /\ ~db[i].enabled -> "migrated"
                     [] db[i].exists /\ ~db[i].migrated /\ ~db[i].enabled -> "created"
                     [] OTHER -> "absent"]

Lifecycle == INSTANCE PluginLifecycle WITH stage <- Stage

(* However installations and drops are interrupted and repeated, and       *)
(* although a pass drops by what it listed before, every version goes      *)
(* through the stages of PluginLifecycle and skips none.                   *)
ImplementsPluginLifecycle == Lifecycle!Spec
=============================================================================
