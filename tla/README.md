# picodata-operator in TLA+

A verification project for the Kubernetes operator of the Picodata database:
TLA+ models of its controller, TLC runs on small instances, and proofs for
TLAPS. Paths are relative to the repository; ADR-001, ADR-002 and ADR-003 are
`docs/adr/2026-04-14-picoclusterdb-crd.md`,
`docs/adr/2026-05-04-plugin-management.md` and
`docs/adr/2026-05-06-pod-scheduling.md`.

## The system

The operator watches one kind of resource, `PicoclusterDB`, and builds a
Picodata cluster out of ordinary Kubernetes objects. It keeps no state of its
own: everything it knows is in the API server, in the informer cache that
follows it, and in the tables of Picodata.

| Part | State | Operations | Hard about it |
|---|---|---|---|
| `PicoclusterDB` (`api/v1`) | spec, status, uid | created, edited, deleted by users; status patched by the operator | edits and deletions at any moment of a pass |
| Reconcile loop (`picoclusterdb_controller.go`) | none between passes; during a pass the resource as it was read, loop variables, collected statuses | for each tier: apply ConfigMap, two Services, one StatefulSet per replicaset, delete extra StatefulSets, apply Ingress, collect the status, plugins; then patch the status | reads come from a cache that lags, writes are diffs against it; a pass stops at any failing call; the operator may restart |
| Builders (`configmap.go`, `service.go`, `statefulset.go`, `ingress.go`) | none | build the wanted object of a tier | which fields are ever patched; the checksum that ties ConfigMap and pods; a pointer shared between iterations (`mergeReplicasetAntiAffinity`) |
| Plugins (`plugin.go`) | `_pico_plugin`, `_pico_service` | CREATE, ADD SERVICE, SET, MIGRATE, ENABLE, DISABLE, DROP over SQL | not transactional: repeated from the start after each failure; cluster-wide tables, per-tier logic; two versions at most |
| Manager (controller-runtime) | informer cache, work queue, timers | deliver events, requeue on error, `RequeueAfter` | events lag; a restart forgets everything |
| Kubernetes | the objects, the pods, the volumes | garbage collector, StatefulSet controller, kubelet | act between any two calls of the operator |
| Picodata instances | the data in a volume | bootstrap or join, serve probes | all start at once; ready only when the whole replicaset has joined |

The parts interact through the API server only: a write of any party is an
event, the event updates the cache and puts the resource's name into the work
queue (`For` and `Owns` in `SetupWithManager`), and a single worker runs
`Reconcile`.

What makes it correct: it never rests with work undone; at rest its status is
the truth; it creates things in the order they depend on each other; it takes
nothing away that is wanted; pods run the configuration that is published;
plugins are never enabled half installed nor stopped during an upgrade; and
once the world is quiet it gets to the wanted state and stops. Below it, the
pods form one Picodata cluster, an edit never takes a whole replicaset down, and
a rollout ends. The hazards
against these are listed, each with its line, in `PROJECT.json`.

## Modules

| Module | Models |
|---|---|
| `PicoclusterTypes` | the schema of the resource (`ValidSpec`) and the builders, as operators from a spec to `[mut, fixed]`: the fields that are patched later and those only Create sets |
| `Reconciler` | `Reconcile`, one action per API call, with its world |
| `ClusterLifecycle` | abstract: in which order children appear and which may disappear |
| `ReconcilerRefinement` | the mapping under which `Reconciler` implements it |
| `MCReconciler` | instances of `Reconciler` and of the refinement |
| `ReconcilerProofs` | theorems `TypeCorrect`, `StatefulSetsHaveDeps`, `ReplicasetsKept` |
| `ReconcilerRefinementProofs` | theorem `ReconcilerImplementsLifecycle` |
| `ReconcilerWakeupProofs` | theorems `NoWakeupIsLost`, `StatusIsTrue` |
| `ReconcilerConfigProofs` | theorem `PublishedConfigRuns` |
| `PluginReconciler` | `plugin.go`, one action per SQL statement, and Picodata's tables |
| `PluginLifecycle` | abstract: the stages of a plugin version; `PluginReconciler` implements it |
| `MCPluginReconciler` | instances of it |
| `PluginProofs` | theorems `PluginTypeCorrect`, `EnabledVersionsComplete` |
| `PluginSafetyProofs` | theorems `PluginsFollowLifecycle`, `UpgradesKeepRunning`, `PluginStatusIsTrue` |
| `Rollout`, `MCRollout` | single pods: startup on empty volumes, rolling update, readiness |
| `RolloutProofs` | theorems `RolloutTypeCorrect`, `OneClusterForms`, `ServiceIsKept` |
| `AntiAffinity`, `MCAntiAffinity` | the loop over replicasets around `mergeReplicasetAntiAffinity` |
| `AntiAffinityProofs` | theorems `UserRulesKept`, `TemplatesStable` |

### Reconciler

`cr` and `obj` are the API server; `crCache`, `objCache` the informer cache;
`crWatch`, `objWatch` the events between the two. `step` is the place in the
running pass and `cluster`, `ti`, `rsIndex`, `extra`, `ts`, `tierStatuses`,
`allReady` are the locals of `Reconcile` and `reconcileTier`. `pods` records, for
each StatefulSet, the template and the `config.yaml` that its pods were started
with. `givenUp` is a history variable, explained below. `spent` counts users' and failures' actions against `Limit`, and failed calls and lost
pods together against `MaxMishaps`.

- `FetchCluster` is the Get at the top of `Reconcile`; NotFound ends the pass.
- `ReconcileConfigMap`, `-Interconnect`, `-Client`, `-StatefulSet`, `-Ingress` are
  the calls of `reconcileTier`, in its order. All four `reconcileX` functions
  have the shape of `ApplyObject`: Get from the cache, Create if it is not
  there, else Patch. A patch is `MergePatch`: only fields in which the wanted
  object differs from the *cached* one are sent. Create fails when the object
  exists, Patch when it is gone or the result is invalid.
- `ListExtraStatefulSets`, `DeleteExtraStatefulSet`, `CleanupDone` are
  `deleteExtraStatefulSets`.
- `CollectTierStatus`, `ReconcilePlugins`, `NextTier` are the rest of the loop
  body; `UpdateStatus` and `UpdateStatusPluginFailed` the two ends of a pass.
- `CallFails` fails any call; `Answer` loses the answer of one that took effect.
- `DeliverCr`, `DeliverObj`, `RequeueAfterElapses`, `Restart` are the manager;
  `CreateCluster`, `EditCluster`, `DeleteCluster` the user; `CollectGarbage`,
  `RollPods`, `PodBecomesReady`, `PodRetires`, `PodFails`, `PodsVanish` Kubernetes.

Abstractions. A cached read and the API call that follows are one action: a
change between them is a change the cache has not seen yet. Each object has an
event queue of its own, where Kubernetes orders events per kind: more
interleavings, not fewer. A write waits while `MaxLag` events of its object are
undelivered. Pods of a StatefulSet are replaced as one. The installation of
plugins is one step that succeeds or fails. One `PicoclusterDB` is modelled, and
its tiers have different names. The informers' periodic resync is left out here:
the operator has to come back without it. Ingress, Services and ConfigMap are
deleted only by the garbage collector: nobody else touches the children.

`ReconcilerRefinement` maps the state to `ClusterLifecycle`: the phase of the
resource (none, live, deleted at least once) and the set of children on the
server. Every step of a pass, of the garbage collector and of a fault has to be
one abstract step or a stutter. The abstract specification says that a
replicaset comes after its tier's ConfigMap and Services and after the
replicasets below it, the Ingress after the first replicaset, and that a live
resource loses no child but a replicaset that some spec leaves out. After the
first deletion it allows any single change, because the garbage collector and a
pass for a re-created resource work against each other; `EventuallyConverged` in
`LiveDelete` covers that part.

Which replicasets may go is in `ClusterLifecycle` a constant: those that some spec
the user *may* submit leaves out. `ReplicasetKept` says it of the specs the user
*has* submitted. Once a spec is edited and the caches and passes have moved on it
is nowhere in the state any more, so the history variable `givenUp` remembers the
replicasets that a submitted spec scaled away; only the user's actions write it
and no action reads it.

### Rollout

The same objects, seen from the pods, and with the same builders. `spec` and `obj` are the resource and
its children, `pass` the running pass, `pod` the pods `<<tier, replicaset,
ordinal>>` with the template and the `config.yaml` they were started with, `vol`
the cluster that the data in each volume belongs to (named by the pod that
bootstrapped it), `formed` the replicasets that have been ready as a whole,
`spent` the edits and losses so far.

- `BeginPass`, `ApplyNext` are the operator: the calls of `reconcileTier` in their
  order, one object per step. A deleted StatefulSet leaves its pods terminating.
- `CreatePod`, `RollPod`, `StopPod` are the StatefulSet controller and the
  kubelet. They read `podManagementPolicy`, `replicas` and the template from the
  object. A rolling update deletes the highest pod with an old template, ready or
  not, once all above it are updated and ready; OrderedReady, which only a mutant
  uses, makes it wait for every pod.
- `ConfigInit` is the init container: it copies the ConfigMap's `config.yaml` of
  that moment, once per pod.
- `Bootstrap`, `Join` are a Picodata instance on an empty volume: it bootstraps if
  the `peer` of its `config.yaml` is its own address and else joins the peer's
  cluster, once the peer runs, has data and resolves through the headless
  Service. On a volume with data it starts from the data.
- `BecomeReady` is the startup and the readiness probe. What they answer is
  taken from the comment at `statefulset.go:323`: 200 once the replicaset is
  complete.
- `EditSpec` is the user, `PodLost` a failed or drained node.

Abstractions. No call of the operator fails and its reads are current: module
`Reconciler` has the cache, the errors, restarts and the deletion of the
resource, and its `NoLostWakeup` is why `BeginPass` is enabled while there is work.
Termination is one step. Restarts of a container by its probes change nothing
here and are stutters. Settings are in `Broken` if an instance cannot start with
them, like a memory size it cannot parse. A pod that is created anew always has the
newest template, where Kubernetes may give it the current one while an update is
under way. The client Services and the Ingress are left out: no pod depends on
them. Clusters are edited without changing the first tier.

### PluginReconciler

`db` is what `_pico_plugin` and `_pico_service` say of each `<<name, version>>`;
`pc` is the place in the pass, `want` the spec it works on, and `services`,
`context`, `obsolete`, `row` what is left of the current loop. Each statement of
`reconcilePlugin` and `dropObsoletePlugins` is an action that may be refused,
fail, or take effect and lose its answer. What Picodata accepts is taken from
the comments of `plugin.go` and ADR-002: ENABLE needs MIGRATE, DROP needs
DISABLE, at most `MaxVersions` versions exist at a time, ADD SERVICE, SET and
MIGRATE may be repeated, and a version may be enabled while another is. The
update of the status at the end of a pass may fail or lose its answer, which
requeues (`Report`); after a failed installation its error is dropped and only
the timer brings the pass back (`PluginsFailed`). A pass starts from the resource
as it is and the worker alone writes the status, so that the merge patch sets it:
the patch against a stale copy is in `Reconciler`. `Stage`
maps the tables to `PluginLifecycle`, in which each version goes from created to
migrated to enabled and back out through disabled, one statement at a time.

### AntiAffinity

`base` is the affinity of the pass's copy of the resource. `BaseAfter` says what
a call of `mergeReplicasetAntiAffinity` leaves in it: the appended term, if the
user supplied a `podAntiAffinity` for the shallow copy to share. `replicationFactor`
is part of the tier, although `buildStatefulSet` does not look at it here: the
documents promise the automatic rule only to replicasets of several pods, and
`UserRulesAndSpread` states just that.

## Runs

Passing:

| Run | Question |
|---|---|
| `ScaleFaults` | one tier is two replicasets of one pod, or one of two pods with other settings, or changes its `clusterName`, which the API server rejects for the StatefulSets half way through a pass; one edit, one call fails or loses its answer; with the history of the specs, so that replicaset 2 is known to be safe where no spec gave it up: `NoLostWakeup`, `StatusTruthful`, `StsAfterDeps`, `ReplicasetKept`, `ImplementsLifecycle` |
| `TwoTiers` | a tier with Ingress and plugin before one without, one failure, of a call or of the plugins, or one lost pod (`MaxMishaps` = 1): `NoLostWakeup`, `StatusTruthful`, `ImplementsLifecycle` |
| `Live` | an edit, a failure, a restart at any point and a clock that moves: `TypeOK`, `PodsRunPublishedConfig`, `EventuallyConverged` |
| `LiveDelete` | deletion, and possible re-creation while the old children are still collected: `NoLostWakeup`, `StatusTruthful`, `EventuallyConverged` |
| `PluginUpgrade` | two edits among three specs (a plugin on one tier, on two tiers, upgraded next to a second plugin and a tier without any), a failure, a restart, a tier that is not ready: `EnabledComplete`, `UpgradeKeepsRunning`, `PluginStatusTruthful`, `PluginsConverge`, `PluginTypeOK`, `ImplementsPluginLifecycle` |
| `AntiAffinity` | up to three replicasets of one pod or two, two edits: `UserRulesAndSpread`, `NoNeedlessRestart` |
| `Rollout` | a replicaset of two before a tier of single instances, on empty volumes; two edits or losses in any mixture, an edit breaks or repairs the settings of the first tier and scales the second: `OneCluster`, `ServiceKept`, `RolloutCompletesOnceComplete`, `RolloutTypeOK` |

Violations, each a sentence of the documents or comments that the code does not
keep (quoted under `findings` in `PROJECT.json`):

| Run | What it shows |
|---|---|
| `ConfigRevisited` | a configuration edited and reverted in the middle of a pass leaves a pod running the one in between for good |
| `PluginDistinct` | tiers with different plugins drop each other's |
| `PluginThreeVersions` | after one failed drop an upgrade may be refused for ever |
| `RolloutWedged` | a cluster first submitted with settings its instances cannot start with stays down when they are corrected: pod 1 is replaced and waits for pod 0, pod 0 is not replaced before pod 1 is ready |
| `AntiAffinityShared` | rules of earlier replicasets leak into later ones |

Other places where the documents and the code part, plain from a single line
and therefore without a run:

- an edit of `replicationFactor` is applied (`picoclusterdb_controller.go:269`),
  where ADR-001, lines 236-237, says the operator ignores it;
- an edit of `clusterName` reaches the selectors of the Services
  (`picoclusterdb_controller.go:238`), which then select no pod until it is
  undone, where `picoclusterdb_types.go:66` calls it immutable;
- StatefulSets to delete are listed by labels that hold the `clusterName`
  (`picoclusterdb_controller.go:183`). When a resource is deleted and created
  anew, and `clusterName` is edited before the garbage collector is through, a
  StatefulSet with the other name is left over and never found: the new resource
  patched replicaset 1 of the old one, created replicaset 2 under the old name,
  lost replicaset 1 to the garbage collector, and was edited to another name and
  one replicaset. TLC finds the trace in `Reconciler`; it is what the hypothesis
  `NameKept` of the theorems excludes;
- an Ingress that is disabled, and everything of a tier that is removed, stays
  (`picoclusterdb_controller.go:162`);
- the last plugin of a tier is never dropped (`picoclusterdb_controller.go:89`),
  where `plugin.go:172` says versions no longer in `tier.Plugins` are;
- `tierStatus` also counts ready pods of StatefulSets that are just being deleted
  (`picoclusterdb_controller.go:295`), so plugins may be installed while a wanted
  replicaset has no ready pod, where line 88 and `plugin.go:34` say all pods are
  ready;
- volume claims have no owner and no retention policy (`statefulset.go:314`) and
  stay when the resource is deleted, where ADR-001, line 230, and `README.md:144`
  say they go; a resource created anew under the name starts from the old data;
- a tier with `replicationFactor` 1 gets the automatic anti-affinity rule like any
  other (`statefulset.go:237` asks for `disableAutoAntiAffinity` only), where
  ADR-003, line 44, says that arbiters, replicasets of one pod, get none. Alone
  the rule constrains nothing, since it selects the pods of one replicaset; with
  a `podAntiAffinity` of the user the leak of `AntiAffinityShared` carries it into
  later replicasets, and arbiters then exclude each other from a node.
  `UserRulesAndSpread` and its theorem ask for the rule only where there are
  several pods and say nothing about a single one;
- an interrupted installation starts again from ADD SERVICE (`plugin.go:108`),
  where ADR-002, line 250, says it goes on where it stopped.

Limits of what the passing runs promise, found by loosening them:

- `OneCluster` needs the first tier to stay the first. A tier put in front of it
  makes its own pod 0 the peer (`configmap.go:68`), which bootstraps a second
  cluster on its empty volume.
- `ServiceKept` is about one edit. A second one, before the first has rolled out,
  may take down the pod that the first one left. And it is about edits that
  leave `replicationFactor` alone: one that raises it adds pods that are not
  ready yet to a replicaset that was.
- `RolloutCompletesOnceComplete` sets two cases aside: the wedge of
  `RolloutWedged`, and an instance stuck with a `config.yaml` that it read between
  two writes of the operator, the defect of `ConfigRevisited`.

### Bounds

The hazards need two versions of a thing and something going wrong between
them, so two specs, one edit and one failure (or restart, deletion, pod loss)
reach them, and two replicasets or two tiers are enough for a loop to stop
between two iterations. `ConfigRevisited` needs two edits.
`MaxLag` = 1 still gives a stale cache for any length of time; it only delays a
second write to one object. The plugin runs allow two edits because a wedged
upgrade needs a third version. `Rollout` has two disturbances, so that broken
settings can be repaired and an edit can meet a lost pod, and two pods in a
replicaset, the least that can wait for each other; its invariants were also
checked with three. `IntBits` is the width of `int32`; 8 holds all
numbers of the instances. Deadlock is not checked in the runs of `Reconciler`:
an operator with nothing to do rests, and so do the pods of `Rollout`. `PluginReconciler` never stops, because
of the resync, and `AntiAffinity` because passes repeat.

### Fairness

`Live` and `LiveDelete` assume weak fairness of the worker, of each delivery, of
the `RequeueAfter` timer, and of the garbage collector and the StatefulSet
controller for each object: controller-runtime runs the worker while the queue
is not empty, informers deliver what the API server sends, and both controllers
retry for ever. `PluginUpgrade` and `PluginThreeVersions` assume it of the
worker, the timer and the resync, which controller-runtime runs every ten hours by default; without it an error
while dropping is never repaired. `Rollout` and `RolloutWedged` assume it of the
operator, and of the StatefulSet controller, the kubelets and the instances
together: each of them retries, and which acts first does not matter. Users and failures have no fairness: they may
stop at any time, and their budgets end.

## Proofs

Checked by TLAPS for every value of the constants: any set of specs that the
assumptions allow, any number of tiers, replicasets, pods, edits, failures,
restarts, and any lag. Every inductive invariant was an invariant of TLC runs on
the instances before it was proved.

### Reconciler

- `TypeCorrect`: `Spec => []TypeOK`. `TypeOK` is inductive; it says more than
  types: a pass has a live copy of the resource, its loop variables are within
  that copy's tiers and replicasets, and `extra` is beyond them.
- `ReplicasetsKept`: `Spec => ReplicasetKept`. One lemma for each kind of
  write: a pass deletes only from `extra`, which by `TypeOK` the spec it works for
  gives up, Create and Patch leave a live object, the garbage collector takes only
  orphans. That spec may be long replaced; `HistoryInv` says that what it gives up
  is remembered, because every copy of the resource, in the cache, under way or
  held by the pass, comes from another copy or was the resource (`CopiesMove`), and
  what the user submits is remembered at once (`SubmittedIsRemembered`).
- `StatefulSetsHaveDeps`: `Spec => []StsAfterDeps`. `StsAfterDeps` is not
  inductive. `DepsInv` adds, until the first deletion: nothing exists before
  the resource does (`NothingBefore`); every copy of the resource and every
  child carries its uid, so the garbage collector has nothing to do (`OneUid`);
  and what the running pass has applied for its tier still lives
  (`DepsApplied`).
- `ReconcilerImplementsLifecycle`: `Spec => ImplementsLifecycle`. `OrderInv` adds to
  `DepsInv` that the replicasets the pass has been through live. Each step changes
  at most one child (`OneAtATime`), which is all that is promised after a deletion
  (`LaterStep`); before one, a child appears or disappears only by the hand of the
  pass (`FirstLifeStep`), and what the abstract step asks of it is what the pass
  has applied before.
- `NoWakeupIsLost`: `NameKept` implies `Spec => []NoLostWakeup`. The operator is
  *disturbed* while a request is queued, a timer runs or an event is under way.
  No step of a pass ends a disturbance, so a pass that is undisturbed now has been
  since it began: the caches are current (`CacheCurrent`), its copy of the resource
  is the resource, and none of its calls has changed anything, since a change is
  an event. A call that changes nothing has found its object as the spec wants it;
  `PassQuiet` collects that, object by object and tier by tier. What is left is
  that the list of extra StatefulSets misses none (`LabelsInv`): the API server
  lets no StatefulSet change its labels, replicaset 1 is applied first and is
  rejected under another `clusterName`, so that in one life of the resource all
  StatefulSets of a tier carry the same one. `NameKept` says that there is one life
  (`Limit["deletes"] = 0`) or one `clusterName`; without it the invariant is false
  (see above).
- `StatusIsTrue`: `NameKept` implies `Spec => [](CountsFit => StatusTruthful)`. An
  undisturbed pass lists the StatefulSets as they are, so each entry it collects
  is true (`EntriesTrue`), and if the operator rests after it, its last patch has
  changed nothing, so that the status already had these entries
  (`StatusInPlace`). `CountsFit` says that the sum of ready pods does not overflow
  the `int32` it is computed in; a bound on the sum would take induction over it.
- `PublishedConfigRuns`: `OneEdit` implies `Spec => []PodsRunPublishedConfig`. Let `a`
  be the spec before the edit. The copies of the resource show `a` and then, for
  good, `cr.spec` (`SpecsSeen`), and a pass works on the copy it began with
  (`PassSees`). So a ConfigMap holds the data of `a` as long as a pass on `a` can
  still come (`PublishedOK`), and data of `cr.spec`, once there, are never
  overwritten; the cache may show older data but not newer ones (`CopiesLag`), so the
  merge patch never leaves out a change that is needed. A StatefulSet gets a
  checksum only after its ConfigMap (`PassPublished`); hence a checksum of `cr.spec`
  means that the ConfigMap has these data (`ChecksumsOK`), also when pods of that
  template read it (`PodsOK`). At rest `NoLostWakeup` gives each tier of the spec that
  checksum, and a tier the edit removed has only data of `a`. `OneEdit` excludes a
  second edit and a deletion; with two edits the property is false
  (`ConfigRevisited`), because a spec that comes back makes an old checksum
  current.

### PluginReconciler

- `PluginTypeCorrect` and `EnabledVersionsComplete`: `Spec => []PluginTypeOK` and
  `Spec => []EnabledComplete`, from `PluginInv`. What a pass knows of the tables goes
  stale only through itself: `InstallOK` says for each place of the installation
  what has been done for the version at hand and for those before it, `DropOK` that
  the rows listed as obsolete are still as they were listed. Both hold only while
  the pass goes on; `DbInv` is what is left whenever it stops.
- `PluginsFollowLifecycle`: `Spec => ImplementsPluginLifecycle`. Every change of the
  tables is one of six kinds, to one row (`TablesStep`), each a step of
  `PluginLifecycle`.
- `UpgradesKeepRunning`, `PluginStatusIsTrue`: `SharedPlugins` implies
  `Spec => UpgradeKeepsRunning` and `SameVersions` implies
  `Spec => []PluginStatusTruthful`. Each tier that has plugins lists every plugin
  of the cluster, or every version: with other specs tiers drop each other's
  plugins, which is what `PluginDistinct` shows.

### AntiAffinity

- `UserRulesKept`, `TemplatesStable`: `Spec => []UserRulesAndSpread` and
  `Spec => NoNeedlessRestart`, from `AffinityInv`: although each call leaves its term
  in the shared object, the terms of a StatefulSet are a function of the settings
  and of its own index (`TermsFor`).

### Rollout

- `RolloutTypeCorrect`: `Spec => []RolloutTypeOK`, from `RolloutInv`.
- `OneClusterForms`: `SameFirstTier` implies `Spec => []OneCluster`. Every
  `config.yaml` a pod may read names the first tier as the peer (`ConfigOK`), so only
  pod 0 of its first replicaset can bootstrap; data is otherwise copied.
- `ServiceIsKept`: `SameReplicationFactor` implies `Spec => []ServiceKept`. The objects
  are those of the spec or of the one before it (`Since`), so a template changes at
  most once. Before it does, a replicaset that was complete still is (`YoungInv`);
  after that, all pods above one that is down are replaced and ready (`RollInv`).

### Assumptions and limits

Assumptions on the constants, which TLC evaluates in the runs: `SpecsAssumption`,
`PluginSpecsAssumption`, `RolloutSpecsAssumption` (what the CRD schema enforces, and
distinct tier names), `BoundsAssumption`, `RolloutBoundsAssumption` and those of the
other modules on their bounds, `IntBitsAssumption`. The hypotheses of theorems
(`NameKept`, `OneEdit`, `SharedPlugins`, `SameVersions`, `SameFirstTier`,
`SameReplicationFactor`) hold in the instances of the passing runs that check the
property; the code enforces none of them.

Every invariant and every action property of the passing runs is stated by a
theorem. Only model-checked are the properties under fairness
(`EventuallyConverged`, `PluginsConverge`, `RolloutCompletesOnceComplete`), which are
out of the prover's reach.

## Not modelled

- Start-up of the manager, flags, TLS and leader election (`cmd/main.go`): calls
  into controller-runtime; the models assume the one worker that it provides.
- Generated deep copies, CRD, RBAC and deployment manifests.
- What becomes of volume claims after the resource is deleted, and resizing
  them: the operator has no code for either.
- Defaulting of omitted fields by the CRD schema: specs are as stored.
- The text of `config.yaml`: a record of what it depends on stands for it. Rows
  that cannot be scanned (`plugin.go`, lines 199 and 272) and the
  case-insensitive comparison of tier names there.
- Several resources in a namespace. Labels carry the name of the resource, so
  only names joined by dashes can collide (`statefulset.go:45`).
- `Reconciler` and `PluginReconciler` as one state machine: they share only
  whether the tier is ready and whether the installation failed, and both are
  nondeterministic in the module that does not decide them.

## Plan

What is left is to weaken hypotheses: `ServiceIsKept` and `PublishedConfigRuns` are
about one edit, and the generalisation to look for is a series of edits each of
which has rolled out before the next; `CountsFit` could be replaced by a bound on the specs if the sum of
ready pods were bounded.
