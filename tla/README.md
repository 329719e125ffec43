# Pluma operator: a TLA+ model of its controllers

The operator runs two Kubernetes controllers in one manager process. A user
writes an `IstioOperator`; the *IstioOperator controller* turns it into a
`HelmApp` object; the *HelmApp controller* installs, upgrades and uninstalls the
Helm releases that the `HelmApp` lists. Users may also write a `HelmApp`
themselves. Paths below are relative to the repository (`src/`).

    user --> IstioOperator --(IstioOperatorReconciler)--> HelmApp --(HelmAppReconciler)--> Helm releases
                                                             ^                                   |
                                                             +------------- status --------------+

## Inventory

| Part | Code | State it keeps | Operations | Modelled |
|---|---|---|---|---|
| HelmApp controller | `internal/controller/helmapp.go` | nothing between calls: the object's spec, finalizer and status in the API server, Helm's releases | `Reconcile`, `reconcileDelete`, `reconcileComponent`, `uninstallComponent`, `calculateOverallPhase`, `hasConfigChanged` | `HelmAppController` |
| Helm release storage (external) | Helm 3.15.4, called from `helmapp.go` | one Secret per revision of a release | history, install, upgrade, get, uninstall | `HelmStorage` |
| API server, informer cache, work queue (external) | controller-runtime 0.19, `cmd/main.go` | stored objects, cached objects, queued and delayed keys | user writes, conflict check, delivery, resync, requeue, restart | inside `HelmAppController` and `IopController` |
| Value merging | `MergeValues`, `helmapp.go:424-441` | none (pure) | recursive merge | `ValueTrees`, `ComponentValues` |
| IstioOperator controller | `internal/istio/iop.go:45-113, 347-382` | finalizer of the IstioOperator, the HelmApp it creates | `Reconcile`, `reconcileDelete`, `createOrUpdateHelmApp` | `IopController` |
| Conversion | `internal/istio/iop.go:130-345, 384-420` | none (pure, reads a profile file) | `convertIopToHelmApp`, `mergeIOPWithProfile` | `IopConversion` |
| Manager process | `cmd/main.go`, `config/config.go` | flags | start, stop | start, crash and restart of one manager |
| API types | `apis/operator/v1alpha1` | none | generated code | the fields the controllers read |
| Clients, listers, informers | `apis/client` | the factory's `informers` and `startedInformers`; each informer's indexer; the fake's tracker | the clientset's verbs, `InformerFor`, `Start`, `WaitForCacheSync`, list and watch, lister `Get`. Generated for other programs; the operator does not use them | `HelmAppClientset`, `SharedInformerFactory` |
| Charts, profiles, manifests | `istio/`, `manifests/`, `demo/` | data | none | no |

How the parts interact. Everything goes through the API server. A write is
refused (a conflict) unless the writer's copy is the stored version; a write that
changes something wakes every watcher; the informer delivers the latest version
some time later and its handler, which has no predicate (`helmapp.go:57-61`),
puts the key into the work queue. One worker takes a key at a time, reads the
*cached* object and runs `Reconcile`, which calls Helm synchronously. Helm's
changes are not observed by anything: no watch covers them.

What is hard here:

- the worker acts on a copy that may be old, and its own last write may be
  missing from it;
- users edit and delete the object while Helm is working;
- four writes of one reconcile (finalizer, releases, status, finalizer again)
  are not atomic, each can fail, be refused, or be applied with the answer lost;
- the process can stop between any two of them;
- the status list is the only memory of what has to be uninstalled;
- the decision to upgrade and the report come from different revisions;
- each status write wakes the controller, which must not write again for ever;
- three sources are merged into a chart's values (user, profile, global values),
  by two different merges, and the conversion picks single paths out of them;
- programs that use the generated clients share the memory of an informer's
  cache, and start, wait for and stop informers in any order.

What makes each part correct:

- HelmApp controller: Helm installs and upgrades only under a finalizer; what is
  recorded stays recorded until its release is gone; a deletion visits every status and
  ends; every edit is answered; no wake-up is lost; the same spec creates no
  further revision; SUCCEEDED is only said of installed components; the
  controller comes to rest.
- IstioOperator controller: the HelmApp follows the IstioOperator; a deleted
  IstioOperator leaves no managed HelmApp; an unmanaged HelmApp is not touched.
- Conversion: what is switched on is installed, with the user's version, base
  before istiod before gateways; the user's values win over the profile's at
  every depth, and what is written into the six parts that the conversion copies
  for istiod reaches its chart, with global values and nothing else. Much of what
  an IstioOperator can say is not among the six parts, see "Observed" below.
- Value merging: path by path the component's value, or else the global one.
- Clients: no change of an object is lost or made twice; the fake agrees with the
  server; a cache shows one past state of the server, catches up, and a wait for
  it ends; who changes the lister's own objects spoils these and nothing else.

`PROJECT.json` lists every hazard at its line with the properties that cover it.

## Modules

| Module | What it is |
|---|---|
| `HelmStorage` | Helm's history of a release as a sequence of revisions: what is stored (`Encode`), listed (`ListOrder`) and refused (`Upgradable`). External code. |
| `HelmAppController` | The controller of one `HelmApp`, with the API server, cache, queue, faults and restarts. |
| `AppLifecycle` | What the controller promises to others: the life of one object (absent, unheld, held, terminating), the names its status records and the names that have a release. `HelmAppController` instantiates it over `stored` and `releases`, `IopController` over `storedApp`, without names and releases. |
| `MCHelmApp` | Model values and sets of specs for TLC. |
| `HelmAppControllerProofs` | Lemmas about Helm's histories, type correctness and the finalizer. |
| `HelmAppStatusProofs` | The status list: the deletion's walk, that nothing recorded is forgotten, and that no wake-up is lost. |
| `HelmAppRefinementProofs` | `HelmAppController` implements `AppLifecycle`. |
| `HelmAppReleaseProofs` | What the status says of releases, and how many revisions they get. |
| `IopController` | The controller of one `IstioOperator`, with both objects in the API server, a cache of each, queue, faults and restarts. |
| `MCIop` | Model values and a conversion for TLC. |
| `IopControllerProofs` | Type correctness, the finalizer, unmanaged HelmApps, the life of the HelmApp, and that no wake-up is lost. |
| `ValueTrees` | Trees of values, their paths, and the merge of two (`Overlay`). |
| `IopConversion` | From an IstioOperator and its profile to the components of the HelmApp. |
| `ComponentValues` | The values each component is installed with (`MergeValues`), and what the user and a chart should find there. |
| `MCConversion` | The four profiles of the repository, and the IstioOperators and HelmApps to convert. |
| `ValueTreesProofs` | Induction over paths; what a merged tree has at each of its paths. |
| `IopConversionProofs` | Type correctness, the order of the charts, what is installed, and with which values. |
| `HelmAppClientset` | The generated clientset against the API server and against its fake, and programs that read, change and write HelmApps through it. |
| `SharedInformerFactory` | The generated informer factory, its informers and listers, on top of `HelmAppClientset`. |
| `MCClients` | One HelmApp and its type. |
| `SharedInformerFactoryProofs` | Type correctness, lost changes, the fake, and the caches. |

`HelmAppController` composes the controller with `HelmStorage` and implements
`AppLifecycle`; `IopController` takes the other controller's steps from
`AppLifecycle` and implements it too, so that both controllers and the users keep
one specification of a HelmApp's life. `IopConversion` is what the constant `Convert` of `IopController`
stands for; with `ComponentValues` it makes the `values` of `HelmAppController`.

### HelmAppController and the code

| Variables | Code |
|---|---|
| `stored` | the HelmApp in the API server |
| `cached`, `cacheFresh` | the informer's copy, and whether it is the stored version |
| `queued`, `delayed` | the key in the work queue; in its delayed part (`RequeueAfter`, rate limiter) |
| `pc`, `helm` | the place in `Reconcile`; the Helm action the worker is inside of |
| `helmApp`, `appFresh` | the local variable `helmApp`, and whether it still is the stored version |
| `idx`, `componentStatuses` | loop index, and the list that becomes `Status.Components` |
| `releases` | Helm's revisions of every release name |
| `edits`, `faults` | how much of the bounds is used |

`Reconcile` is cut where another actor can act between two effects, that is at
every call to the API server or to Helm; an install or upgrade has two steps,
one that stores a pending revision and one that ends it, since Helm waits in
between and the process may stop there.

| Place (`pc`) | Code | Actions |
|---|---|---|
| idle | `:75-82` | `GetFindsNothing`, `GetFindsApp` |
| addFinalizer | `:85-90` | `AddsFinalizer`, `WriteFails` |
| initHelm | `:92-108`, `:198-208` | `HelmInitFails`, `SpecMissing`, `StartsComponents`, `StartsDeletion` |
| components | `:112-118`, `:281-398` | `RepoMissing`, `ChartUnavailable`, `HistoryFails`, `Install*`, `SkipsUnchanged`, `Upgrade*`, `ComponentsDone` |
| leftovers | `:121-140`, `:400-421` | `NothingToUninstall`, `FindsNoRelease`, `UninstallStarts`, `Uninstalled`, `UninstallFails`, `LeftoversDone` |
| updateStatus | `:142-161` | `WritesStatus`, `WriteFails` |
| deleteComponents | `:211-242` | the actions of `leftovers`, then `WritesDeleteStatus`, `DeletePanics`, `WriteFails` |
| removeFinalizer | `:245-250` | `RemovesFinalizer`, `WriteFails` |

Around them: `UserCreates`, `UserUpdates`, `UserDeletes` (the finalizer rule of
the API server), `Deliver`, `Resync`, `DelayExpires`, and `Crash` at any moment.

Abstractions:

- A resource version only answers "is my copy the stored one?", so each copy has
  a flag. A copy that went stale stays stale; the identity of a recreated object
  is covered, since every user write makes copies stale.
- Chart, global values and `ignoreGlobalValues` are part of a component's merged
  `values`, a model value; the empty Go map is told apart from the nil map,
  because Helm's JSON and `reflect.DeepEqual` do.
- The resources of a release, message wording and time are left out; a requeue
  with a delay fires at some later moment.
- A panic inside `Reconcile` is recovered by controller-runtime 0.19 and
  becomes an error.
- `Uninstalled` purges all revisions of a release at once.
- Definitions marked "mistake" are deliberate errors a maintainer could make;
  the specification does not use them. They are the operators that `PROJECT.json`
  names to show that each property can fail.

### IopController and the code

| Variables | Code |
|---|---|
| `storedIop`, `cachedIop`, `iopCacheFresh` | the IstioOperator in the API server and in its informer |
| `storedApp`, `cachedApp`, `appCacheFresh` | the HelmApp of that name, likewise |
| `queued`, `delayed` | the key in the IstioOperator controller's work queue |
| `pc` | the place in `Reconcile` |
| `iop`, `iopFresh` | the local variable `iop`, and whether it still is the stored version |
| `existing`, `existingFresh` | `existingHelmApp` of `createOrUpdateHelmApp`, likewise |
| `edits`, `appEdits`, `reports`, `faults` | how much of the bounds is used |

| Place (`pc`) | Code (`internal/istio/iop.go`) | Actions |
|---|---|---|
| idle | `:77-89` | `GetFindsNothing`, `GetFindsIop` |
| addFinalizer | `:92-97` | `AddsFinalizer`, `WriteIopFails` |
| convert | `:100-107`, `:350-371` | `ConversionFails`, `FindsNoHelmApp`, `FindsHelmApp`, `KeepsHelmApp` |
| create | `:354-361` | `CreatesHelmApp`, `WriteAppFails` |
| update | `:371-376` | `UpdatesHelmApp`, `WriteAppFails` |
| reconcileDelete | `:48-56` | `FindsAppToDelete`, `FindsNoAppToDelete` |
| deleteHelmApp | `:58-62` | `DeletesHelmApp`, `WriteAppFails` |
| removeFinalizer | `:64-73` | `RemovesFinalizer`, `WriteIopFails` |

Abstractions:

- `Convert` is `convertIopToHelmApp` as a constant function of the spec (in
  detail in `IopConversion`); a nil spec, a profile that does not exist and values that do not parse give
  `Unconvertible`. The profile file can also be unreadable for once, which is a
  fault. The two reads of the cache (`:50`, `:352`) are steps of their own, as
  the cache may move on between them and the read of the IstioOperator.
- Both informers deliver on their own. Only the IstioOperator's fills the queue:
  `SetupWithManager` (`:40-42`) neither watches nor owns HelmApps.
- `reflect.DeepEqual` at `:371` compares structs that hold the protobuf runtime's
  bookkeeping. The wanted spec was marshalled at `:338` and has it, the nested
  messages of a copy from the cache do not, so the comparison never finds them
  equal: the runs say `DeepEqualHolds = FALSE`. The theorems hold for both
  values. An update that changes nothing in the API server keeps the version.
- The HelmApp controller appears as `Hold`, `Report` and `Release` of
  `AppLifecycle`, at any moment and without fairness. `LifecycleImplemented`
  justifies that for the HelmApp as it is seen here; that its reports come to an
  end (`MaxReports`) is `ComesToRest` of the run `helmapp_liveness`. The other way
  round, `ImplementsLifecycle` says that the writes of this controller and of the users
  are steps of `AppLifecycle`: they create and delete, and an update
  leaves the finalizer and the deletion mark as the others have set them.
- Users create, change and delete HelmApps, but do not change the label
  `pluma.io/managed` of an existing one.

### IopConversion, ComponentValues and the code

| `step` | Code (`internal/istio/iop.go`) | Actions |
|---|---|---|
| new | `:130-173`, `mergeIOPWithProfile` `:384-420` | `SpecMissing`, `ProfileMissing`, `MergesProfile` |
| base | `:175-182` | `ConvertsBase` |
| pilot | `:184-244` | `ConvertsPilot`, `ConversionFails` |
| ingressGateways, egressGateways | `:246-304` | `ConvertsGateway`, `GatewaysDone` |
| cni, ztunnel | `:306-345` | `ConvertsAmbient` |
| converted | `helmapp.go:285-288`, `MergeValues` `:424-441` | `Values` of `ComponentValues`, an operator of the state |

The variables are the local ones: `iop` (the merge changes it in place), `version`
(read before the merge), `next` (the index of the loop over a list of gateways),
`components` and `globalValues`, which become the spec of the HelmApp. `user`
keeps the IstioOperator as it was, for the properties. The conversion runs
alone, and is cut at each append, so that its properties are invariants of the
loop, and provable as such.

Both merges are `Overlay` of `ValueTrees`, which differs in what gives way: nothing
in `MergeValues`, where even a zero value of the component replaces the global
one; Go's zero values (`Empty`) in `Merge`, which stands for mergo's, code that is
not in the repository. `Follow`, `Paths` and `Overlay` are recursive functions over
numbers and paths and not RECURSIVE operators, so that the prover can use them.

Abstractions:

- A spec is a tree: a leaf holds a scalar or a list, a node has fields. `At`
  follows a path of keys and is as safe as protobuf's getters. Typed fields,
  maps and `structpb` values are trees alike; where a conversion changes a value
  (`GetBoolValue`, `GetNumberValue`, a tag that is not a string) the model does
  it (`AsBool`, `AsNumber`, `Version`).
- A list of gateways that is empty counts as none, as it does for mergo.
- A list of gateways is one leaf, since `mergo` replaces lists as a whole; an
  item is a record of what `buildGw` reads.
- The prefix `iop-<name>-` of release names, which is the same for all, and
  the namespaces are left out.
- The inputs never put a scalar where the other side of a merge has a tree when
  the merge is `mergo`'s (`MergoAssumption`): it fails or panics there. For
  `MergeValues` they do.
- Trees end: `MaxDepth` is a bound for `Paths` and `IsTree`, and any number will do for
  the theorems. The runs have 5; the deepest path of their specs is
  `components.pilot.k8s.resources.cpu`, which has 5 keys.

### HelmAppClientset, SharedInformerFactory and the code

| Variables | Code |
|---|---|
| `log` | the API server: its objects at every version it gave |
| `tracker`, `refused` | the fake's object tracker; whether the server has refused a write, after which the two are not compared |
| `held`, `count` | the object in each caller's hands, with the memory it shares with an indexer (`shares`, `list`); the changes that writes have made |
| `tampered`, `mishaps` | not in the code: the versions of which a caller changed a read-only object in place; how often that happened or a watch broke |
| `informers`, `startedInformers`, `channel` | the maps of `sharedInformerFactory`, and the stop channel that `Start` gave to each informer |
| `running`, `position`, `cache`, `lists` | the reflector of an informer and its indexer; `lists` tells the objects of one list from those of another |
| `closed`, `waits` | the program's channels; its calls of `WaitForCacheSync` that have not returned |

Each verb, and each operation of the factory (which holds its lock), is one
step. A wait is a step for each informer, in any order: they are polled one
after the other, but a wait for several is over when all are. The server and the
reflectors are external and modelled by what the clients ask of them: optimistic
concurrency, the status subresource, lists that may be old but never go back, a
watch that goes on where the list was and may break. An object's data is how
often its spec and its status were changed: that is what tells a lost or doubled
write from a good one. `Conflict` stands for the refused write and for the caller
dropping its copy.

The lister returns the indexer's own pointer (`listers/.../helmapp.go:88-97`), and
that its objects "must be treated as read-only" (`:62`) is a comment. In the model
too `ListerGet` gives the memory of the cache (`shares = Field`), to as many callers
as ask; `Copies` is a caller's `DeepCopy`, after which spec and status are its own,
and `EditsObject` changes a message wherever it is shared: in the cache, if it still
has that object, and in every caller's hands. A caller may copy first, edit
first, or edit and copy then. An object changed in place is remembered in
`tampered`, and the properties say what is left then: everything about all other
versions.

## Runs

The `helmapp` runs and the three after them have two component names, the versions
`v1` and `v2` and one that does not exist, two values and, in
`default_values_rollout`, the empty map. No run has a range or an empty version, for
which `Resolve` would give the chart of another one.

| Run | Shows |
|---|---|
| `helmapp_safety` | Three edits out of six specs (install, upgrade and add, drop and change values, nil spec, nil repository, missing chart and empty name), one fault anywhere: `TypeOK`, `InstallUnderFinalizer`, `DeletionSkipsNothing`, `QuiescentMeansProcessed`, `RevisionsBoundedByEdits`, `RecordedUntilGone`, `SucceededMeansInstalled`, `ImplementsLifecycle`. |
| `helmapp_liveness` | Two edits, one fault, under `FairSpec`: `RecordedDeletionCompletes`, `EveryEditIsProcessed`, `ComesToRest`. |
| `deletion_completes` | Violated: a HelmApp deleted before its first status makes `reconcileDelete` panic at `:239` for ever. |
| `leftovers_uninstalled` | Violated: installed, status write refused, dropped from the spec: the release stays. |
| `succeeded_applied` | Violated: after a failed upgrade the retry takes the failed revision for up to date and reports the first one: SUCCEEDED. |
| `default_values_rollout` | Violated: a component without values is upgraded at each reconcile (nil map against empty map). |
| `iop` | Three edits over three specs (two convertible, one not), an operation of a user on the HelmApp, one fault, under `FairSpec`: `TypeOK`, `WritesUnderFinalizer`, `QuiescentMeansProcessed`, `UnmanagedKeepsSpec`, `ImplementsLifecycle`, `IopDeletionCompletes`, `EditsReachHelmApp`. |
| `iop_orphan` | Violated: create, and delete before the cache shows the new HelmApp: the HelmApp stays without its IstioOperator. |
| `iop_recreated` | Violated: create, delete, create again while the old HelmApp is terminating: no HelmApp, and no wake-up. |
| `conversion` | Some 5200 IstioOperators over the profiles of `istio/profiles` and a missing one, and 2600 pairs of value trees: `TypeOK`, `ComponentValuesWin`, `UserWins`, `ChartsInOrder`, `InstalledAsAsked`, `CopiedValuesReachIstiod`. |
| `conversion_resources` | Violated: `components.pilot.k8s.resources` without `values.pilot` is never converted: a Go pointer reaches `structpb.NewStruct`. |
| `clients` | Two callers, one HelmApp and its informer, two stop channels, objects copied or changed in place, broken watches, under `FairSpec`: `TypeOK`, `IncrementsCount`, `FakeAgrees`, `CacheIsAPastState`, `CacheCatchesUp`, `WaitEnds`. |

Bounds. `MaxEdits = 3` allows create, change, delete and create, delete, create
again, and drop after an upgrade; a component is in the list, moves in it and
leaves it. `MaxFaults = 1` puts one failed call, lost answer or restart at every
place; conflicts and stale copies are not counted as faults and happen without
bound. `MaxRevisions = 5` is above what the edits of the passing runs reach
(`RevisionsBoundedByEdits` shows that it cuts nothing off there).
`ListOrder` is right up to two digits, hence `MaxRevisions \in 1..99`.
`CHECK_DEADLOCK FALSE` in every run: with the object gone and the edits used up
the system rightly stops.
In the `iop` runs three edits are create, delete, create again, or create and two
changes, or create, change and delete; one report is enough to make any
copy of the HelmApp old, at any moment. With one operation on the HelmApp a user
has an own one before the controller creates it, or changes or deletes the
managed one; deleting that and putting an own one in its place takes two, which
is left to the theorem `UnmanagedIsNotTouched`.
`QuiescentMeansProcessed` and `EditsReachHelmApp` speak of the HelmApp only as
long as users let it alone (`appEdits = 0`): a user's edit of it is not repaired,
see below.

In `conversion` the IstioOperators are two families: one varies the switches, the
lists of gateways, the profile and the tag, the other each setting that the
conversion copies, present and absent, at both places it can come from. The
conversion has no branch that looks at both. The trees of `MergeValues` have two
keys and up to three levels, with a leaf against a node at each level; the merge
looks at one key at a time, so neither more keys nor more depth bring a new case.
In `clients` versions, breaks of the watch and changes in place share one bound,
`MaxEvents = 4`, of which the empty start takes one. Three events are create and a
write of each caller, or create, delete and create again, or create, a change in
place and the write that brings it to the server, or create, a write and a break of
the watch, which allows a list that is older than the newest object; a lost answer
is a version too.
Two channels let a caller wait on another channel than the informer's. The
theorems cover more objects, types, callers and versions.

The passing specs have pinned versions and non-empty values. A component without
values, or with a range or nothing as its version, never counts as unchanged, and
each reconcile adds a revision: the run `default_values_rollout` shows it for values,
and for versions (`helmapp.go:444`) no run does, it being the same state space.

Fairness (`FairSpec`): weak fairness of `Reconcile` as a whole (a running manager
keeps its worker going, and a restarted one is running), of `Deliver` (a watch
delivers in the end) and of `DelayExpires` (the queue's timers fire). Nothing is
assumed of users, resyncs or crashes; faults are finite because they are bounded,
which stands for "the cluster works in the end". Fairness is on the disjunction
`Reconcile`, never on one of its outcomes. In `IopController` the same, with both
informers' deliveries; the HelmApp controller owes nothing there. In
`SharedInformerFactory` a started reflector goes on listing and watching
(`Lists`, `Receives`), and the poll of a wait sees that an informer has synced or
that its channel is closed (`WaitEndsFor`); programs, and `Stops`, owe nothing.
`IopConversion` is a computation and has no fairness.

## Proofs

Eight theorems about the HelmApp controller hold for all names, versions, values, specs and bounds that
`HelmAssumption` and `ControllerAssumption` allow, the last one under two more assumptions. Each stands on the invariants
of the ones before it:

- `TypeCorrect`: `Spec => []TypeOK`. The type invariant alone is not inductive:
  inside a Helm action the current component must exist and its history must not
  be empty, or the step that ends the action would index outside it.
  `AtHelmAction` says so, and `TypeInv` is the conjunction.
- `FinalizerBeforeInstall`: `Spec => []InstallUnderFinalizer`, about copies that are
  not being deleted: `reconcileDelete` with a stale copy may ask Helm to uninstall
  for an object that is gone. The finalizer was
  seen in a copy, perhaps a stale one, so the proof has to know that a finalizer
  once stored stays until the object goes, and that the object only goes through
  the worker itself or by a user before the finalizer is there. `HeldInv` says
  it in three parts: a fresh copy equals the stored object (`FreshCopies`), the
  place in `Reconcile` agrees with the copy (`PathFollowsCopy`), and any copy
  that shows the finalizer means that the stored object has it
  (`CopiesAreHeld`).

- `DeletionVisitsAll`: `Spec => []DeletionSkipsNothing`, and
- `NothingIsForgotten`: `Spec => RecordedUntilGone`. Nothing in one step of the
  code shows that the status it writes names every release it should: that is
  built up over the whole reconcile. `MemoryInv` follows it. `WalkInv` says what
  each walk has accounted for so far (`ComponentsReported`: the components
  before `idx` are in the new list; `LeftoversAccounted`: the old statuses
  before `idx` are in it or gone; `StatusAccounted`: at the write, every name of
  the worker's copy is in it or gone), and `UnheldIsEmpty` that an object
  without a finalizer records nothing. A write is refused unless the copy is the
  stored object, which turns the worker's knowledge into a fact about `stored`.
- `LifecycleImplemented`: `Spec => ImplementsLifecycle`. Each step maps to a step
  of `AppLifecycle` or to none. The hard case is an uninstall by a deletion that
  works on an old copy: the object may already be gone, or created again. It
  uninstalls nothing then, because (`TerminationInv`) whatever a copy of a
  terminating object still lists is gone or listed by the stored object, which
  is terminating too; and while the worker is on a copy without the deletion
  mark, an informer's copy that has it lists exactly what the stored object lists.

- `NoWakeUpIsLost`: `Spec => []QuiescentMeansProcessed`. When nothing is
  running, queued, delayed or undelivered, the object is held, and its status
  answers its spec. Two invariants carry it. `AnswerInv` says that the list the
  worker builds has a status for each component it has passed, in order, and
  after them only failed uninstalls: what `updateStatus` writes answers the spec
  of the worker's copy. `CopyIsCurrent` says that this copy is the stored object,
  unless the informer has something to deliver or has queued the key again: so
  that whoever made it old has left a wake-up behind.

- `SuccessIsInstalled`: `Spec => SucceededMeansInstalled`. A component is reported
  deployed while its release is there, and the status is written many steps
  later. `ReportInv` keeps every such report true until then: while components
  are processed nothing is uninstalled, and the leftovers' walk uninstalls only
  names that the list does not report, which is what `AnswerInv` says of it.
- `EveryRevisionIsAsked`: `Spec => []RevisionsBoundedByEdits`. A revision is stored
  because the copy of the worker asks for one, and that copy, the cached one and
  the stored one may be three different edits old. `RevisionInv` counts what is
  still to come: one revision if the release is not what the worker's copy asks
  for (`Behind`), and one for each of the two places on the way to the API server
  where the next copy has another spec (`Apart`). An edit pays for the divergence
  it makes; a delivery or a read of the cache moves divergence but makes none;
  a revision is paid for by the copy that asked for it; and retries, crashes,
  resyncs and conflicts find the release as asked for and add nothing.
  It assumes `SpecsArePinned`: the chart served for a version carries that version,
  a component has values of its own, and names are distinct. The specs of the
  passing runs are pinned, and `default_values_rollout` shows what happens
  without. And it assumes at most nine edits, since from the tenth revision on a
  release is compared with its ninth (`NinthHidesLatest`, a theorem about the
  order in which Helm lists): with `MaxEdits = 10` TLC finds an eleventh revision
  that no edit asked for, so the bound cannot be raised.

The lemmas on list order, upgrade base and sequences that they cite are the first
section of `HelmAppControllerProofs`.

Five theorems about the IstioOperator controller hold for all specs, conversions
and bounds that `IopAssumption` allows, the first four for both values of
`DeepEqualHolds`:

- `TypeCorrect`: `Spec => []TypeOK`. At the writes the conversion must have
  succeeded (`ConvertedInv`), or a HelmApp without a spec would be stored.
- `FinalizerBeforeHelmApp`: `Spec => []WritesUnderFinalizer`, by `CopiesInv`,
  which has the three parts of `HeldInv` above: only the worker itself drops a
  finalizer, and it cannot do so while it is on its way to a HelmApp's write.
- `UnmanagedIsNotTouched`: `Spec => UnmanagedKeepsSpec`. The label was read in a
  cached copy; the write is accepted only if that copy is still the stored
  object, and then the stored object has the label.
- `LifecycleImplemented`: `Spec => ImplementsLifecycle`. `AppWrites` lists every
  write of the HelmApp, by whomever it is. The controller's update replaces the
  object by a copy from the cache; that it takes no finalizer away and clears no
  deletion mark rests on the refused conflicts (`FreshCopies` of `CopiesInv`). That
  a marked object has a finalizer (`MarkedIsKept`) is what keeps the HelmApp
  controller from adding one to an object that is going.
- `NoWakeUpIsLost`: `Spec => []QuiescentMeansProcessed`, from the assumption that
  `DeepEqual` never finds a HelmApp from the cache up to date. If it could, an old
  copy that happens to have the wanted spec would make the controller keep a
  HelmApp that has another one, and nothing watches HelmApps. With it each
  reconcile ends in a write, which is refused when the copy is old, and comes
  back. `CopyIsCurrent` is as above, for the IstioOperator; `AppsAreOurs` says
  that every copy of the HelmApp is a managed one until users touch it.

Four theorems about the clients hold for any number of objects, types, callers,
channels, waiters and versions that `ClientsetAssumption` and `FactoryAssumption`
allow. None of them is inductive alone; `IInv` is their conjunction with the
following:

- `TypeCorrect`: `Spec => []TypeOK`. A reflector that watches has listed
  (`WatchHasListed`), or the event it receives would have no predecessor.
- `NoChangeIsLost`: `Spec => []IncrementsCount`. A caller's object is one the
  server had at that version, with at most one change unless that version was
  changed in a cache's memory (`HeldIsPast`), and a
  version is given to one object once (`VersionsIdentify`): a write that is
  accepted adds this change to what is stored, and one that was already made and
  is sent again without its answer is refused. Counts start at zero with each
  object (`GoneCountsZero`).
- `FakeIsFaithful`: `Spec => []FakeAgrees`. The tracker replaces whole objects. It
  agrees because the caller's object differs from the stored one in nothing but
  the field it changed, which is `HeldIsPast` again.
- `CachesArePast`: `Spec => []CacheIsAPastState`. A received event turns the
  state at a position into the state at the next one. An edit may well reach the
  cache: then the caller shares a message with it, and since a `DeepCopy` shares none
  and what is no copy shares both (the first part of `PastCopy`), it was the lister's
  own object, and its version is marked as spoilt in the same step. The entry that
  it changes has that version, so `Shows` still holds of it, and of no other entry
  anything has changed (`CacheEdited`).

Six theorems about the conversion hold for all specs, profiles, users' HelmApps and
lists of gateways, of any width and any depth, under these assumptions:
`TypeAssumption`, the types that the protobuf messages give to the fields that are
branched on, and that trees have strings as keys, no nil, and an end
(`MaxDepth`, any number from 2 on: `DepthAssumption`); `MergoAssumption`, that a
profile and a spec have nodes at the same places, for mergo fails or panics
otherwise; `ConversionAssumption`, which values are zero values; and
`NamesAssumption`, that the names of fields are strings, which the prover knows of no
literal. TLC evaluates all of them for the inputs of the run.

- `TypeCorrect`: `Spec => []TypeOK`. The lists that the loops run over come from the
  user or from the profile, and are sequences, because the spec at hand is the one
  merged of both (`MergedInv`).
- `ChartsAreOrdered`: `Spec => []ChartsInOrder`. Nothing sorts the list: its order is
  that of the appends. `OrderInv` bounds the ranks of what is listed by the place
  reached; `MergedInv` keeps the version the one of the user's tag, read before the
  profile's could take its place.
- `AskedComponentsAreInstalled`: `Spec => []InstalledAsAsked`. `AskedInv` says for each
  place which switches have been followed and which gateways taken, up to the loop
  index, in terms of the merged spec; `MergedSwitch` and `MergedList` turn that into
  terms of what the user and the profile have written.

- `UserValuesWin`: `Spec => []UserWins`. Every path of the merged spec is followed
  key by key down both sides (`OverlayFate`): as long as both have nodes, the merge
  goes on in both; from the first place on where one of them has nothing or a
  leaf, the rest is the other's, or the user's if its leaf is not a zero value.
  `MergoAssumption` excludes the case in which a leaf hides a tree of the profile.
- `ValuesOfComponentsWin`: `Spec => []ComponentValuesWin`. `OverlayFate` again; here a
  leaf of the component may hide a tree of the global values, and that is exactly
  when a global value is missing.
- `IstiodGetsCopiedValues`: `Spec => []CopiedValuesReachIstiod`. It is about the six
  parts that `convertIopToHelmApp` copies, and says that nothing else but global
  values arrives (`NothingElse`, from the keys of `IstiodValues` and `MergedKeys` for
  those of `values.global`). `AboveWins` takes a value of the
  user through the profile's merge; `IstiodInv` says that what is appended for istiod
  is `IstiodValues` of the merged spec, and stays; `MeshLeads` and `PilotLeads` follow the
  value through the maps that are put together by hand; and `AboveWins` takes it through
  the merge with the global values. The proof needed the two exceptions in full: a
  key of `meshConfig` gives way to `values.meshConfig` when the *profile* sets that
  key there, not only when the user does (`MergedKeys`), and so does `values.pilot.resources`
  to a profile's `components.pilot.k8s.resources`. No profile of the repository does
  either, so the runs alone would not have told.

These theorems rest on `ValueTreesProofs`. The library's induction theorems take an
operator as their parameter, which the provers here cannot instantiate, so
`Induction` and the induction over paths are stated for sets, from the least
counterexample of `WellFoundedInduction`. That the recursive functions satisfy their
equations needs no more than that trees end: `Overlay` on paths is defined
backwards, from a path to its extensions, and its function exists because beyond
`MaxDepth` there is nothing to merge.

Only model-checked: the liveness properties (`RecordedDeletionCompletes`,
`EveryEditIsProcessed`, `ComesToRest`, `IopDeletionCompletes`, `EditsReachHelmApp`,
`CacheCatchesUp`, `WaitEnds`), which are out of the prover's reach, since it has no
rule for fairness and `ENABLED`. Every other property of a passing run is stated by a
theorem.

## Observed, without a run of its own

- The comment at `helmapp.go:156` says 3 minutes, `failedAfter` (`:64`) is 30
  seconds.
- A chart that cannot be located gives RECONCILING and no retry: nothing wakes
  the controller until the next resync.
- A release left pending by a crash is never upgradable again.
- From ten revisions on, the last listed revision is v9, not the latest
  (`NinthHidesLatest`).
- Two components with one name share a release.
- `repo` of a single component (`helmapp.proto`) is read nowhere.
- A user's edit of a managed HelmApp stays until the IstioOperator is reconciled
  again, since nothing watches HelmApps.
- A cached copy that still shows a user's own HelmApp makes the controller skip
  (`iop.go:377`), although a managed one is stored by then.
- `r.Delete` (`iop.go:58`) has no precondition: it deletes a HelmApp that a user
  has just created in place of the managed one.
- After a successful upgrade the settled phase is RECONCILING, not SUCCEEDED: an
  unchanged component is reported from the first revision (`helmapp.go:340`),
  which is superseded.
- `mergo.Merge` (`iop.go:409`) fills an explicit `false` from the profile: a user
  cannot switch off what the profile switches on, except gateways, whose lists
  are replaced as a whole, unless the user's is empty (`AskedComponentsAreInstalled`).
- Profiles are not laid over the default one: `profile: demo` alone installs an
  egress gateway and nothing it could run with.
- A tag in the profile is ignored, and so is one that is a number.
- `autoscaleEnabled: "true"` becomes false and `autoscaleMin: "5"` becomes 0, and
  the autoscaling of `istio-ingressgateway` is that of every gateway.
- `cni` and `ztunnel` give components without name and chart: no chart can be
  located for them.
- Global values are merged at the top of a chart's values, not under `global`.
- `spec.hub`, which `README.md:58`, `demo/iop.yaml:28` and `iop_test.go:35` set, is
  dropped by the conversion (`iop.go:184-244`), and so are `components.pilot`'s `env`,
  `replicaCount` and `hpaSpec` and every key of `values` but `meshConfig`,
  `sidecarInjectorWebhook`, `pilot`, `global` and, for the autoscaling of gateways,
  `gateways`: istiod runs without what the user has asked for there
  (`NothingElseReaches`).
- The listers' objects are read-only by comment only: who changes one in place
  changes what everybody reads until the object's next version, and can write it
  to the server (`EditsObject`; `tampered` keeps such objects out of the promises).
- A gateway named `istiod` shares the release of istiod.
- A stopped informer is never started again; one that is asked for after `Start`
  needs a second `Start`; a wait before the first `Start` returns at once.
- The fake's watch shows nothing of what was created before it: an informer on a
  fake clientset can miss objects between its list and its watch.

## Not modelled

- Two managers without leader election (`cmd/main.go:42`): what becomes of a release
  when two Helm processes work on it at a time is decided inside Helm, whose code
  is not in the repository.
- More than nine revisions, and two components of one name: the runs and
  `EveryRevisionIsAsked` leave them out, see above for what happens then. No text in the
  repository says what should.
- A HelmApp that users delete and put an own one in its place, between the read
  and the delete of `iop.go:50-58`: it happens in the model with two operations on
  the HelmApp, and no property forbids it, since none is promised.
- `DeleteCollection`, the constructors and options of the clientset and the
  factory, namespaces, event handlers and indexers of the generated clients: they
  choose what is asked for and have no state that a caller could see go wrong.
- Marshalling, getters and schemes of `apis/operator/v1alpha1`: generated, without
  behaviour of its own; `DeepCopy` is in `SharedInformerFactory`.
- Flags, probes and metrics of the manager; charts, profiles as files, manifests.

## Plan

1. `HelmStorage`, `HelmAppController`, `AppLifecycle` and their theorems (done).
2. `IopController` and its theorems (done).
3. `ValueTrees`, `IopConversion`, `ComponentValues` and their theorems (done).
4. `HelmAppClientset`, `SharedInformerFactory` and their theorems (done).
5. Theorems for `SucceededMeansInstalled` and `RevisionsBoundedByEdits` (done).
6. A theorem that `IopController` keeps `AppLifecycle` for the HelmApp it writes
   (done).
7. Theorems about the values: merges without RECURSIVE operators, `UserWins`,
   `ComponentValuesWin` and `CopiedValuesReachIstiod` (done).
8. Event handlers of shared informers, if the operator comes to use them.
