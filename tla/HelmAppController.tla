-------------------------- MODULE HelmAppController --------------------------
(***************************************************************************)
(* The HelmApp controller (internal/controller/helmapp.go) reconciling one *)
(* HelmApp: the object in the API server, the manager's informer cache and *)
(* work queue, the single worker that runs HelmAppReconciler.Reconcile,    *)
(* and the Helm releases of the namespace.                                 *)
(*                                                                         *)
(* Resource versions are used by the code only to tell whether the copy it *)
(* holds is still the stored one, so each copy carries a flag instead:     *)
(* cacheFresh and appFresh.  A copy that went stale stays stale.           *)
(***************************************************************************)
EXTENDS HelmStorage

CONSTANTS
  Specs,        \* the specs users submit
  MaxEdits,     \* bound on user operations on the object
  MaxFaults,    \* bound on failed calls, lost answers and crashes
  MaxRevisions  \* bound on the revisions of one release

Component == [name : Names \cup {NoName}, version : Versions, values : Values]

(* set: the Spec pointer is not nil; repo: nor is Spec.Repo.               *)
AppSpec == [set : BOOLEAN, repo : BOOLEAN, components : Seq(Component)]

Phases == {"UNKNOWN", "RECONCILING", "SUCCEEDED", "FAILED", "DELETING"}

(* Which call a component's status message reports; wording is left out.   *)
Messages == {"none", "chart", "history", "install", "upgrade", "uninstall"}

ComponentStatus ==
  [name : Names \cup {NoName}, status : ReleaseStatus, version : Nat, message : Messages]

(* set: the Status pointer is not nil; version 0 stands for "unknown".     *)
AppStatus == [set : BOOLEAN, phase : Phases, components : Seq(ComponentStatus)]

App == [present   : BOOLEAN,   spec   : AppSpec, deleting : BOOLEAN,
        finalizer : BOOLEAN,   status : AppStatus]

NilSpec == [set |-> FALSE, repo |-> FALSE, components |-> <<>>]

NilStatus == [set |-> FALSE, phase |-> "UNKNOWN", components |-> <<>>]

NoApp ==
  [present |-> FALSE, spec |-> NilSpec, deleting |-> FALSE, finalizer |-> FALSE,
   status |-> NilStatus]

ASSUME ControllerAssumption ==
  /\ Specs \subseteq AppSpec
  /\ MaxEdits \in Nat /\ MaxFaults \in Nat
  /\ MaxRevisions \in 1..99

VARIABLES
  stored,            \* the HelmApp in the API server
  cached,            \* the HelmApp in the informer cache
  cacheFresh,        \* cached is the stored version
  queued,            \* the key waits in the work queue
  delayed,           \* the key waits for RequeueAfter or the rate limiter
  pc,                \* where the worker is in Reconcile
  helm,              \* the Helm action the worker is inside of
  helmApp,           \* Reconcile's copy of the object
  appFresh,          \* helmApp is the stored version
  idx,               \* index of the component or status being processed
  componentStatuses, \* the list that becomes Status.Components
  releases,          \* Helm's history of every release
  edits, faults      \* how much of MaxEdits and MaxFaults is used up

local  == <<pc, helm, helmApp, appFresh, idx, componentStatuses>>
server == <<stored, cached, cacheFresh>>
queue  == <<queued, delayed>>
vars   == <<server, queue, local, releases, edits, faults>>

Init ==
  /\ stored = NoApp /\ cached = NoApp /\ cacheFresh = TRUE
  /\ queued = FALSE /\ delayed = FALSE
  /\ pc = "idle" /\ helm = "none" /\ helmApp = NoApp /\ appFresh = FALSE
  /\ idx = 0 /\ componentStatuses = <<>>
  /\ releases = [n \in Names |-> <<>>]
  /\ edits = 0 /\ faults = 0

Fault == faults < MaxFaults /\ faults' = faults + 1

-----------------------------------------------------------------------------
(* Users and the API server                                                *)

UserWrites(new) ==
  /\ edits < MaxEdits
  /\ edits' = edits + 1
  /\ stored' = new
  /\ cacheFresh' = FALSE /\ appFresh' = FALSE
  /\ UNCHANGED <<cached, queue, pc, helm, helmApp, idx, componentStatuses, releases, faults>>

UserCreates ==
  /\ ~stored.present
  /\ \E s \in Specs : UserWrites([NoApp EXCEPT !.present = TRUE, !.spec = s])

UserUpdates ==
  /\ stored.present
  /\ \E s \in Specs \ {stored.spec} : UserWrites([stored EXCEPT !.spec = s])

(* An object with a finalizer is only marked; without one it goes at once. *)
UserDeletes ==
  /\ stored.present /\ ~stored.deleting
  /\ UserWrites(IF stored.finalizer THEN [stored EXCEPT !.deleting = TRUE] ELSE NoApp)

(* The API server stores a write; one that changes nothing keeps the       *)
(* resource version and wakes no watcher.                                  *)
Stores(new) ==
  /\ stored' = new
  /\ cacheFresh' = (cacheFresh /\ new = stored)
  /\ UNCHANGED cached

(* The informer delivers the stored version and its handler, which has no  *)
(* predicate, enqueues the key.                                            *)
Deliver ==
  /\ ~cacheFresh
  /\ cached' = stored /\ cacheFresh' = TRUE
  /\ queued' = TRUE
  /\ UNCHANGED <<stored, delayed, local, releases, edits, faults>>

(* The informer's periodic resync enqueues what the cache holds.           *)
Resync ==
  /\ cached.present /\ ~queued
  /\ queued' = TRUE
  /\ UNCHANGED <<server, delayed, local, releases, edits, faults>>

DelayExpires ==
  /\ delayed
  /\ delayed' = FALSE /\ queued' = TRUE
  /\ UNCHANGED <<server, local, releases, edits, faults>>

-----------------------------------------------------------------------------
(* Reconcile: start and end                                                *)

Leaves ==
  /\ pc' = "idle" /\ helm' = "none" /\ helmApp' = NoApp /\ appFresh' = FALSE
  /\ idx' = 0 /\ componentStatuses' = <<>>

ErrsWithoutRetry == Leaves /\ UNCHANGED queue   \* mistake: the error is swallowed

(* Reconcile returned an error or panicked (controller-runtime recovers):  *)
(* the key goes back through the rate limiter, RequeueAfter is ignored.    *)
Errs == Leaves /\ delayed' = TRUE /\ UNCHANGED queued

(* Reconcile returned nil; after is true when the result asks for a        *)
(* requeue.                                                                *)
Returns(after) == Leaves /\ delayed' = (delayed \/ after) /\ UNCHANGED queued

Dequeue ==
  /\ pc = "idle" /\ queued
  /\ queued' = FALSE
  /\ UNCHANGED <<server, delayed, helm, idx, componentStatuses, releases, edits, faults>>

GetFindsNothing ==
  /\ Dequeue
  /\ ~cached.present
  /\ UNCHANGED <<pc, helmApp, appFresh>>

FirstStepUnguarded(app) == "initHelm"   \* mistake: no finalizer is added
FirstStep(app) == IF app.deleting \/ app.finalizer THEN "initHelm" ELSE "addFinalizer"

GetFindsApp ==
  /\ Dequeue
  /\ cached.present
  /\ helmApp' = cached /\ appFresh' = cacheFresh
  /\ pc' = FirstStep(cached)

AddsFinalizer ==
  /\ pc = "addFinalizer" /\ appFresh
  /\ Stores([helmApp EXCEPT !.finalizer = TRUE])
  /\ helmApp' = [helmApp EXCEPT !.finalizer = TRUE]
  /\ pc' = "initHelm"
  /\ UNCHANGED <<queue, helm, appFresh, idx, componentStatuses, releases, edits, faults>>

HelmInitFails ==
  /\ pc = "initHelm"
  /\ Fault /\ Errs
  /\ UNCHANGED <<server, releases, edits>>

(* Spec.Components is read without a check for a nil Spec.                 *)
SpecMissing ==
  /\ pc = "initHelm" /\ ~helmApp.deleting /\ ~helmApp.spec.set
  /\ Errs
  /\ UNCHANGED <<server, releases, edits, faults>>

StartsComponents ==
  /\ pc = "initHelm" /\ ~helmApp.deleting /\ helmApp.spec.set
  /\ pc' = "components" /\ idx' = 1 /\ componentStatuses' = <<>>
  /\ UNCHANGED <<server, queue, helm, helmApp, appFresh, releases, edits, faults>>

-----------------------------------------------------------------------------
(* reconcileComponent                                                      *)

HasConfigChanged(revision, component) ==
  \/ revision.version # component.version
  \/ revision.config # component.values

Current == helmApp.spec.components[idx]

AtComponent ==
  /\ pc = "components" /\ idx \in DOMAIN helmApp.spec.components
  /\ helm = "none" /\ helmApp.spec.repo

(* The status reconcileComponent returns.  Its error is only logged: the   *)
(* loop goes on with the next component.                                   *)
Reports(status, revision, message) ==
  /\ componentStatuses' = Append(componentStatuses,
       [name |-> Current.name, status |-> status, version |-> revision, message |-> message])
  /\ idx' = idx + 1 /\ helm' = "none"
  /\ UNCHANGED <<server, queue, pc, helmApp, appFresh, edits>>

(* Helm has stored a revision and is waiting for the cluster.              *)
Stays(action) ==
  /\ helm' = action
  /\ UNCHANGED <<server, queue, pc, helmApp, appFresh, idx, componentStatuses, edits, faults>>

(* Spec.Repo.Url is read without a check for a nil Repo.                   *)
RepoMissing ==
  /\ pc = "components" /\ idx \in DOMAIN helmApp.spec.components
  /\ ~helmApp.spec.repo
  /\ Errs
  /\ UNCHANGED <<server, releases, edits, faults>>

ChartUnavailable ==
  /\ AtComponent
  /\ \/ Resolve[Current.version] = NoChart /\ UNCHANGED faults
     \/ Fault
  /\ Reports("unknown", 0, "chart")
  /\ UNCHANGED releases

(* LocateChart and Load succeeded.                                         *)
ChartLoaded == AtComponent /\ Resolve[Current.version] # NoChart

HistoryFails ==
  /\ ChartLoaded
  /\ \/ Current.name = NoName /\ UNCHANGED faults
     \/ Fault
  /\ Reports("unknown", 0, "history")
  /\ UNCHANGED releases

History == releases[Current.name]

MustInstall == ChartLoaded /\ Current.name \in Names /\ History = <<>>

(* Run gives up before a revision is stored.  What it returns depends on   *)
(* how far it came: nothing, a release it marked failed, or one it could   *)
(* not create.                                                             *)
InstallRejected ==
  /\ MustInstall /\ Fault
  /\ \/ Reports("unknown", 0, "install")
     \/ Reports("failed", 1, "install")
     \/ Reports("pending-install", 1, "install")
  /\ UNCHANGED releases

InstallStores ==
  /\ MustInstall
  /\ releases' = [releases EXCEPT ![Current.name] =
       <<NewRevision(Resolve[Current.version], Encode(Current.values), "pending-install")>>]
  /\ Stays("install")

InstallEnds(status) ==
  /\ pc = "components" /\ helm = "install"
  /\ releases' = [releases EXCEPT ![Current.name] = WithStatus(History, 1, status)]

InstallSucceeds == InstallEnds("deployed") /\ Reports("deployed", 1, "none") /\ UNCHANGED faults

InstallFails == InstallEnds("failed") /\ Fault /\ Reports("failed", 1, "install")

(* Helm only logs a failure to record that the release is deployed.        *)
InstallUnrecorded ==
  InstallEnds("pending-install") /\ Fault /\ Reports("deployed", 1, "none")

(* The comparison takes the last listed revision, the report the first.    *)
ReleaseExists == ChartLoaded /\ Current.name \in Names /\ History # <<>>

(* Mistake: the first revision is compared.                                *)
UpToDateWithFirst == ~HasConfigChanged(History[ListedFirst(History)], Current)
UpToDate == ~HasConfigChanged(History[ListedLast(History)], Current)

SkipsUnchanged ==
  /\ ReleaseExists /\ UpToDate
  /\ LET first == ListedFirst(History) IN Reports(History[first].status, first, "none")
  /\ UNCHANGED <<releases, faults>>

MustUpgrade == ReleaseExists /\ ~UpToDate

UpgradeRejected ==
  /\ MustUpgrade
  /\ \/ ~Upgradable(History) /\ UNCHANGED faults
     \/ Fault
  /\ Reports("unknown", 0, "upgrade")
  /\ UNCHANGED releases

UpgradeStores ==
  /\ MustUpgrade /\ Upgradable(History)
  /\ Len(History) < MaxRevisions
  /\ releases' = [releases EXCEPT ![Current.name] =
       Append(History, NewRevision(Resolve[Current.version],
                                   UpgradeConfig(History, Current.values), "pending-upgrade"))]
  /\ Stays("upgrade")

(* A failed upgrade leaves the revision it was to replace as it was.       *)
UpgradeEnds(status) ==
  /\ pc = "components" /\ helm = "upgrade"
  /\ LET replaced == UpgradeBase(Front(History))
         h == IF status = "failed" THEN History ELSE WithStatus(History, replaced, "superseded")
     IN  releases' = [releases EXCEPT ![Current.name] = WithStatus(h, Len(h), status)]

UpgradeSucceeds ==
  UpgradeEnds("deployed") /\ Reports("deployed", Len(History), "none") /\ UNCHANGED faults

UpgradeFails == UpgradeEnds("failed") /\ Fault /\ Reports("failed", Len(History), "upgrade")

UpgradeUnrecorded ==
  UpgradeEnds("pending-upgrade") /\ Fault /\ Reports("deployed", Len(History), "upgrade")

ComponentsDone ==
  /\ pc = "components" /\ idx > Len(helmApp.spec.components)
  /\ pc' = "leftovers" /\ idx' = 1
  /\ UNCHANGED <<server, queue, helm, helmApp, appFresh, componentStatuses, releases, edits, faults>>

-----------------------------------------------------------------------------
(* Uninstalling: the components that left the spec (pc = "leftovers", over *)
(* the old status list) and all of them, last first, when the object is    *)
(* being deleted (pc = "deleteComponents", which shrinks its list).        *)

DesiredNames(app) == {c.name : c \in ToSet(app.spec.components)}

(* The walk starts at the last status.                                     *)
LastStatusOneEarly == Len(helmApp.status.components) - 1   \* mistake: zero-based
LastStatus == Len(helmApp.status.components)

StartsDeletion ==
  /\ pc = "initHelm" /\ helmApp.deleting
  /\ pc' = "deleteComponents"
  /\ idx' = LastStatus /\ componentStatuses' = helmApp.status.components
  /\ UNCHANGED <<server, queue, helm, helmApp, appFresh, releases, edits, faults>>

AtStatus ==
  \/ pc = "leftovers" /\ idx \in DOMAIN helmApp.status.components
  \/ pc = "deleteComponents" /\ idx \in DOMAIN componentStatuses

Existing ==
  IF pc = "leftovers" THEN helmApp.status.components[idx] ELSE componentStatuses[idx]

ToUninstallEvenDesired == AtStatus /\ Existing.name # NoName   \* mistake
ToUninstall ==
  /\ AtStatus /\ Existing.name # NoName
  /\ pc = "leftovers" => Existing.name \notin DesiredNames(helmApp)
OthersButLast == Front(componentStatuses)   \* mistake: drops the last one
Others == RemoveAt(componentStatuses, idx)

(* Goes on to the next status; a deletion drops this one.                  *)
Clears ==
  /\ IF pc = "leftovers"
     THEN idx' = idx + 1 /\ UNCHANGED componentStatuses
     ELSE idx' = idx - 1 /\ componentStatuses' = Others
  /\ helm' = "none"
  /\ UNCHANGED <<server, queue, pc, helmApp, appFresh, edits>>

NothingToUninstall ==
  /\ AtStatus /\ ~ToUninstall
  /\ Clears
  /\ UNCHANGED <<releases, faults>>

FindsNoRelease ==
  /\ ToUninstall /\ releases[Existing.name] = <<>>
  /\ Clears
  /\ UNCHANGED <<releases, faults>>

UninstallStarts ==
  /\ ToUninstall /\ helm = "none"
  /\ LET h == releases[Existing.name] IN
       /\ h # <<>>
       /\ releases' = [releases EXCEPT ![Existing.name] = WithStatus(h, Len(h), "uninstalling")]
  /\ Stays("uninstall")

Uninstalled ==
  /\ ToUninstall /\ helm = "uninstall"
  /\ releases' = [releases EXCEPT ![Existing.name] = <<>>]
  /\ Clears
  /\ UNCHANGED faults

Failed(status) == [status EXCEPT !.status = "failed", !.message = "uninstall"]

(* Mistake: a failed uninstall is treated like a successful one.           *)
UninstallFailureIgnored == ToUninstall /\ Fault /\ Clears /\ UNCHANGED releases

(* An error reported after the history is purged (a hook's) counts too.    *)
UninstallFails ==
  /\ ToUninstall /\ Fault
  /\ \/ UNCHANGED releases
     \/ helm = "uninstall" /\ releases' = [releases EXCEPT ![Existing.name] = <<>>]
  /\ IF pc = "leftovers"
     THEN idx' = idx + 1 /\ componentStatuses' = Append(componentStatuses, Failed(Existing))
     ELSE idx' = idx - 1 /\ componentStatuses' = [componentStatuses EXCEPT ![idx] = Failed(@)]
  /\ helm' = "none"
  /\ UNCHANGED <<server, queue, pc, helmApp, appFresh, edits>>

LeftoversDone ==
  /\ pc = "leftovers" /\ ~AtStatus
  /\ pc' = "updateStatus"
  /\ UNCHANGED <<server, queue, helm, helmApp, appFresh, idx, componentStatuses,
                 releases, edits, faults>>

-----------------------------------------------------------------------------
(* Writing the status and the finalizer                                    *)

(* Mistake: everything that did not fail is taken for deployed.            *)
PhaseIgnoringUnknown(app, statuses) ==
  LET reported == {s.status : s \in ToSet(statuses)} IN
  IF reported = {} THEN "UNKNOWN"
  ELSE IF app.deleting THEN "DELETING"
  ELSE IF "failed" \in reported THEN "FAILED" ELSE "SUCCEEDED"

CalculateOverallPhase(app, statuses) ==
  LET reported == {s.status : s \in ToSet(statuses)} IN
  IF reported = {} THEN "UNKNOWN"
  ELSE IF app.deleting THEN "DELETING"
  ELSE CASE "failed" \in reported     -> "FAILED"
         [] reported = {"deployed"} -> "SUCCEEDED"
         [] OTHER                   -> "RECONCILING"

NewStatus ==
  [set |-> TRUE, components |-> componentStatuses,
   phase |-> CalculateOverallPhase(helmApp, componentStatuses)]

AllProcessed == pc = "deleteComponents" /\ idx = 0

(* helmApp.Status.Phase is assigned through a nil Status.                  *)
DeletePanics ==
  /\ AllProcessed /\ ~helmApp.status.set
  /\ Errs
  /\ UNCHANGED <<server, releases, edits, faults>>

AlwaysAllUninstalled == TRUE   \* mistake: failed uninstalls are forgotten
AllUninstalled == componentStatuses = <<>>

NeverAsksForRetry == FALSE   \* mistake: a FAILED phase is not retried
AsksForRetry == NewStatus.phase = "FAILED"

WritesStatus ==
  /\ pc = "updateStatus" /\ appFresh
  /\ Stores([helmApp EXCEPT !.status = NewStatus])
  /\ Returns(AsksForRetry)
  /\ UNCHANGED <<releases, edits, faults>>

WritesDeleteStatus ==
  /\ AllProcessed /\ helmApp.status.set /\ appFresh
  /\ Stores([helmApp EXCEPT !.status = NewStatus])
  /\ IF AllUninstalled
     THEN /\ pc' = "removeFinalizer"
          /\ helmApp' = [helmApp EXCEPT !.status = NewStatus]
          /\ UNCHANGED <<queue, helm, appFresh, idx, componentStatuses>>
     ELSE Returns(TRUE)
  /\ UNCHANGED <<releases, edits, faults>>

(* The object is terminating: without a finalizer the API server drops it. *)
RemovesFinalizer ==
  /\ pc = "removeFinalizer" /\ appFresh
  /\ Stores(NoApp)
  /\ Returns(FALSE)
  /\ UNCHANGED <<releases, edits, faults>>

Writing ==
  \/ pc \in {"addFinalizer", "updateStatus", "removeFinalizer"}
  \/ AllProcessed /\ helmApp.status.set

Written ==
  CASE pc = "addFinalizer"    -> [helmApp EXCEPT !.finalizer = TRUE]
    [] pc = "removeFinalizer" -> NoApp
    [] OTHER                  -> [helmApp EXCEPT !.status = NewStatus]

(* A conflict, a call that does not reach the server, or a lost answer.    *)
WriteFails ==
  /\ Writing
  /\ \/ ~appFresh /\ UNCHANGED <<server, faults>>
     \/ Fault /\ UNCHANGED server
     \/ Fault /\ appFresh /\ Stores(Written)
  /\ Errs
  /\ UNCHANGED <<releases, edits>>

-----------------------------------------------------------------------------
(* The manager process ends and is started again: the work queue is gone,  *)
(* the new informer lists the objects and enqueues each of them.           *)
Crash ==
  /\ Fault
  /\ Leaves
  /\ cached' = stored /\ cacheFresh' = TRUE
  /\ queued' = stored.present /\ delayed' = FALSE
  /\ UNCHANGED <<stored, releases, edits>>

ReconcileComponent ==
  \/ RepoMissing \/ ChartUnavailable \/ HistoryFails
  \/ InstallRejected \/ InstallStores \/ InstallSucceeds \/ InstallFails \/ InstallUnrecorded
  \/ SkipsUnchanged
  \/ UpgradeRejected \/ UpgradeStores \/ UpgradeSucceeds \/ UpgradeFails \/ UpgradeUnrecorded
  \/ ComponentsDone

Uninstall ==
  \/ NothingToUninstall \/ FindsNoRelease
  \/ UninstallStarts \/ Uninstalled \/ UninstallFails
  \/ LeftoversDone

Reconcile ==
  \/ GetFindsNothing \/ GetFindsApp \/ AddsFinalizer \/ HelmInitFails
  \/ SpecMissing \/ StartsComponents \/ ReconcileComponent
  \/ StartsDeletion \/ Uninstall
  \/ WritesStatus \/ DeletePanics \/ WritesDeleteStatus \/ RemovesFinalizer \/ WriteFails

User == UserCreates \/ UserUpdates \/ UserDeletes

Next == User \/ Deliver \/ Resync \/ DelayExpires \/ Reconcile \/ Crash

Spec == Init /\ [][Next]_vars

(* The manager keeps running its worker and its queue, and the watch keeps *)
(* delivering; users and the resync owe nothing.                           *)
FairSpec == Spec /\ WF_vars(Reconcile) /\ WF_vars(Deliver) /\ WF_vars(DelayExpires)

-----------------------------------------------------------------------------
(* Properties                                                              *)

(* Every variable holds a value of the kind the Go code gives it.          *)
TypeOK ==
  /\ stored \in App /\ cached \in App /\ helmApp \in App
  /\ cacheFresh \in BOOLEAN /\ appFresh \in BOOLEAN
  /\ queued \in BOOLEAN /\ delayed \in BOOLEAN
  /\ pc \in {"idle", "addFinalizer", "initHelm", "components", "leftovers",
             "updateStatus", "deleteComponents", "removeFinalizer"}
  /\ helm \in {"none", "install", "upgrade", "uninstall"}
  /\ idx \in Nat /\ componentStatuses \in Seq(ComponentStatus)
  /\ releases \in [Names -> Seq(Revision)]
  /\ edits \in 0..MaxEdits /\ faults \in 0..MaxFaults

(* A reconcile of a copy that is not being deleted installs, upgrades and  *)
(* uninstalls leftovers only while the API server holds the object back    *)
(* with the finalizer, however stale the copy: a delete can never remove   *)
(* the object under a running install.  Nothing is said of reconcileDelete,*)
(* which with a stale copy may ask Helm to uninstall for an object that is *)
(* gone.                                                                   *)
InstallUnderFinalizer ==
  pc \in {"components", "leftovers", "updateStatus"} => stored.present /\ stored.finalizer

(* reconcileDelete removes from the list it walks: what it has not visited *)
(* is untouched, what it has visited and kept are failed uninstalls.       *)
DeletionSkipsNothing ==
  pc = "deleteComponents" =>
    /\ idx <= Len(componentStatuses)
    /\ \A j \in 1..idx : componentStatuses[j] = helmApp.status.components[j]
    /\ \A j \in DOMAIN componentStatuses : j > idx => componentStatuses[j].status = "failed"

Recorded(app) == {s.name : s \in ToSet(app.status.components)} \cap Names

(* A component leaves the stored status, and a recorded object the API     *)
(* server, only after its release is gone: the status list is the only     *)
(* memory of what has to be uninstalled.                                   *)
RecordedUntilGone ==
  [][\A n \in Recorded(stored) \ Recorded(stored') : releases[n] = <<>>]_vars

(* A status that says SUCCEEDED is never written while a component of the  *)
(* spec it answers has no release.                                         *)
SucceededMeansInstalled ==
  [][stored'.status # stored.status /\ stored'.status.phase = "SUCCEEDED"
       => \A n \in DesiredNames(stored) : releases[n] # <<>>]_vars

Quiescent == pc = "idle" /\ ~queued /\ ~delayed /\ cacheFresh

StatusNames(app) == [k \in DOMAIN app.status.components |-> app.status.components[k].name]
SpecNames(app) == [k \in DOMAIN app.spec.components |-> app.spec.components[k].name]

(* No wake-up is lost: when nothing is queued, delayed, undelivered or     *)
(* running, the object is not terminating, carries the finalizer and a     *)
(* status that answers its spec, and nothing failed.                       *)
QuiescentMeansProcessed ==
  Quiescent /\ stored.present =>
    /\ ~stored.deleting /\ stored.finalizer
    /\ stored.status.set /\ stored.status.phase # "FAILED"
    /\ StatusNames(stored) = SpecNames(stored)

(* A release gains at most one revision per user edit: reconciling the     *)
(* same spec again, a crash or a retry adds none.                          *)
RevisionsBoundedByEdits == \A n \in Names : Len(releases[n]) <= edits

(* A HelmApp that is deleted after its first status was written goes away. *)
RecordedDeletionCompletes ==
  stored.present /\ stored.deleting /\ stored.status.set
    ~> ~(stored.present /\ stored.deleting)

(* Every spec with a repository is eventually answered by a status that    *)
(* names its components, unless the user changes or deletes it first.      *)
EveryEditIsProcessed ==
  \A s \in Specs :
    s.repo /\ stored.present /\ stored.spec = s ~>
      \/ ~stored.present \/ stored.deleting \/ stored.spec # s
      \/ StatusNames(stored) = SpecNames(stored)

(* The controller comes to rest: from some point on neither the object nor *)
(* a release changes, although the status writes wake the controller.      *)
ComesToRest == <>[][UNCHANGED <<stored, releases>>]_vars

-----------------------------------------------------------------------------
(* The promise to others, AppLifecycle, in terms of this module            *)

LifecyclePhase ==
  CASE ~stored.present -> "absent"
    [] stored.present /\ ~stored.finalizer -> "unheld"
    [] stored.present /\ stored.finalizer /\ ~stored.deleting -> "held"
    [] OTHER -> "terminating"

InstalledNames == {n \in Names : releases[n] # <<>>}

Lifecycle ==
  INSTANCE AppLifecycle
    WITH phase <- LifecyclePhase, recorded <- Recorded(stored), installed <- InstalledNames

(* Whatever caches, queue, faults and restarts do, an observer sees an     *)
(* object that is held before Helm starts and released after its last      *)
(* recorded release is gone.                                               *)
ImplementsLifecycle == Lifecycle!Spec

-----------------------------------------------------------------------------
(* What the repository says and the code does not do                       *)

(* A HelmApp a user deletes goes away.                                     *)
DeletionCompletes ==
  stored.present /\ stored.deleting ~> ~(stored.present /\ stored.deleting)

(* When the controller has nothing to do, no component that left the spec  *)
(* still has a release.                                                    *)
LeftoversUninstalled ==
  Quiescent /\ stored.present => \A n \in Names \ DesiredNames(stored) : releases[n] = <<>>

Installed(component) ==
  \E k \in DOMAIN releases[component.name] :
    /\ releases[component.name][k].status = "deployed"
    /\ ~HasConfigChanged(releases[component.name][k], component)

(* SUCCEEDED is only said of a spec whose components are all deployed.     *)
SucceededMeansApplied ==
  Quiescent /\ stored.present /\ stored.status.phase = "SUCCEEDED" =>
    \A c \in ToSet(stored.spec.components) : Installed(c)
=============================================================================
