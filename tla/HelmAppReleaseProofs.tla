------------------------- MODULE HelmAppReleaseProofs -------------------------
(***************************************************************************)
(* Proofs about what the HelmApp controller does to the Helm releases: it  *)
(* says SUCCEEDED of nothing that has no release, and it stores no         *)
(* revision nobody asked for.                                              *)
(***************************************************************************)
EXTENDS HelmAppRefinementProofs

(* A component that is reported as deployed has a release.                 *)
ReportsAreTrue ==
  pc \in {"components", "leftovers", "updateStatus"} =>
    \A k \in DOMAIN componentStatuses :
      componentStatuses[k].status = "deployed" => componentStatuses[k].name \in InstalledNames

(* While Helm installs or upgrades, the release exists.                    *)
ReleaseAtHand == helm \in {"install", "upgrade"} => Current.name \in InstalledNames

ReportInv == ReportsAreTrue /\ ReleaseAtHand

-----------------------------------------------------------------------------
(* ReportInv is inductive.                                                 *)

LEMMA LeavesKeepsReports ==
  ASSUME pc' \notin {"components", "leftovers", "updateStatus"},
         helm' \notin {"install", "upgrade"}
  PROVE  ReportInv'
BY DEF ReportInv, ReportsAreTrue, ReleaseAtHand

LEMMA SameReports ==
  ASSUME ReportInv, UNCHANGED componentStatuses, InstalledNames \subseteq InstalledNames',
         \/ pc' = pc
         \/ pc \in {"components", "leftovers"} /\ pc' # "components",
         helm' \in {"install", "upgrade"} =>
           \/ Current.name' \in InstalledNames'
           \/ UNCHANGED <<helm, helmApp, idx>>
  PROVE  ReportInv'
BY DEF ReportInv, ReportsAreTrue, ReleaseAtHand, Current

(* Nothing is uninstalled while components are processed, so a report of   *)
(* a release that is there keeps the list true.                            *)
LEMMA ReportsKeepsReports ==
  ASSUME TypeInv, ReportInv, pc = "components", InstalledNames \subseteq InstalledNames',
         NEW status, NEW revision, NEW message, Reports(status, revision, message),
         status = "deployed" => Current.name \in InstalledNames'
  PROVE  ReportInv'
<1> DEFINE s == [name |-> Current.name, status |-> status, version |-> revision,
                 message |-> message]
<1>1. /\ componentStatuses' = Append(componentStatuses, s) /\ pc' = pc
      /\ helm' = "none"
  BY DEF Reports
<1>2. s.name = Current.name /\ s.status = status
  OBVIOUS
<1> HIDE DEF s
<1>3. /\ DOMAIN componentStatuses' = 1..Len(componentStatuses) + 1
      /\ \A k \in 1..Len(componentStatuses) : componentStatuses'[k] = componentStatuses[k]
      /\ componentStatuses'[Len(componentStatuses) + 1] = s
  <2>1. componentStatuses \in Seq(ComponentStatus \cup {s})
    BY ListTypes
  <2> QED BY <1>1, <2>1, AppendProperties, LenProperties
<1>4. DOMAIN componentStatuses = 1..Len(componentStatuses) /\ Len(componentStatuses) \in Nat
  BY ListTypes
<1>5. ReportsAreTrue'
  <2> SUFFICES ASSUME NEW k \in DOMAIN componentStatuses',
                      componentStatuses'[k].status = "deployed"
               PROVE  componentStatuses'[k].name \in InstalledNames'
    BY DEF ReportsAreTrue
  <2>1. CASE k \in 1..Len(componentStatuses)
    BY <1>3, <1>4, <2>1 DEF ReportInv, ReportsAreTrue
  <2>2. CASE k = Len(componentStatuses) + 1
    BY <1>2, <1>3, <2>2
  <2> QED BY <1>3, <1>4, <2>1, <2>2
<1> QED BY <1>1, <1>5 DEF ReportInv, ReleaseAtHand

LEMMA ComponentKeepsReports ==
  ASSUME TypeInv, ReportInv, ReconcileComponent
  PROVE  ReportInv'
<1>1. InstalledNames \subseteq InstalledNames'
  BY ComponentReleases DEF Installs
<1>2. CASE RepoMissing
  BY <1>2, LeavesKeepsReports DEF RepoMissing, Errs, Leaves
<1>3. CASE ChartUnavailable \/ HistoryFails \/ InstallRejected \/ UpgradeRejected
  BY <1>1, <1>3, ReportsKeepsReports
     DEF ChartUnavailable, HistoryFails, InstallRejected, UpgradeRejected, MustInstall,
         MustUpgrade, ReleaseExists, ChartLoaded, AtComponent
<1>4. CASE SkipsUnchanged
  <2>1. Current.name \in InstalledNames /\ pc = "components"
    BY <1>4 DEF SkipsUnchanged, ReleaseExists, ChartLoaded, AtComponent, History, InstalledNames
  <2> QED BY <1>1, <1>4, <2>1, ReportsKeepsReports DEF SkipsUnchanged
<1>5. CASE InstallSucceeds \/ InstallFails \/ InstallUnrecorded
  <2>1. Current.name \in InstalledNames /\ pc = "components"
    BY <1>5 DEF InstallSucceeds, InstallFails, InstallUnrecorded, InstallEnds, ReportInv,
                ReleaseAtHand
  <2> QED BY <1>1, <1>5, <2>1, ReportsKeepsReports
          DEF InstallSucceeds, InstallFails, InstallUnrecorded
<1>6. CASE UpgradeSucceeds \/ UpgradeFails \/ UpgradeUnrecorded
  <2>1. Current.name \in InstalledNames /\ pc = "components"
    BY <1>6 DEF UpgradeSucceeds, UpgradeFails, UpgradeUnrecorded, UpgradeEnds, ReportInv,
                ReleaseAtHand
  <2> QED BY <1>1, <1>6, <2>1, ReportsKeepsReports
          DEF UpgradeSucceeds, UpgradeFails, UpgradeUnrecorded
<1>7. CASE InstallStores
  <2> DEFINE new == NewRevision(Resolve[Current.version], Encode(Current.values),
                                "pending-install")
  <2>1. /\ Current.name \in Names
        /\ releases' = [releases EXCEPT ![Current.name] = <<new>>]
        /\ UNCHANGED <<pc, helmApp, idx, componentStatuses>>
    BY <1>7 DEF InstallStores, MustInstall, Stays
  <2> HIDE DEF new
  <2>2. releases'[Current.name] # <<>>
    BY <2>1 DEF TypeInv, TypeOK
  <2>3. Current.name' \in InstalledNames'
    BY <2>1, <2>2 DEF InstalledNames, Current
  <2> QED BY <1>1, <2>1, <2>3, SameReports
<1>8. CASE UpgradeStores
  <2>1. /\ Current.name \in InstalledNames
        /\ UNCHANGED <<pc, helmApp, idx, componentStatuses>>
    BY <1>8 DEF UpgradeStores, MustUpgrade, ReleaseExists, ChartLoaded, History, Stays,
                InstalledNames
  <2>2. Current.name' \in InstalledNames'
    BY <1>1, <2>1 DEF Current
  <2> QED BY <1>1, <2>1, <2>2, SameReports
<1>9. CASE ComponentsDone
  BY <1>1, <1>9, SameReports DEF ComponentsDone, TypeInv, AtHelmAction
<1> QED BY <1>2, <1>3, <1>4, <1>5, <1>6, <1>7, <1>8, <1>9 DEF ReconcileComponent

-----------------------------------------------------------------------------
(* What is uninstalled among the leftovers is not reported as deployed:    *)
(* the deployed statuses are those of the spec's components.               *)
LEMMA DeployedIsDesired ==
  ASSUME TypeInv, AnswerInv, pc \in {"leftovers", "updateStatus"},
         NEW k \in DOMAIN componentStatuses, componentStatuses[k].status = "deployed"
  PROVE  componentStatuses[k].name \in DesiredNames(helmApp)
<1>1. /\ k \in 1..Len(helmApp.spec.components)
      /\ componentStatuses[k].name = helmApp.spec.components[k].name
  BY ListTypes DEF AnswerInv, SpecAnswered, Answers
<1> QED BY <1>1, ListTypes DEF DesiredNames, ToSet

LEMMA UninstallKeepsReports ==
  ASSUME TypeInv, HeldInv, AnswerInv, ReportInv, Uninstall
  PROVE  ReportInv'
<1>1. helm' \notin {"install", "upgrade"} \/ UNCHANGED <<helm, helmApp, idx, InstalledNames>>
  BY DEF Uninstall, NothingToUninstall, FindsNoRelease, UninstallStarts, Uninstalled,
         UninstallFails, LeftoversDone, Clears, Stays, InstalledNames
<1>2. CASE pc = "deleteComponents"
  <2>1. pc' = pc /\ helm' \notin {"install", "upgrade"}
    BY <1>2 DEF Uninstall, NothingToUninstall, FindsNoRelease, UninstallStarts, Uninstalled,
                UninstallFails, LeftoversDone, Clears, Stays
  <2> QED BY <1>2, <2>1, LeavesKeepsReports
<1>3. CASE pc = "leftovers"
  <2>1. ReleaseAtHand'
    BY <1>1, <1>3 DEF ReleaseAtHand, TypeInv, AtHelmAction
  <2>2. DesiredNames(helmApp) \cap InstalledNames \subseteq InstalledNames'
    BY <1>3, UninstallReleases DEF Uninstalls, ToUninstall
  <2>3. \A k \in DOMAIN componentStatuses :
          componentStatuses[k].status = "deployed" => componentStatuses[k].name \in InstalledNames'
    BY <1>3, <2>2, DeployedIsDesired DEF ReportInv, ReportsAreTrue
  <2>4. CASE UNCHANGED componentStatuses
    BY <2>1, <2>3, <2>4 DEF ReportInv, ReportsAreTrue
  <2>5. CASE UninstallFails
    <3>1. /\ componentStatuses' = Append(componentStatuses, Failed(Existing))
          /\ Failed(Existing) \in ComponentStatus
      BY <1>3, <2>5, ExistingIsStatus, FailedIsStatus DEF UninstallFails, ToUninstall
    <3>2. Failed(Existing).status = "failed"
      BY <2>5, ExistingIsStatus DEF UninstallFails, ToUninstall, Failed, ComponentStatus
    <3>3. /\ DOMAIN componentStatuses' = 1..Len(componentStatuses) + 1
          /\ \A k \in 1..Len(componentStatuses) : componentStatuses'[k] = componentStatuses[k]
          /\ componentStatuses'[Len(componentStatuses) + 1].status = "failed"
      BY <3>1, <3>2, ListTypes, AppendProperties, LenProperties
    <3>4. \A k \in DOMAIN componentStatuses' :
            componentStatuses'[k].status = "deployed" =>
              componentStatuses'[k].name \in InstalledNames'
      BY <2>3, <3>3, ListTypes
    <3> QED BY <2>1, <3>4 DEF ReportInv, ReportsAreTrue
  <2> QED BY <1>3, <2>4, <2>5
          DEF Uninstall, NothingToUninstall, FindsNoRelease, UninstallStarts, Uninstalled,
              LeftoversDone, Clears, Stays
<1> QED BY <1>2, <1>3
        DEF Uninstall, NothingToUninstall, FindsNoRelease, UninstallStarts, Uninstalled,
            UninstallFails, LeftoversDone, ToUninstall, AtStatus

LEMMA ReportInvStep == TypeInv /\ HeldInv /\ AnswerInv /\ ReportInv /\ [Next]_vars => ReportInv'
<1> SUFFICES ASSUME TypeInv, HeldInv, AnswerInv, ReportInv, [Next]_vars PROVE ReportInv'
  OBVIOUS
<1>1. ASSUME UNCHANGED <<pc, helm, helmApp, idx, componentStatuses, releases>> PROVE ReportInv'
  BY <1>1, SameReports DEF InstalledNames
<1>2. CASE UNCHANGED vars \/ User \/ Deliver \/ Resync \/ DelayExpires \/ GetFindsNothing
  BY <1>1, <1>2
     DEF vars, User, UserCreates, UserUpdates, UserDeletes, UserWrites, Deliver, Resync,
         DelayExpires, GetFindsNothing, Dequeue, local
<1>3. CASE GetFindsApp \/ AddsFinalizer \/ StartsDeletion
  <2>1. helm' = helm /\ pc # "components"
    BY <1>3 DEF GetFindsApp, AddsFinalizer, StartsDeletion, Dequeue
  <2> QED BY <1>3, <2>1, LeavesKeepsReports
          DEF GetFindsApp, FirstStep, AddsFinalizer, StartsDeletion, TypeInv, AtHelmAction
<1>4. CASE StartsComponents
  <2>1. /\ componentStatuses' = <<>> /\ helm' = helm /\ pc # "components"
    BY <1>4 DEF StartsComponents
  <2> QED BY <2>1, EmptySeq DEF ReportInv, ReportsAreTrue, ReleaseAtHand, TypeInv, AtHelmAction
<1>5. CASE Crash \/ HelmInitFails \/ SpecMissing \/ WritesStatus \/ DeletePanics
             \/ RemovesFinalizer \/ WriteFails
  BY <1>5, LeavesKeepsReports
     DEF Crash, HelmInitFails, SpecMissing, WritesStatus, DeletePanics, RemovesFinalizer,
         WriteFails, Errs, Returns, Leaves
<1>6. CASE WritesDeleteStatus
  <2>1. helm' \notin {"install", "upgrade"} /\ pc' \in {"idle", "removeFinalizer"}
    BY <1>6 DEF WritesDeleteStatus, AllProcessed, Returns, Leaves, TypeInv, AtHelmAction
  <2> QED BY <2>1, LeavesKeepsReports
<1>7. CASE ReconcileComponent \/ Uninstall
  BY <1>7, ComponentKeepsReports, UninstallKeepsReports
<1> QED BY <1>2, <1>3, <1>4, <1>5, <1>6, <1>7 DEF Next, Reconcile

LEMMA ReportInvInit == Init => ReportInv
BY DEF Init, ReportInv, ReportsAreTrue, ReleaseAtHand

(* What the phase SUCCEEDED says of the list it is computed from.          *)
LEMMA SucceededPhase ==
  ASSUME NEW app, NEW statuses, CalculateOverallPhase(app, statuses) = "SUCCEEDED"
  PROVE  ~app.deleting /\ \A s \in ToSet(statuses) : s.status = "deployed"
<1> DEFINE reported == {s.status : s \in ToSet(statuses)}
<1>1. ~app.deleting /\ reported = {"deployed"}
  BY DEF CalculateOverallPhase
<1>2. \A s \in ToSet(statuses) : s.status \in reported
  OBVIOUS
<1> QED BY <1>1, <1>2

(* The worker writes SUCCEEDED only over releases that are there.          *)
LEMMA SucceededIsTrue ==
  ASSUME TypeInv, HeldInv, AnswerInv, ReportInv, StoresWritten,
         stored'.status # stored.status, stored'.status.phase = "SUCCEEDED",
         NEW n \in DesiredNames(stored)
  PROVE  releases[n] # <<>>
<1>1. stored' = Written /\ helmApp = stored /\ helmApp \in App
  BY DEF StoresWritten, Writing, AllProcessed, HeldInv, FreshCopies, TypeInv, TypeOK
<1>2. pc # "addFinalizer"
  BY <1>1 DEF Written, App
<1>3. pc # "removeFinalizer"
  BY <1>1 DEF Written, NoApp, NilStatus
<1>4. stored'.status = NewStatus /\ pc \in {"updateStatus", "deleteComponents"}
  BY <1>1, <1>2, <1>3 DEF StoresWritten, Writing, AllProcessed, Written, App
<1>5. ~helmApp.deleting /\ \A s \in ToSet(componentStatuses) : s.status = "deployed"
  BY <1>4, SucceededPhase DEF NewStatus
<1>6. pc = "updateStatus"
  BY <1>4, <1>5 DEF HeldInv, PathFollowsCopy
<1>7. PICK k \in DOMAIN helmApp.spec.components : helmApp.spec.components[k].name = n
  BY <1>1 DEF DesiredNames, ToSet
<1>8. k \in DOMAIN componentStatuses /\ componentStatuses[k].name = n
  BY <1>6, <1>7, ListTypes DEF AnswerInv, SpecAnswered, Answers
<1>9. componentStatuses[k].status = "deployed"
  BY <1>5, <1>8 DEF ToSet
<1> QED BY <1>6, <1>8, <1>9 DEF ReportInv, ReportsAreTrue, InstalledNames

(* A status that says SUCCEEDED is never written while a component of the  *)
(* spec it answers has no release: for any specs, faults, crashes, stale   *)
(* reads, and whatever the user does to the object in the meantime.        *)
THEOREM SuccessIsInstalled == Spec => SucceededMeansInstalled
<1>1. TypeInv /\ HeldInv /\ AnswerInv /\ ReportInv /\ [Next]_vars
        => [stored'.status # stored.status /\ stored'.status.phase = "SUCCEEDED"
              => \A n \in DesiredNames(stored) : releases[n] # <<>>]_vars
  <2> SUFFICES ASSUME TypeInv, HeldInv, AnswerInv, ReportInv, [Next]_vars,
                      stored'.status # stored.status, stored'.status.phase = "SUCCEEDED",
                      NEW n \in DesiredNames(stored)
               PROVE  releases[n] # <<>>
    OBVIOUS
  <2>1. CASE UNCHANGED stored
    BY <2>1
  <2>2. CASE User
    <3>1. stored'.status = stored.status \/ stored'.status = NilStatus
      <4>1. stored \in App /\ NoApp.status = NilStatus
        BY DEF TypeInv, TypeOK, NoApp
      <4>2. CASE UserCreates
        BY <4>1, <4>2 DEF UserCreates, UserWrites, NoApp
      <4>3. CASE UserUpdates
        BY <4>1, <4>3 DEF UserUpdates, UserWrites, App
      <4>4. CASE UserDeletes
        BY <4>1, <4>4 DEF UserDeletes, UserWrites, App
      <4> QED BY <2>2, <4>2, <4>3, <4>4 DEF User
    <3> QED BY <3>1 DEF NilStatus
  <2>3. CASE StoresWritten
    BY <2>3, SucceededIsTrue
  <2> QED BY <2>1, <2>2, <2>3, StoringSteps
<1> QED BY <1>1, TypeInvInit, TypeInvStep, HeldInvInit, HeldInvStep, WakeInvInit, AnswerInvStep,
           ReportInvInit, ReportInvStep, PTL DEF Spec, SucceededMeansInstalled

-----------------------------------------------------------------------------
(* Revisions.  A spec is pinned when the chart served for each version it  *)
(* asks for carries that version, when each component has values of its    *)
(* own, and when no two components share a release.                        *)
IsPinned(component) ==
  Resolve[component.version] \in {component.version, NoChart} /\ component.values # EmptyValues

SpecsArePinned ==
  \A spec \in Specs :
    /\ \A k \in DOMAIN spec.components : IsPinned(spec.components[k])
    /\ \A j, k \in DOMAIN spec.components :
         spec.components[j].name = spec.components[k].name => j = k

(* The release n with the history h does not carry what the spec asks for. *)
Due(h, n, spec) ==
  \E k \in DOMAIN spec.components :
    /\ spec.components[k].name = n
    /\ h = <<>> \/ HasConfigChanged(Last(h), spec.components[k])

(* Whether a copy of the object asks for another revision, and whether     *)
(* another copy may ask for one because it has another spec.               *)
Behind(h, n, app) == IF app.present /\ Due(h, n, app.spec) THEN 1 ELSE 0
Apart(a, b) == IF b.present /\ (~a.present \/ a.spec # b.spec) THEN 1 ELSE 0

(* What the edits so far can still add to the history of a release: once   *)
(* for the copy the worker has or will take, and once for each copy on the *)
(* way from there to the API server that differs from the one before.      *)
ToCome(n) ==
  IF pc = "idle" THEN Behind(releases[n], n, cached)
  ELSE Behind(releases[n], n, helmApp) + Apart(helmApp, cached)

EveryRevisionIsAnEdit ==
  \A n \in Names : Len(releases[n]) + ToCome(n) + Apart(cached, stored) <= edits

SpecsAreSubmitted ==
  /\ stored.spec \in Specs \cup {NilSpec}
  /\ cached.spec \in Specs \cup {NilSpec}
  /\ helmApp.spec \in Specs \cup {NilSpec}

RevisionInv == EveryRevisionIsAnEdit /\ SpecsAreSubmitted

-----------------------------------------------------------------------------
(* The two measures and the divergence between copies.                     *)

LEMMA BehindIsBit ==
  ASSUME NEW h, NEW n, NEW app
  PROVE  Behind(h, n, app) \in 0..1
BY DEF Behind

LEMMA ApartIsBit ==
  ASSUME NEW a, NEW b
  PROVE  Apart(a, b) \in 0..1
BY DEF Apart

LEMMA BehindApart ==
  ASSUME NEW h, NEW n, NEW a, NEW b
  PROVE  Behind(h, n, b) <= Behind(h, n, a) + Apart(a, b)
BY DEF Behind, Apart

LEMMA ApartApart ==
  ASSUME NEW a, NEW b, NEW c
  PROVE  Apart(a, c) <= Apart(a, b) + Apart(b, c)
BY DEF Apart

(* Only the presence and the spec of a copy count.                         *)
SameSpec(a, b) == a.present = b.present /\ a.spec = b.spec

LEMMA SameSpecSameMeasure ==
  ASSUME NEW a, NEW b, SameSpec(a, b)
  PROVE  /\ \A h, n : Behind(h, n, a) = Behind(h, n, b)
         /\ \A c : Apart(a, c) = Apart(b, c) /\ Apart(c, a) = Apart(c, b)
BY DEF SameSpec, Behind, Apart

LEMMA ApartFromItself ==
  ASSUME NEW a
  PROVE  Apart(a, a) = 0 /\ Apart(a, NoApp) = 0
BY DEF Apart, NoApp

LEMMA HistoryLength ==
  ASSUME TypeInv, NEW n \in Names
  PROVE  Len(releases[n]) \in Nat /\ edits \in Nat /\ edits <= MaxEdits
BY HistoryIsHistory, LenProperties, ControllerAssumption DEF TypeInv, TypeOK

(* The history of n, read as a sum for each place the worker can be at.    *)
LEMMA RevisionBudget ==
  ASSUME TypeInv, EveryRevisionIsAnEdit, NEW n \in Names
  PROVE  /\ pc = "idle" =>
              Len(releases[n]) + Behind(releases[n], n, cached) + Apart(cached, stored) <= edits
         /\ pc # "idle" =>
              Len(releases[n]) + Behind(releases[n], n, helmApp) + Apart(helmApp, cached)
                + Apart(cached, stored) <= edits
         /\ Len(releases[n]) <= edits
<1>1. /\ Behind(releases[n], n, cached) \in 0..1 /\ Behind(releases[n], n, helmApp) \in 0..1
      /\ Apart(helmApp, cached) \in 0..1 /\ Apart(cached, stored) \in 0..1
  BY BehindIsBit, ApartIsBit
<1>2. Len(releases[n]) + ToCome(n) + Apart(cached, stored) <= edits
  BY DEF EveryRevisionIsAnEdit
<1> QED BY <1>1, <1>2, HistoryLength DEF ToCome

-----------------------------------------------------------------------------
(* Steps that leave the releases alone move the copies closer together, or *)
(* are edits.                                                              *)

LEMMA QuietKeepsBudget ==
  ASSUME TypeInv, EveryRevisionIsAnEdit, UNCHANGED <<releases, edits, cached>>,
         Apart(cached, stored') <= Apart(cached, stored),
         \/ pc = "idle" /\ pc' = "idle"
         \/ pc = "idle" /\ helmApp' = cached
         \/ pc # "idle" /\ (pc' = "idle" \/ SameSpec(helmApp', helmApp))
  PROVE  EveryRevisionIsAnEdit'
<1> SUFFICES ASSUME NEW n \in Names
             PROVE  (Len(releases[n]) + ToCome(n) + Apart(cached, stored) <= edits)'
  BY DEF EveryRevisionIsAnEdit
<1> DEFINE h == releases[n]
<1>1. /\ Len(h) \in Nat /\ edits \in Nat
      /\ Behind(h, n, cached) \in 0..1 /\ Behind(h, n, helmApp) \in 0..1
      /\ Apart(helmApp, cached) \in 0..1 /\ Apart(cached, stored) \in 0..1
      /\ Apart(cached, stored') \in 0..1
  BY HistoryLength, BehindIsBit, ApartIsBit
<1>2. UNCHANGED <<h, edits, cached>>
  OBVIOUS
<1>3. CASE pc' = "idle"
  <2>1. ToCome(n)' = Behind(h, n, cached)
    BY <1>2, <1>3 DEF ToCome
  <2>2. Behind(h, n, cached) <= Behind(h, n, helmApp) + Apart(helmApp, cached)
    BY BehindApart
  <2>3. Len(h) + Behind(h, n, cached) + Apart(cached, stored) <= edits
    BY <1>1, <2>2, RevisionBudget
  <2> QED BY <1>1, <1>2, <2>1, <2>3
<1>4. CASE pc = "idle" /\ pc' # "idle" /\ helmApp' = cached
  <2>1. ToCome(n)' = Behind(h, n, cached) + Apart(cached, cached)
    BY <1>2, <1>4 DEF ToCome
  <2>2. Apart(cached, cached) = 0
    BY ApartFromItself
  <2> QED BY <1>1, <1>2, <1>4, <2>1, <2>2, RevisionBudget
<1>5. CASE pc # "idle" /\ pc' # "idle" /\ SameSpec(helmApp', helmApp)
  <2>1. ToCome(n)' = Behind(h, n, helmApp') + Apart(helmApp', cached)
    BY <1>2, <1>5 DEF ToCome
  <2>2. ToCome(n)' = Behind(h, n, helmApp) + Apart(helmApp, cached)
    BY <1>5, <2>1, SameSpecSameMeasure
  <2> QED BY <1>1, <1>2, <1>5, <2>2, RevisionBudget
<1> QED BY <1>3, <1>4, <1>5

LEMMA UserKeepsBudget ==
  ASSUME TypeInv, EveryRevisionIsAnEdit, User
  PROVE  EveryRevisionIsAnEdit'
<1>1. edits' = edits + 1 /\ UNCHANGED <<releases, cached, pc, helmApp>>
  BY DEF User, UserCreates, UserUpdates, UserDeletes, UserWrites
<1> SUFFICES ASSUME NEW n \in Names
             PROVE  (Len(releases[n]) + ToCome(n) + Apart(cached, stored) <= edits)'
  BY DEF EveryRevisionIsAnEdit
<1>2. ToCome(n)' = ToCome(n)
  BY <1>1 DEF ToCome
<1>3. /\ Apart(cached, stored) \in 0..1 /\ Apart(cached, stored') \in 0..1
      /\ Behind(releases[n], n, cached) \in 0..1 /\ Behind(releases[n], n, helmApp) \in 0..1
      /\ Apart(helmApp, cached) \in 0..1
  BY BehindIsBit, ApartIsBit
<1>4. ToCome(n) \in Int
  BY <1>3 DEF ToCome
<1>5. Len(releases[n]) + ToCome(n) + Apart(cached, stored) <= edits
  BY DEF EveryRevisionIsAnEdit
<1> QED BY <1>1, <1>2, <1>3, <1>4, <1>5, HistoryLength

(* The informer's copy becomes the stored one.                             *)
LEMMA DeliveryKeepsBudget ==
  ASSUME TypeInv, EveryRevisionIsAnEdit, Deliver \/ Crash
  PROVE  EveryRevisionIsAnEdit'
<1>1. /\ cached' = stored /\ UNCHANGED <<stored, releases, edits>>
      /\ pc' = "idle" \/ UNCHANGED <<pc, helmApp>>
  BY DEF Deliver, Crash, Leaves, local
<1> SUFFICES ASSUME NEW n \in Names
             PROVE  (Len(releases[n]) + ToCome(n) + Apart(cached, stored) <= edits)'
  BY DEF EveryRevisionIsAnEdit
<1> DEFINE h == releases[n]
<1>2. /\ Len(h) \in Nat /\ edits \in Nat
      /\ Behind(h, n, cached) \in 0..1 /\ Behind(h, n, helmApp) \in 0..1
      /\ Behind(h, n, stored) \in 0..1 /\ Apart(helmApp, stored) \in 0..1
      /\ Apart(helmApp, cached) \in 0..1 /\ Apart(cached, stored) \in 0..1
  BY HistoryLength, BehindIsBit, ApartIsBit
<1>3. /\ Behind(h, n, stored) <= Behind(h, n, cached) + Apart(cached, stored)
      /\ Behind(h, n, cached) <= Behind(h, n, helmApp) + Apart(helmApp, cached)
      /\ Apart(helmApp, stored) <= Apart(helmApp, cached) + Apart(cached, stored)
  BY BehindApart, ApartApart
<1>4. Apart(cached, stored)' = 0 /\ h' = h
  BY <1>1, ApartFromItself
<1>5. CASE pc' = "idle"
  <2>1. ToCome(n)' = Behind(h, n, stored)
    BY <1>1, <1>5 DEF ToCome
  <2>2. Len(h) + Behind(h, n, stored) <= edits
    BY <1>2, <1>3, RevisionBudget
  <2> QED BY <1>1, <1>2, <1>4, <2>1, <2>2
<1>6. CASE pc' # "idle"
  <2>1. ToCome(n)' = Behind(h, n, helmApp) + Apart(helmApp, stored)
    BY <1>1, <1>6 DEF ToCome
  <2>2. Len(h) + Behind(h, n, helmApp) + Apart(helmApp, stored) <= edits
    BY <1>1, <1>2, <1>3, <1>6, RevisionBudget
  <2> QED BY <1>1, <1>2, <1>4, <2>1, <2>2
<1> QED BY <1>5, <1>6

(* A write of the worker stores the spec it has read, or nothing.          *)
LEMMA WrittenKeepsSpec ==
  ASSUME TypeInv, HeldInv, StoresWritten
  PROVE  SameSpec(stored', stored) \/ stored' = NoApp
<1>1. helmApp \in App /\ helmApp = stored /\ stored' = Written
  BY DEF TypeInv, TypeOK, StoresWritten, Writing, AllProcessed, HeldInv, FreshCopies
<1> QED BY <1>1 DEF Written, SameSpec, App

LEMMA OtherKeepsBudget ==
  ASSUME TypeInv, HeldInv, EveryRevisionIsAnEdit,
         \/ UNCHANGED vars \/ Resync \/ DelayExpires
         \/ GetFindsNothing \/ GetFindsApp \/ AddsFinalizer \/ HelmInitFails \/ SpecMissing
         \/ StartsComponents \/ StartsDeletion
         \/ WritesStatus \/ DeletePanics \/ WritesDeleteStatus \/ RemovesFinalizer \/ WriteFails
  PROVE  EveryRevisionIsAnEdit'
<1>1. UNCHANGED stored \/ StoresWritten
  BY WorkerStores DEF Reconcile, vars, Resync, DelayExpires, server
<1>2. Apart(cached, stored') <= Apart(cached, stored)
  <2>1. Apart(cached, stored) \in 0..1
    BY ApartIsBit
  <2> QED BY <1>1, <2>1, WrittenKeepsSpec, SameSpecSameMeasure, ApartFromItself
<1>3. UNCHANGED <<releases, edits, cached>>
  BY DEF vars, Resync, DelayExpires, GetFindsNothing, GetFindsApp, Dequeue, AddsFinalizer,
         HelmInitFails, SpecMissing, StartsComponents, StartsDeletion, WritesStatus, DeletePanics,
         WritesDeleteStatus, RemovesFinalizer, WriteFails, Stores, server
<1>4. \/ pc = "idle" /\ pc' = "idle"
      \/ pc = "idle" /\ helmApp' = cached
      \/ pc # "idle" /\ (pc' = "idle" \/ SameSpec(helmApp', helmApp))
  <2>1. CASE UNCHANGED vars \/ Resync \/ DelayExpires
    BY <2>1 DEF vars, Resync, DelayExpires, local, SameSpec
  <2>2. CASE GetFindsNothing \/ GetFindsApp
    BY <2>2 DEF GetFindsNothing, GetFindsApp, Dequeue
  <2>3. CASE StartsComponents \/ StartsDeletion
    BY <2>3 DEF StartsComponents, StartsDeletion, SameSpec
  <2>4. CASE HelmInitFails \/ SpecMissing \/ WritesStatus \/ DeletePanics \/ RemovesFinalizer
               \/ WriteFails
    BY <2>4 DEF HelmInitFails, SpecMissing, WritesStatus, DeletePanics, RemovesFinalizer,
                WriteFails, Writing, AllProcessed, Errs, Returns, Leaves
  <2>5. CASE AddsFinalizer
    BY <2>5 DEF AddsFinalizer, SameSpec, TypeInv, TypeOK, App
  <2>6. CASE WritesDeleteStatus
    <3>1. pc # "idle" /\ helmApp \in App
      BY <2>6 DEF WritesDeleteStatus, AllProcessed, TypeInv, TypeOK
    <3>2. pc' = "idle" \/ helmApp' = [helmApp EXCEPT !.status = NewStatus]
      BY <2>6 DEF WritesDeleteStatus, Returns, Leaves
    <3> QED BY <3>1, <3>2 DEF SameSpec, App
  <2> QED BY <2>1, <2>2, <2>3, <2>4, <2>5, <2>6
<1> QED BY <1>2, <1>3, <1>4, QuietKeepsBudget

-----------------------------------------------------------------------------
(* Steps that touch a release.  The worker's copy pays for each revision.  *)

Paid(n) ==
  Len(releases'[n]) + Behind(releases'[n], n, helmApp)
    <= Len(releases[n]) + Behind(releases[n], n, helmApp)

(* Two histories that differ only in their statuses.                       *)
SameData(g, h) ==
  /\ Len(g) = Len(h)
  /\ \A k \in 1..Len(h) : g[k].version = h[k].version /\ g[k].config = h[k].config

LEMMA WithStatusSameData ==
  ASSUME NEW h \in Seq(Revision), NEW k, NEW status \in ReleaseStatus
  PROVE  WithStatus(h, k, status) \in Seq(Revision) /\ SameData(WithStatus(h, k, status), h)
BY WithStatusIsHistory, WithStatusKeepsData, LenProperties DEF SameData

LEMMA SameDataTwice ==
  ASSUME NEW f \in Seq(Revision), NEW g \in Seq(Revision), NEW h \in Seq(Revision),
         SameData(f, g), SameData(g, h)
  PROVE  SameData(f, h)
BY DEF SameData

LEMMA LastOfHistory ==
  ASSUME NEW h \in Seq(Revision), h # <<>>
  PROVE  Last(h) = h[Len(h)] /\ Len(h) \in 1..Len(h)
<1>1. Len(h) \in Nat /\ Len(h) # 0
  BY EmptySeq, LenProperties
<1> QED BY <1>1 DEF Last

LEMMA SameDataSameMeasure ==
  ASSUME NEW g \in Seq(Revision), NEW h \in Seq(Revision), SameData(g, h), NEW n, NEW app
  PROVE  Behind(g, n, app) = Behind(h, n, app)
<1>1. g = <<>> <=> h = <<>>
  BY EmptySeq DEF SameData
<1>2. h # <<>> => Last(g).version = Last(h).version /\ Last(g).config = Last(h).config
  BY <1>1, LastOfHistory DEF SameData
<1>3. \A spec : Due(g, n, spec) <=> Due(h, n, spec)
  BY <1>1, <1>2 DEF Due, HasConfigChanged
<1> QED BY <1>3 DEF Behind

(* Only the history of m changes.                                          *)
LEMMA OneReleasePays ==
  ASSUME TypeInv, NEW m \in Names, NEW g, releases' = [releases EXCEPT ![m] = g],
         Len(g) + Behind(g, m, helmApp) <= Len(releases[m]) + Behind(releases[m], m, helmApp)
  PROVE  \A n \in Names : Paid(n)
<1>1. \A n \in Names : releases'[n] = IF n = m THEN g ELSE releases[n]
  BY DEF TypeInv, TypeOK
<1>2. ASSUME NEW n \in Names, n # m PROVE Paid(n)
  <2>1. Len(releases[n]) + Behind(releases[n], n, helmApp) \in Int
    BY HistoryLength, BehindIsBit
  <2> QED BY <1>1, <1>2, <2>1 DEF Paid
<1> QED BY <1>1, <1>2 DEF Paid

LEMMA SameDataPays ==
  ASSUME TypeInv, NEW m \in Names, NEW g \in Seq(Revision),
         releases' = [releases EXCEPT ![m] = g], SameData(g, releases[m])
  PROVE  \A n \in Names : Paid(n)
<1>1. Len(g) = Len(releases[m]) /\ Behind(g, m, helmApp) = Behind(releases[m], m, helmApp)
  BY HistoryIsHistory, SameDataSameMeasure DEF SameData
<1>2. Len(releases[m]) \in Nat /\ Behind(releases[m], m, helmApp) \in 0..1
  BY HistoryLength, BehindIsBit
<1>3. Len(g) + Behind(g, m, helmApp) <= Len(releases[m]) + Behind(releases[m], m, helmApp)
  BY <1>1, <1>2
<1> QED BY <1>3, OneReleasePays

LEMMA UninstallPays ==
  ASSUME TypeInv, Uninstall
  PROVE  \A n \in Names : Paid(n)
<1>1. ASSUME UNCHANGED releases PROVE \A n \in Names : Paid(n)
  <2>1. \A n \in Names : Len(releases[n]) + Behind(releases[n], n, helmApp) \in Int
    BY HistoryLength, BehindIsBit
  <2> QED BY <1>1, <2>1 DEF Paid
<1>2. ToUninstall => Existing.name \in Names
  BY ExistingIsStatus DEF ToUninstall, ComponentStatus
<1>3. ASSUME ToUninstall, releases' = [releases EXCEPT ![Existing.name] = <<>>]
      PROVE  \A n \in Names : Paid(n)
  <2> DEFINE m == Existing.name
  <2>1. m \in Names /\ releases[m] \in Seq(Revision)
    BY <1>2, <1>3, HistoryIsHistory
  <2>2. CASE releases[m] = <<>>
    BY <1>1, <1>3, <2>1, <2>2 DEF TypeInv, TypeOK
  <2>3. CASE releases[m] # <<>>
    <3>1. Len(releases[m]) \in Nat /\ Len(releases[m]) # 0
      BY <2>1, <2>3, EmptySeq, LenProperties
    <3>2. Len(<<>>) = 0 /\ Behind(<<>>, m, helmApp) \in 0..1
          /\ Behind(releases[m], m, helmApp) \in 0..1
      BY BehindIsBit
    <3>3. Len(<<>>) + Behind(<<>>, m, helmApp)
            <= Len(releases[m]) + Behind(releases[m], m, helmApp)
      BY <3>1, <3>2
    <3> QED BY <1>3, <2>1, <3>3, OneReleasePays
  <2> QED BY <2>2, <2>3
<1>4. CASE UninstallStarts
  <2> DEFINE h == releases[Existing.name]
  <2>1. /\ Existing.name \in Names /\ "uninstalling" \in ReleaseStatus
        /\ releases' = [releases EXCEPT ![Existing.name] = WithStatus(h, Len(h), "uninstalling")]
    BY <1>2, <1>4 DEF UninstallStarts, ReleaseStatus
  <2>2. h \in Seq(Revision)
    BY <2>1, HistoryIsHistory
  <2> QED BY <2>1, <2>2, WithStatusSameData, SameDataPays
<1> QED BY <1>1, <1>3, <1>4
        DEF Uninstall, NothingToUninstall, FindsNoRelease, LeftoversDone, Uninstalled,
            UninstallFails

(* A revision made from a pinned component is what the spec asks for.      *)
LEMMA NewRevisionIsNotDue ==
  ASSUME TypeInv, SpecsArePinned, SpecsAreSubmitted,
         idx \in DOMAIN helmApp.spec.components, ChartLoaded,
         NEW g, g # <<>>, NEW status,
         Last(g) = NewRevision(Resolve[Current.version], Current.values, status)
  PROVE  Behind(g, Current.name, helmApp) = 0
<1>1. helmApp.spec \in Specs
  BY DEF SpecsAreSubmitted, NilSpec
<1>2. IsPinned(Current) /\ Resolve[Current.version] # NoChart
  BY <1>1 DEF SpecsArePinned, Current, ChartLoaded
<1>3. ~HasConfigChanged(Last(g), Current)
  BY <1>2 DEF IsPinned, HasConfigChanged, NewRevision
<1>4. \A k \in DOMAIN helmApp.spec.components :
        helmApp.spec.components[k].name = Current.name => helmApp.spec.components[k] = Current
  BY <1>1 DEF SpecsArePinned, Current
<1>5. ~Due(g, Current.name, helmApp.spec)
  BY <1>3, <1>4 DEF Due
<1> QED BY <1>5 DEF Behind

LEMMA CurrentHasValues ==
  ASSUME SpecsArePinned, SpecsAreSubmitted, idx \in DOMAIN helmApp.spec.components
  PROVE  Current.values # EmptyValues
<1>1. helmApp.spec \in Specs
  BY DEF SpecsAreSubmitted, NilSpec
<1> QED BY <1>1 DEF SpecsArePinned, IsPinned, Current

LEMMA ComponentPays ==
  ASSUME TypeInv, HeldInv, RevisionInv, SpecsArePinned, MaxEdits <= 9, ReconcileComponent
  PROVE  \A n \in Names : Paid(n)
<1>1. CASE UNCHANGED releases
  <2>1. \A n \in Names : Len(releases[n]) + Behind(releases[n], n, helmApp) \in Int
    BY HistoryLength, BehindIsBit
  <2> QED BY <1>1, <2>1 DEF Paid
<1>2. SpecsAreSubmitted /\ EveryRevisionIsAnEdit
  BY DEF RevisionInv
<1>3. ASSUME pc = "components" PROVE helmApp.present
  BY <1>3 DEF HeldInv, PathFollowsCopy
<1>4. CASE InstallStores
  <2> DEFINE m == Current.name
             new == NewRevision(Resolve[Current.version], Encode(Current.values),
                                "pending-install")
  <2>1. /\ pc = "components" /\ idx \in DOMAIN helmApp.spec.components /\ m \in Names
        /\ ChartLoaded /\ releases[m] = <<>>
        /\ releases' = [releases EXCEPT ![m] = <<new>>]
    BY <1>4 DEF InstallStores, MustInstall, ChartLoaded, AtComponent, History
  <2>2. new = NewRevision(Resolve[Current.version], Current.values, "pending-install")
    BY <1>2, <2>1, CurrentHasValues DEF Encode
  <2>3. new \in Revision
    BY <2>1, CurrentIsComponent, EncodeIsStored, NewRevisionIsRevision
       DEF TypeInv, ReleaseStatus, PendingStatus
  <2>4. <<new>> # <<>> /\ Last(<<new>>) = new /\ Len(<<new>>) = 1
    BY DEF Last
  <2> HIDE DEF new
  <2>5. Behind(<<new>>, m, helmApp) = 0
    BY <1>2, <2>1, <2>2, <2>4, NewRevisionIsNotDue
  <2>6. Behind(releases[m], m, helmApp) = 1
    <3>1. Due(<<>>, m, helmApp.spec)
      BY <2>1 DEF Due, Current
    <3> QED BY <1>3, <2>1, <3>1 DEF Behind
  <2>7. Len(releases[m]) = 0
    BY <2>1
  <2>8. Len(<<new>>) + Behind(<<new>>, m, helmApp)
          <= Len(releases[m]) + Behind(releases[m], m, helmApp)
    BY <2>4, <2>5, <2>6, <2>7
  <2> QED BY <2>1, <2>8, OneReleasePays
<1>5. CASE UpgradeStores
  <2> DEFINE m == Current.name
             new == NewRevision(Resolve[Current.version],
                                UpgradeConfig(History, Current.values), "pending-upgrade")
             g == Append(History, new)
  <2>1. /\ pc = "components" /\ idx \in DOMAIN helmApp.spec.components /\ m \in Names
        /\ ChartLoaded /\ History # <<>> /\ ~UpToDate /\ History = releases[m]
        /\ releases' = [releases EXCEPT ![m] = g]
    BY <1>5 DEF UpgradeStores, MustUpgrade, ReleaseExists, ChartLoaded, AtComponent, History
  <2>2. new = NewRevision(Resolve[Current.version], Current.values, "pending-upgrade")
    BY <1>2, <2>1, CurrentHasValues DEF UpgradeConfig
  <2>3. History \in Seq(Revision) /\ Len(History) \in Nat /\ Len(History) <= 9
    <3>1. History \in Seq(Revision)
      BY <2>1, HistoryIsHistory
    <3>2. Len(History) \in Nat /\ Len(History) <= edits /\ edits \in Nat /\ edits <= MaxEdits
      BY <1>2, <2>1, HistoryLength, RevisionBudget
    <3> QED BY <3>1, <3>2, ControllerAssumption
  <2> HIDE DEF new
  <2>4. Len(g) = Len(History) + 1 /\ g # <<>> /\ Last(g) = new
    <3>1. History \in Seq(Revision \cup {new})
      BY <2>3
    <3>2. g \in Seq(Revision \cup {new}) /\ Len(g) = Len(History) + 1
          /\ g[Len(History) + 1] = new
      BY <3>1, AppendProperties
    <3> QED BY <2>3, <3>2, EmptySeq DEF Last
  <2> HIDE DEF g
  <2>5. Behind(g, m, helmApp) = 0
    BY <1>2, <2>1, <2>2, <2>4, NewRevisionIsNotDue
  <2>6. Behind(releases[m], m, helmApp) = 1
    <3>1. HasConfigChanged(Last(History), Current)
      BY <2>1, <2>3, ListedLastIsLast, LastOfHistory DEF UpToDate
    <3>2. Due(releases[m], m, helmApp.spec)
      BY <2>1, <3>1 DEF Due, Current
    <3> QED BY <1>3, <2>1, <3>2 DEF Behind
  <2>7. Len(g) + Behind(g, m, helmApp) <= Len(releases[m]) + Behind(releases[m], m, helmApp)
    BY <2>1, <2>3, <2>4, <2>5, <2>6
  <2> QED BY <2>1, <2>7, OneReleasePays
<1>6. ASSUME NEW status \in ReleaseStatus, InstallEnds(status)
      PROVE  \A n \in Names : Paid(n)
  <2>1. /\ Current.name \in Names
        /\ releases' = [releases EXCEPT ![Current.name] = WithStatus(History, 1, status)]
    BY <1>6 DEF InstallEnds, TypeInv, AtHelmAction
  <2>2. History \in Seq(Revision) /\ History = releases[Current.name]
    BY <2>1, HistoryIsHistory DEF History
  <2> QED BY <2>1, <2>2, WithStatusSameData, SameDataPays
<1>7. ASSUME NEW status \in ReleaseStatus, UpgradeEnds(status)
      PROVE  \A n \in Names : Paid(n)
  <2> DEFINE replaced == UpgradeBase(Front(History))
             h == IF status = "failed" THEN History ELSE WithStatus(History, replaced, "superseded")
             g == WithStatus(h, Len(h), status)
  <2>1. /\ Current.name \in Names /\ "superseded" \in ReleaseStatus
        /\ releases' = [releases EXCEPT ![Current.name] = g]
    BY <1>7 DEF UpgradeEnds, TypeInv, AtHelmAction, ReleaseStatus
  <2>2. History \in Seq(Revision) /\ History = releases[Current.name]
    BY <2>1, HistoryIsHistory DEF History
  <2>3. h \in Seq(Revision) /\ SameData(h, History)
    <3>1. SameData(History, History)
      BY DEF SameData
    <3> QED BY <2>1, <2>2, <3>1, WithStatusSameData
  <2> HIDE DEF h
  <2>4. g \in Seq(Revision) /\ SameData(g, h)
    BY <2>3, WithStatusSameData
  <2> HIDE DEF g
  <2>5. SameData(g, releases[Current.name])
    BY <2>2, <2>3, <2>4, SameDataTwice
  <2> QED BY <2>1, <2>4, <2>5, SameDataPays
<1>8. {"deployed", "failed", "pending-install", "pending-upgrade"} \subseteq ReleaseStatus
  BY DEF ReleaseStatus, PendingStatus
<1>9. CASE InstallSucceeds \/ InstallFails \/ InstallUnrecorded
  BY <1>6, <1>8, <1>9 DEF InstallSucceeds, InstallFails, InstallUnrecorded
<1>10. CASE UpgradeSucceeds \/ UpgradeFails \/ UpgradeUnrecorded
  BY <1>7, <1>8, <1>10 DEF UpgradeSucceeds, UpgradeFails, UpgradeUnrecorded
<1> QED BY <1>1, <1>4, <1>5, <1>9, <1>10
        DEF ReconcileComponent, RepoMissing, ChartUnavailable, HistoryFails, InstallRejected,
            SkipsUnchanged, UpgradeRejected, ComponentsDone

LEMMA WorkKeepsBudget ==
  ASSUME TypeInv, HeldInv, RevisionInv, SpecsArePinned, MaxEdits <= 9,
         ReconcileComponent \/ Uninstall
  PROVE  EveryRevisionIsAnEdit'
<1>1. TypeInv' /\ \A n \in Names : Paid(n)
  BY ComponentPays, UninstallPays, TypeInvStep DEF Next, Reconcile
<1>2. edits' = edits
  BY DEF ReconcileComponent, RepoMissing, ChartUnavailable, HistoryFails, InstallRejected,
         InstallStores, InstallSucceeds, InstallFails, InstallUnrecorded, SkipsUnchanged,
         UpgradeRejected, UpgradeStores, UpgradeSucceeds, UpgradeFails, UpgradeUnrecorded,
         ComponentsDone, Uninstall, NothingToUninstall, FindsNoRelease, UninstallStarts,
         Uninstalled, UninstallFails, LeftoversDone, Reports, Stays, Clears
<1>3. /\ UNCHANGED <<stored, cached>>
      /\ pc # "idle" /\ (pc' = "idle" \/ UNCHANGED helmApp)
  <2>1. pc # "idle"
    BY DEF ReconcileComponent, RepoMissing, ChartUnavailable, HistoryFails, InstallRejected,
           InstallStores, InstallSucceeds, InstallFails, InstallUnrecorded, InstallEnds,
           SkipsUnchanged, UpgradeRejected, UpgradeStores, UpgradeSucceeds, UpgradeFails,
           UpgradeUnrecorded, UpgradeEnds, ComponentsDone, MustInstall, MustUpgrade,
           ReleaseExists, ChartLoaded, AtComponent, Uninstall, NothingToUninstall,
           FindsNoRelease, UninstallStarts, Uninstalled, UninstallFails, LeftoversDone,
           ToUninstall, AtStatus
  <2> QED BY <2>1, ComponentWritesNothing, UninstallWritesNothing DEF WritesNothing, server
<1> SUFFICES ASSUME NEW n \in Names
             PROVE  (Len(releases[n]) + ToCome(n) + Apart(cached, stored) <= edits)'
  BY DEF EveryRevisionIsAnEdit
<1> DEFINE h == releases'[n]
<1>4. /\ Len(h) \in Nat /\ Len(releases[n]) \in Nat /\ edits \in Nat
      /\ Behind(releases[n], n, helmApp) \in 0..1
      /\ Behind(h, n, cached) \in 0..1 /\ Behind(h, n, helmApp) \in 0..1
      /\ Apart(helmApp, cached) \in 0..1 /\ Apart(cached, stored) \in 0..1
  <2>1. Len(releases[n])' \in Nat
    BY <1>1, LenProperties DEF TypeInv, TypeOK
  <2> QED BY <2>1, HistoryLength, BehindIsBit, ApartIsBit
<1>5. Len(h) + Behind(h, n, helmApp) + Apart(helmApp, cached) + Apart(cached, stored) <= edits
  <2>1. Len(h) + Behind(h, n, helmApp) <= Len(releases[n]) + Behind(releases[n], n, helmApp)
    BY <1>1 DEF Paid
  <2>2. Len(releases[n]) + Behind(releases[n], n, helmApp) + Apart(helmApp, cached)
          + Apart(cached, stored) <= edits
    BY <1>3, RevisionBudget DEF RevisionInv
  <2> DEFINE before == Len(releases[n])
             owed   == Behind(releases[n], n, helmApp)
             owes   == Behind(h, n, helmApp)
             way    == Apart(helmApp, cached)
             rest   == Apart(cached, stored)
             after  == Len(h)
  <2>3. /\ before \in Nat /\ after \in Nat /\ edits \in Nat
        /\ owed \in 0..1 /\ owes \in 0..1 /\ way \in 0..1 /\ rest \in 0..1
    BY <1>4
  <2>4. after + owes <= before + owed /\ before + owed + way + rest <= edits
    BY <2>1, <2>2
  <2> HIDE DEF before, owed, owes, way, rest, after
  <2>5. after + owes + way + rest <= edits
    BY <2>3, <2>4
  <2> QED BY <2>5 DEF after, owes, way, rest
<1>6. CASE pc' = "idle"
  <2>1. ToCome(n)' = Behind(h, n, cached)
    BY <1>3, <1>6 DEF ToCome
  <2>2. Behind(h, n, cached) <= Behind(h, n, helmApp) + Apart(helmApp, cached)
    BY BehindApart
  <2>3. Len(h) + Behind(h, n, cached) + Apart(cached, stored) <= edits
    BY <1>4, <1>5, <2>2
  <2> QED BY <1>2, <1>3, <2>1, <2>3
<1>7. CASE pc' # "idle"
  <2>1. ToCome(n)' = Behind(h, n, helmApp) + Apart(helmApp, cached)
    BY <1>3, <1>7 DEF ToCome
  <2> QED BY <1>2, <1>3, <1>4, <1>5, <2>1
<1> QED BY <1>6, <1>7

-----------------------------------------------------------------------------
(* Every copy of the object has a spec that a user submitted.              *)
LEMMA SubmittedStep ==
  ASSUME TypeInv, HeldInv, SpecsAreSubmitted, [Next]_vars
  PROVE  SpecsAreSubmitted'
<1>1. stored'.spec \in Specs \cup {NilSpec}
  <2>1. CASE UNCHANGED stored
    BY <2>1 DEF SpecsAreSubmitted
  <2>2. CASE StoresWritten
    BY <2>2, WrittenKeepsSpec DEF SpecsAreSubmitted, SameSpec, NoApp
  <2>3. CASE UserCreates
    BY <2>3 DEF UserCreates, UserWrites, NoApp
  <2>4. CASE UserUpdates
    BY <2>4 DEF UserUpdates, UserWrites, TypeInv, TypeOK, App
  <2>5. CASE UserDeletes
    BY <2>5 DEF UserDeletes, UserWrites, TypeInv, TypeOK, App, SpecsAreSubmitted, NoApp
  <2> QED BY <2>1, <2>2, <2>3, <2>4, <2>5, StoringSteps DEF User
<1>2. cached' \in {cached, stored}
  <2>1. CASE ReconcileComponent \/ Uninstall
    BY <2>1, ComponentWritesNothing, UninstallWritesNothing DEF WritesNothing, server
  <2>2. CASE Reconcile
    BY <2>1, <2>2
       DEF Reconcile, GetFindsNothing, GetFindsApp, Dequeue, AddsFinalizer, HelmInitFails,
           SpecMissing, StartsComponents, StartsDeletion, WritesStatus, DeletePanics,
           WritesDeleteStatus, RemovesFinalizer, WriteFails, Stores, server
  <2> QED BY <2>2
          DEF Next, vars, User, UserCreates, UserUpdates, UserDeletes, UserWrites, Deliver,
              Resync, DelayExpires, Crash, server
<1>3. helmApp'.spec \in {helmApp.spec, cached.spec, NilSpec}
  <2>1. Leaves => helmApp' = NoApp
    BY DEF Leaves
  <2>2. CASE ReconcileComponent
    BY <2>1, <2>2
       DEF ReconcileComponent, RepoMissing, ChartUnavailable, HistoryFails, InstallRejected,
           InstallStores, InstallSucceeds, InstallFails, InstallUnrecorded, SkipsUnchanged,
           UpgradeRejected, UpgradeStores, UpgradeSucceeds, UpgradeFails, UpgradeUnrecorded,
           ComponentsDone, Reports, Stays, Errs, NoApp
  <2>3. CASE Uninstall
    BY <2>3 DEF Uninstall, NothingToUninstall, FindsNoRelease, UninstallStarts, Uninstalled,
                UninstallFails, LeftoversDone, Stays, Clears
  <2>4. CASE AddsFinalizer \/ WritesDeleteStatus
    BY <2>1, <2>4 DEF AddsFinalizer, WritesDeleteStatus, Returns, NoApp, TypeInv, TypeOK, App
  <2>5. CASE GetFindsNothing \/ GetFindsApp \/ HelmInitFails \/ SpecMissing \/ StartsComponents
               \/ StartsDeletion \/ WritesStatus \/ DeletePanics \/ RemovesFinalizer
               \/ WriteFails \/ Crash
    BY <2>1, <2>5
       DEF GetFindsNothing, GetFindsApp, Dequeue, HelmInitFails, SpecMissing, StartsComponents,
           StartsDeletion, WritesStatus, DeletePanics, RemovesFinalizer, WriteFails, Crash,
           Returns, Errs, NoApp
  <2> QED BY <2>2, <2>3, <2>4, <2>5
          DEF Next, Reconcile, vars, User, UserCreates, UserUpdates, UserDeletes, UserWrites,
              Deliver, Resync, DelayExpires, local
<1> QED BY <1>1, <1>2, <1>3 DEF SpecsAreSubmitted

LEMMA RevisionInvStep ==
  ASSUME SpecsArePinned, MaxEdits <= 9
  PROVE  TypeInv /\ HeldInv /\ RevisionInv /\ [Next]_vars => RevisionInv'
<1> SUFFICES ASSUME TypeInv, HeldInv, RevisionInv, [Next]_vars PROVE RevisionInv'
  OBVIOUS
<1>1. SpecsAreSubmitted' /\ EveryRevisionIsAnEdit
  BY SubmittedStep DEF RevisionInv
<1>2. CASE User
  BY <1>1, <1>2, UserKeepsBudget DEF RevisionInv
<1>3. CASE Deliver \/ Crash
  BY <1>1, <1>3, DeliveryKeepsBudget DEF RevisionInv
<1>4. CASE ReconcileComponent \/ Uninstall
  BY <1>1, <1>4, WorkKeepsBudget DEF RevisionInv
<1>5. CASE ~(User \/ Deliver \/ Crash \/ ReconcileComponent \/ Uninstall)
  BY <1>1, <1>5, OtherKeepsBudget DEF RevisionInv, Next, Reconcile
<1> QED BY <1>2, <1>3, <1>4, <1>5

LEMMA RevisionInvInit == Init => RevisionInv
<1> SUFFICES ASSUME Init PROVE RevisionInv
  OBVIOUS
<1>1. \A n \in Names : releases[n] = <<>> /\ Len(<<>>) = 0
  BY DEF Init
<1>2. \A n \in Names : ToCome(n) = 0 /\ Apart(cached, stored) = 0
  BY DEF Init, ToCome, Behind, Apart, NoApp
<1>3. EveryRevisionIsAnEdit
  BY <1>1, <1>2 DEF EveryRevisionIsAnEdit, Init
<1> QED BY <1>3 DEF Init, RevisionInv, SpecsAreSubmitted, NoApp

(* A release gains at most one revision per user edit, through any number  *)
(* of retries, crashes, lost answers and stale reads, if the specs are     *)
(* pinned and there are at most nine edits: the tenth revision would be    *)
(* the first that reconcileComponent does not compare with.                *)
THEOREM EveryRevisionIsAsked ==
  ASSUME SpecsArePinned, MaxEdits <= 9
  PROVE  Spec => []RevisionsBoundedByEdits
<1>1. TypeInv /\ RevisionInv => RevisionsBoundedByEdits
  BY RevisionBudget DEF RevisionInv, RevisionsBoundedByEdits
<1> QED BY <1>1, TypeInvInit, TypeInvStep, HeldInvInit, HeldInvStep, RevisionInvInit,
           RevisionInvStep, PTL DEF Spec
=============================================================================
