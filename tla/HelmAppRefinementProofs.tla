----------------------- MODULE HelmAppRefinementProofs -----------------------
(***************************************************************************)
(* The HelmApp controller implements AppLifecycle.                         *)
(***************************************************************************)
EXTENDS HelmAppStatusProofs

(* What a copy of a terminating object still lists is either gone or       *)
(* listed by the stored object, which then is terminating too; so a        *)
(* deletion that works on an old copy finds nothing to uninstall.          *)
Followed(app) ==
  \A n \in Recorded(app) : releases[n] = <<>> \/ (stored.deleting /\ n \in Recorded(stored))

(* A deletion only ever shortens the list of the copy it works on.         *)
NothingNew == \A n \in Names : Remembered(n) => n \in Recorded(helmApp)

TerminationInv ==
  /\ cached.deleting => Followed(cached)
  /\ pc # "idle" /\ helmApp.deleting => Followed(helmApp)
  /\ pc # "idle" /\ ~helmApp.deleting /\ cached.deleting =>
       stored.deleting /\ Recorded(cached) = Recorded(stored)
  /\ pc = "deleteComponents" => NothingNew

-----------------------------------------------------------------------------
(* What a step does to the set of installed names.                         *)

LEMMA OneRelease ==
  ASSUME TypeInv, NEW m \in Names, NEW g, releases' = [releases EXCEPT ![m] = g]
  PROVE  /\ (g = <<>> <=> releases[m] = <<>>) => UNCHANGED InstalledNames
         /\ g # <<>> /\ releases[m] = <<>> =>
              m \notin InstalledNames /\ InstalledNames' = InstalledNames \cup {m}
         /\ g = <<>> /\ releases[m] # <<>> =>
              m \in InstalledNames /\ InstalledNames' = InstalledNames \ {m}
<1>1. \A n \in Names : releases'[n] = IF n = m THEN g ELSE releases[n]
  BY DEF TypeInv, TypeOK
<1> QED BY <1>1 DEF InstalledNames

LEMMA SameLengthHistory ==
  ASSUME NEW h \in Seq(Revision), NEW k, NEW status \in ReleaseStatus
  PROVE  WithStatus(h, k, status) = <<>> <=> h = <<>>
<1>1. /\ WithStatus(h, k, status) \in Seq(Revision)
      /\ Len(WithStatus(h, k, status)) = Len(h)
  BY WithStatusIsHistory
<1> QED BY <1>1, EmptySeq

Installs == \E n \in Names \ InstalledNames : InstalledNames' = InstalledNames \cup {n}

LEMMA ComponentReleases ==
  ASSUME TypeInv, ReconcileComponent
  PROVE  UNCHANGED InstalledNames \/ (pc = "components" /\ Installs)
<1>1. CASE RepoMissing \/ ChartUnavailable \/ HistoryFails \/ InstallRejected
             \/ SkipsUnchanged \/ UpgradeRejected \/ ComponentsDone
  <2>1. UNCHANGED releases
    BY <1>1 DEF RepoMissing, ChartUnavailable, HistoryFails, InstallRejected, SkipsUnchanged,
                UpgradeRejected, ComponentsDone
  <2> QED BY <2>1 DEF InstalledNames
<1>2. CASE InstallStores
  <2> DEFINE new == NewRevision(Resolve[Current.version], Encode(Current.values),
                                "pending-install")
  <2>1. /\ pc = "components" /\ Current.name \in Names /\ releases[Current.name] = <<>>
        /\ releases' = [releases EXCEPT ![Current.name] = <<new>>]
    BY <1>2 DEF InstallStores, MustInstall, ChartLoaded, AtComponent, History
  <2> HIDE DEF new
  <2>2. <<new>> # <<>>
    OBVIOUS
  <2> QED BY <2>1, <2>2, OneRelease DEF Installs
<1>3. {"deployed", "failed", "pending-install", "pending-upgrade"} \subseteq ReleaseStatus
  BY DEF ReleaseStatus, PendingStatus
<1>4. ASSUME NEW status \in ReleaseStatus, InstallEnds(status)
      PROVE  UNCHANGED InstalledNames
  <2>1. /\ Current.name \in Names
        /\ releases' = [releases EXCEPT ![Current.name] = WithStatus(History, 1, status)]
    BY <1>4 DEF InstallEnds, TypeInv, AtHelmAction
  <2>2. WithStatus(History, 1, status) = <<>> <=> releases[Current.name] = <<>>
    BY <2>1, HistoryIsHistory, SameLengthHistory DEF History
  <2> QED BY <2>1, <2>2, OneRelease
<1>5. CASE InstallSucceeds \/ InstallFails \/ InstallUnrecorded
  BY <1>3, <1>4, <1>5 DEF InstallSucceeds, InstallFails, InstallUnrecorded
<1>6. CASE UpgradeStores
  <2> DEFINE new == NewRevision(Resolve[Current.version],
                                UpgradeConfig(History, Current.values), "pending-upgrade")
  <2>1. /\ Current.name \in Names /\ History # <<>> /\ History = releases[Current.name]
        /\ releases' = [releases EXCEPT ![Current.name] = Append(History, new)]
    BY <1>6 DEF UpgradeStores, MustUpgrade, ReleaseExists, ChartLoaded, History
  <2> HIDE DEF new
  <2>2. History \in Seq(Revision \cup {new})
    BY <2>1, HistoryIsHistory
  <2>3. Append(History, new) # <<>>
    BY <2>2, AppendProperties
  <2> QED BY <2>1, <2>3, OneRelease
<1>7. ASSUME NEW status \in ReleaseStatus, UpgradeEnds(status)
      PROVE  UNCHANGED InstalledNames
  <2> DEFINE replaced == UpgradeBase(Front(History))
             h == IF status = "failed" THEN History ELSE WithStatus(History, replaced, "superseded")
  <2>1. /\ Current.name \in Names /\ "superseded" \in ReleaseStatus
        /\ releases' = [releases EXCEPT ![Current.name] = WithStatus(h, Len(h), status)]
    BY <1>7 DEF UpgradeEnds, TypeInv, AtHelmAction, ReleaseStatus
  <2>2. History \in Seq(Revision) /\ History = releases[Current.name]
    BY <2>1, HistoryIsHistory DEF History
  <2>3. h \in Seq(Revision) /\ (h = <<>> <=> History = <<>>)
    BY <2>1, <2>2, WithStatusIsHistory, SameLengthHistory
  <2> HIDE DEF h
  <2>4. WithStatus(h, Len(h), status) = <<>> <=> releases[Current.name] = <<>>
    BY <2>2, <2>3, SameLengthHistory
  <2> QED BY <2>1, <2>4, OneRelease
<1>8. CASE UpgradeSucceeds \/ UpgradeFails \/ UpgradeUnrecorded
  BY <1>3, <1>7, <1>8 DEF UpgradeSucceeds, UpgradeFails, UpgradeUnrecorded
<1> QED BY <1>1, <1>2, <1>5, <1>6, <1>8 DEF ReconcileComponent

Uninstalls ==
  /\ ToUninstall
  /\ Existing.name \in InstalledNames
  /\ InstalledNames' = InstalledNames \ {Existing.name}

LEMMA UninstallReleases ==
  ASSUME TypeInv, Uninstall
  PROVE  UNCHANGED InstalledNames \/ Uninstalls
<1>1. CASE NothingToUninstall \/ FindsNoRelease \/ LeftoversDone
  BY <1>1 DEF NothingToUninstall, FindsNoRelease, LeftoversDone, InstalledNames
<1>2. ToUninstall => Existing.name \in Names
  BY ExistingIsStatus DEF ToUninstall, ComponentStatus
<1>3. CASE UninstallStarts
  <2> DEFINE h == releases[Existing.name]
  <2>1. /\ Existing.name \in Names /\ "uninstalling" \in ReleaseStatus
        /\ releases' = [releases EXCEPT ![Existing.name] = WithStatus(h, Len(h), "uninstalling")]
    BY <1>2, <1>3 DEF UninstallStarts, ReleaseStatus
  <2>2. h \in Seq(Revision)
    BY <2>1, HistoryIsHistory
  <2>3. WithStatus(h, Len(h), "uninstalling") = <<>> <=> h = <<>>
    BY <2>1, <2>2, SameLengthHistory
  <2> QED BY <2>1, <2>3, OneRelease
<1>4. CASE Uninstalled
  BY <1>2, <1>4, OneRelease DEF Uninstalled, Uninstalls
<1>5. CASE UninstallFails
  <2>1. CASE UNCHANGED releases
    BY <2>1 DEF InstalledNames
  <2>2. CASE releases' = [releases EXCEPT ![Existing.name] = <<>>]
    BY <1>2, <1>5, <2>2, OneRelease DEF UninstallFails, Uninstalls
  <2> QED BY <1>5, <2>1, <2>2 DEF UninstallFails
<1> QED BY <1>1, <1>3, <1>4, <1>5 DEF Uninstall

(* Everything else leaves Helm alone.                                      *)
LEMMA OtherReleases ==
  ASSUME [Next]_vars
  PROVE  UNCHANGED releases \/ ReconcileComponent \/ Uninstall
<1>1. CASE UNCHANGED vars \/ User \/ Deliver \/ Resync \/ DelayExpires \/ Crash
  BY <1>1 DEF vars, User, UserCreates, UserUpdates, UserDeletes, UserWrites, Deliver, Resync,
              DelayExpires, Crash
<1>2. CASE Reconcile
  BY <1>2 DEF Reconcile, GetFindsNothing, GetFindsApp, Dequeue, AddsFinalizer, HelmInitFails,
              SpecMissing, StartsComponents, StartsDeletion, WritesStatus, DeletePanics,
              WritesDeleteStatus, RemovesFinalizer, WriteFails
<1> QED BY <1>1, <1>2 DEF Next

-----------------------------------------------------------------------------
(* TerminationInv is inductive.                                            *)

(* Steps that leave the copies as they are, or end the reconcile.          *)
LEMMA SameCopies ==
  ASSUME TerminationInv, UNCHANGED cached,
         \A n \in Names : releases[n] = <<>> => releases'[n] = <<>>,
         stored.deleting =>
           \A n \in Recorded(stored) :
             releases'[n] = <<>> \/ (stored'.deleting /\ n \in Recorded(stored')),
         \/ pc' = "idle"
         \/ /\ pc # "idle" /\ UNCHANGED helmApp
            /\ ~helmApp.deleting /\ stored.deleting =>
                 stored'.deleting /\ Recorded(stored') = Recorded(stored),
         pc' = "deleteComponents" => NothingNew'
  PROVE  TerminationInv'
<1>1. \A app : Recorded(app) \subseteq Names
  BY DEF Recorded
<1>2. Recorded(stored)' = Recorded(stored') /\ Recorded(cached)' = Recorded(cached)
  BY DEF Recorded
<1>3. UNCHANGED helmApp => Recorded(helmApp)' = Recorded(helmApp)
  BY DEF Recorded
<1>4. cached'.deleting => Followed(cached)'
  BY <1>1, <1>2 DEF TerminationInv, Followed
<1>5. pc' # "idle" /\ helmApp'.deleting => Followed(helmApp)'
  BY <1>1, <1>2, <1>3 DEF TerminationInv, Followed
<1>6. pc' # "idle" /\ ~helmApp'.deleting /\ cached'.deleting =>
        stored'.deleting /\ Recorded(cached)' = Recorded(stored')
  BY <1>2 DEF TerminationInv
<1> QED BY <1>2, <1>4, <1>5, <1>6 DEF TerminationInv

LEMMA UserKeepsTermination ==
  ASSUME TypeInv, UnheldIsEmpty, TerminationInv, User
  PROVE  TerminationInv'
<1>1. UNCHANGED <<cached, pc, helmApp, componentStatuses, releases>>
  BY DEF User, UserCreates, UserUpdates, UserDeletes, UserWrites
<1>2. stored \in App
  BY DEF TypeInv, TypeOK
<1>3. stored.deleting => stored'.deleting /\ Recorded(stored') = Recorded(stored)
  <2>1. CASE UserCreates \/ UserDeletes
    BY <2>1 DEF UserCreates, UserDeletes, UnheldIsEmpty
  <2>2. CASE UserUpdates
    <3>1. PICK s \in Specs : stored' = [stored EXCEPT !.spec = s]
      BY <2>2 DEF UserUpdates, UserWrites
    <3>2. stored'.deleting = stored.deleting /\ stored'.status = stored.status
      BY <1>2, <3>1 DEF App
    <3> QED BY <3>2 DEF Recorded
  <2> QED BY <2>1, <2>2 DEF User
<1>4. NothingNew' = NothingNew
  BY <1>1 DEF NothingNew, Remembered, Recorded
<1> QED BY <1>1, <1>3, <1>4, SameCopies DEF TerminationInv

LEMMA QueueKeepsTermination ==
  ASSUME TerminationInv, Deliver \/ Resync \/ DelayExpires \/ Crash \/ UNCHANGED vars
  PROVE  TerminationInv'
<1>1. CASE Resync \/ DelayExpires \/ UNCHANGED vars
  <2>1. UNCHANGED <<stored, cached, pc, helmApp, componentStatuses, releases>>
    BY <1>1 DEF Resync, DelayExpires, vars, local, server
  <2> QED BY <2>1 DEF TerminationInv, Followed, NothingNew, Remembered, Recorded
<1>2. CASE Deliver
  <2>1. cached' = stored /\ UNCHANGED <<stored, pc, helmApp, componentStatuses, releases>>
    BY <1>2 DEF Deliver, local
  <2> QED BY <2>1 DEF TerminationInv, Followed, NothingNew, Remembered, Recorded
<1>3. CASE Crash
  <2>1. cached' = stored /\ pc' = "idle" /\ UNCHANGED <<stored, releases>>
    BY <1>3 DEF Crash, Leaves
  <2> QED BY <2>1 DEF TerminationInv, Followed, Recorded
<1> QED BY <1>1, <1>2, <1>3

LEMMA StartKeepsTermination ==
  ASSUME TypeInv, HeldInv, TerminationInv,
         GetFindsNothing \/ GetFindsApp \/ AddsFinalizer \/ HelmInitFails
           \/ SpecMissing \/ StartsComponents \/ StartsDeletion
  PROVE  TerminationInv'
<1>1. CASE GetFindsNothing
  BY <1>1 DEF GetFindsNothing, Dequeue, TerminationInv, Followed, NothingNew, Remembered,
              Recorded, server
<1>2. CASE GetFindsApp
  <2>1. /\ helmApp' = cached /\ pc' \in {"initHelm", "addFinalizer"}
        /\ UNCHANGED <<stored, cached, releases>>
    BY <1>2 DEF GetFindsApp, FirstStep, Dequeue, server
  <2> QED BY <2>1 DEF TerminationInv, Followed, Recorded
<1>3. CASE AddsFinalizer
  <2>1. /\ pc = "addFinalizer" /\ pc' = "initHelm" /\ appFresh
        /\ stored' = [helmApp EXCEPT !.finalizer = TRUE] /\ helmApp' = stored'
        /\ UNCHANGED <<cached, releases>>
    BY <1>3 DEF AddsFinalizer, Stores
  <2>2. helmApp \in App /\ helmApp = stored /\ ~helmApp.deleting
    BY <2>1 DEF TypeInv, TypeOK, HeldInv, FreshCopies, PathFollowsCopy
  <2>3. ~stored'.deleting
    BY <2>1, <2>2 DEF App
  <2>4. ~cached.deleting
    BY <2>1, <2>2 DEF TerminationInv
  <2> QED BY <2>1, <2>3, <2>4 DEF TerminationInv
<1>4. CASE HelmInitFails \/ SpecMissing
  BY <1>4, SameCopies DEF HelmInitFails, SpecMissing, Errs, Leaves, server
<1>5. CASE StartsComponents
  BY <1>5, SameCopies DEF StartsComponents, server
<1>6. CASE StartsDeletion
  <2>1. componentStatuses' = helmApp.status.components /\ UNCHANGED helmApp
    BY <1>6 DEF StartsDeletion
  <2>2. NothingNew'
    BY <2>1, RecordedNames DEF NothingNew, Remembered, Recorded
  <2> QED BY <1>6, <2>2, SameCopies DEF StartsDeletion, server
<1> QED BY <1>1, <1>2, <1>3, <1>4, <1>5, <1>6

(* An install happens under a copy that is not terminating, while the      *)
(* informer's copy is not either or lists what the stored object lists.    *)
LEMMA ComponentKeepsTermination ==
  ASSUME HeldInv, TerminationInv, ReconcileComponent
  PROVE  TerminationInv'
<1>1. pc = "components" /\ ~helmApp.deleting
  BY DEF ReconcileComponent, RepoMissing, ChartUnavailable, HistoryFails, InstallRejected,
         InstallStores, InstallSucceeds, InstallFails, InstallUnrecorded, InstallEnds,
         SkipsUnchanged, UpgradeRejected, UpgradeStores, UpgradeSucceeds, UpgradeFails,
         UpgradeUnrecorded, UpgradeEnds, ComponentsDone, MustInstall, MustUpgrade,
         ReleaseExists, ChartLoaded, AtComponent, HeldInv, PathFollowsCopy
<1>2. /\ UNCHANGED <<stored, cached>>
      /\ pc' = "idle" \/ (pc' # "deleteComponents" /\ UNCHANGED helmApp)
  BY <1>1, ComponentWritesNothing DEF WritesNothing, server
<1>3. cached.deleting => stored.deleting /\ Recorded(cached) = Recorded(stored)
  BY <1>1 DEF TerminationInv
<1>4. Recorded(cached)' = Recorded(cached) /\ Recorded(stored)' = Recorded(stored)
  BY <1>2 DEF Recorded
<1>5. cached'.deleting => Followed(cached)'
  BY <1>2, <1>3, <1>4 DEF Followed
<1> QED BY <1>1, <1>2, <1>3, <1>4, <1>5 DEF TerminationInv

LEMMA UninstallAddsNothing ==
  ASSUME TypeInv, TerminationInv, Uninstall, pc' = "deleteComponents"
  PROVE  \A n \in Names : Remembered(n)' => n \in Recorded(helmApp)
<1>1. pc = "deleteComponents" /\ AtStatus
  BY DEF Uninstall, NothingToUninstall, FindsNoRelease, UninstallStarts, Uninstalled,
         UninstallFails, LeftoversDone, Clears, Stays, ToUninstall
<1>2. /\ idx \in 1..Len(componentStatuses) /\ Len(componentStatuses) \in Nat
      /\ DOMAIN componentStatuses = 1..Len(componentStatuses)
      /\ Existing = componentStatuses[idx] /\ Existing \in ComponentStatus
  BY <1>1, ExistingIsStatus, LenProperties DEF Existing, TypeInv, TypeOK
<1>3. ASSUME NEW n, Remembered(n)'
      PROVE  Remembered(n)
  <2>1. PICK j \in DOMAIN componentStatuses' : componentStatuses'[j].name = n
    BY <1>3 DEF Remembered
  <2>2. CASE UNCHANGED componentStatuses
    BY <1>3, <2>2 DEF Remembered
  <2>3. CASE componentStatuses' = RemoveAt(componentStatuses, idx)
    <3>1. /\ DOMAIN componentStatuses' = 1..Len(componentStatuses) - 1
          /\ \A i \in 1..Len(componentStatuses) - 1 :
               componentStatuses'[i]
                 = IF i < idx THEN componentStatuses[i] ELSE componentStatuses[i + 1]
      <4>1. componentStatuses \in Seq(ComponentStatus)
        BY DEF TypeInv, TypeOK
      <4>2. /\ componentStatuses' \in Seq(ComponentStatus)
            /\ Len(componentStatuses') = Len(componentStatuses) - 1
            /\ \A i \in 1..Len(componentStatuses) - 1 :
                 componentStatuses'[i]
                   = IF i < idx THEN componentStatuses[i] ELSE componentStatuses[i + 1]
        BY <1>2, <2>3, <4>1, RemoveAtIsSeq
      <4>3. DOMAIN componentStatuses' = 1..Len(componentStatuses')
        BY <4>2, LenProperties
      <4> QED BY <4>2, <4>3
    <3>2. j \in 1..Len(componentStatuses) - 1
      BY <2>1, <3>1
    <3>3. PICK i \in {j, j + 1} : componentStatuses[i].name = n
      BY <2>1, <3>1, <3>2
    <3>4. i \in DOMAIN componentStatuses
      BY <1>2, <3>2, <3>3
    <3> QED BY <3>3, <3>4 DEF Remembered
  <2>4. CASE componentStatuses' = [componentStatuses EXCEPT ![idx] = Failed(@)]
    <3>1. Failed(Existing).name = Existing.name
      BY <1>2 DEF Failed, ComponentStatus
    <3> QED BY <1>2, <2>1, <2>4, <3>1 DEF Remembered
  <2> QED BY <1>1, <2>2, <2>3, <2>4
          DEF Uninstall, NothingToUninstall, FindsNoRelease, UninstallStarts, Uninstalled,
              UninstallFails, LeftoversDone, Clears, Stays, Others
<1> QED BY <1>1, <1>3 DEF TerminationInv, NothingNew

LEMMA UninstallKeepsTermination ==
  ASSUME TypeInv, HeldInv, TerminationInv, Uninstall
  PROVE  TerminationInv'
<1>1. UNCHANGED <<stored, cached, helmApp>> /\ pc # "idle"
  BY DEF Uninstall, NothingToUninstall, FindsNoRelease, UninstallStarts, Uninstalled,
         UninstallFails, LeftoversDone, Clears, Stays, AtStatus, ToUninstall, server
<1>2. \A n \in Names : releases[n] = <<>> => releases'[n] = <<>>
  BY UninstallReleases DEF Uninstalls, InstalledNames
<1>3. pc' = "deleteComponents" => NothingNew'
  BY <1>1, UninstallAddsNothing DEF NothingNew, Recorded
<1> QED BY <1>1, <1>2, <1>3, SameCopies

(* A write of the worker answers a fresh copy: what leaves the stored      *)
(* status is gone, and a terminating object stays so.                      *)
LEMMA WrittenKeepsRecord ==
  ASSUME TypeInv, HeldInv, MemoryInv, appFresh, Writing, stored.deleting, NEW n \in Recorded(stored)
  PROVE  releases[n] = <<>> \/ (Written.deleting /\ n \in Recorded(Written))
<1>1. helmApp \in App /\ helmApp = stored /\ helmApp.deleting
  BY DEF TypeInv, TypeOK, HeldInv, FreshCopies, Writing, AllProcessed
<1>2. pc # "addFinalizer" /\ pc # "updateStatus"
  BY <1>1 DEF HeldInv, PathFollowsCopy
<1>3. CASE pc = "removeFinalizer"
  <2>1. stored.status.components = <<>>
    BY <1>1, <1>3 DEF MemoryInv, WalkInv, StatusAccounted
  <2> QED BY <2>1, RecordedNames
<1>4. CASE pc = "deleteComponents"
  <2>1. Written = [helmApp EXCEPT !.status = NewStatus]
    BY <1>4 DEF Written
  <2>2. Written.deleting
    BY <1>1, <2>1 DEF App
  <2> QED BY <2>2, WrittenKeepsMemory DEF MemoryInv
<1> QED BY <1>2, <1>3, <1>4 DEF Writing, AllProcessed

LEMMA WriteKeepsTermination ==
  ASSUME TypeInv, HeldInv, MemoryInv, TerminationInv,
         WritesStatus \/ DeletePanics \/ WritesDeleteStatus \/ RemovesFinalizer \/ WriteFails
  PROVE  TerminationInv'
<1>1. UNCHANGED <<cached, releases>> /\ Reconcile
  BY DEF WritesStatus, DeletePanics, WritesDeleteStatus, RemovesFinalizer, WriteFails, Stores,
         server, Reconcile
<1>2. stored.deleting =>
        \A n \in Recorded(stored) :
          releases'[n] = <<>> \/ (stored'.deleting /\ n \in Recorded(stored'))
  BY <1>1, WorkerStores, WrittenKeepsRecord DEF StoresWritten
<1>3. CASE pc' = "idle"
  BY <1>1, <1>2, <1>3, SameCopies
<1>4. CASE pc' # "idle"
  <2>1. /\ AllUninstalled /\ AllProcessed /\ pc' = "removeFinalizer"
        /\ helmApp' = [helmApp EXCEPT !.status = NewStatus]
    BY <1>4 DEF WritesStatus, DeletePanics, WritesDeleteStatus, RemovesFinalizer, WriteFails,
                Returns, Errs, Leaves
  <2>2. helmApp \in App /\ helmApp.deleting
    BY <2>1 DEF TypeInv, TypeOK, AllProcessed, HeldInv, PathFollowsCopy
  <2>3. helmApp'.deleting /\ helmApp'.status.components = <<>>
    BY <2>1, <2>2 DEF App, NewStatus, AllUninstalled
  <2>4. Followed(helmApp)'
    BY <2>3, RecordedNames DEF Followed
  <2>5. cached'.deleting => Followed(cached)'
    <3>1. Recorded(cached)' = Recorded(cached) /\ Recorded(cached) \subseteq Names
      BY <1>1 DEF Recorded
    <3> QED BY <1>1, <1>2, <3>1 DEF TerminationInv, Followed
  <2> QED BY <2>1, <2>3, <2>4, <2>5 DEF TerminationInv
<1> QED BY <1>3, <1>4

LEMMA TerminationInvStep ==
  TypeInv /\ HeldInv /\ MemoryInv /\ TerminationInv /\ [Next]_vars => TerminationInv'
<1> SUFFICES ASSUME TypeInv, HeldInv, MemoryInv, TerminationInv, [Next]_vars
             PROVE  TerminationInv'
  OBVIOUS
<1>1. CASE User
  BY <1>1, UserKeepsTermination DEF MemoryInv
<1>2. CASE Deliver \/ Resync \/ DelayExpires \/ Crash \/ UNCHANGED vars
  BY <1>2, QueueKeepsTermination
<1>3. CASE Reconcile
  BY <1>3, StartKeepsTermination, ComponentKeepsTermination, UninstallKeepsTermination,
     WriteKeepsTermination DEF Reconcile
<1> QED BY <1>1, <1>2, <1>3 DEF Next

LEMMA TerminationInvInit == Init => TerminationInv
BY DEF Init, TerminationInv, NoApp

-----------------------------------------------------------------------------
(* Every step maps to a step of AppLifecycle or to none of its steps.      *)

Unseen == UNCHANGED <<LifecyclePhase, Recorded(stored), InstalledNames>>

LEMMA SameObject ==
  ASSUME UNCHANGED stored
  PROVE  UNCHANGED <<LifecyclePhase, Recorded(stored)>>
BY DEF LifecyclePhase, Recorded

LEMMA UserMaps ==
  ASSUME TypeInv, UnheldIsEmpty, User
  PROVE  Unseen \/ Lifecycle!Create \/ Lifecycle!Drop \/ Lifecycle!Delete
<1>1. UNCHANGED InstalledNames
  BY DEF User, UserCreates, UserUpdates, UserDeletes, UserWrites, InstalledNames
<1>2. stored \in App
  BY DEF TypeInv, TypeOK
<1>3. \A app : app.status.components = <<>> => Recorded(app) = {}
  BY RecordedNames
<1> USE DEF LifecyclePhase, Lifecycle!Moves
<1>4. CASE UserCreates
  <2>1. PICK s \in Specs : stored' = [NoApp EXCEPT !.present = TRUE, !.spec = s]
    BY <1>4 DEF UserCreates, UserWrites
  <2>2. /\ stored'.present /\ ~stored'.finalizer /\ stored'.status.components = <<>>
        /\ ~stored.present /\ stored.status.components = <<>>
    BY <1>4, <2>1 DEF UserCreates, UnheldIsEmpty, NoApp, NilStatus
  <2>3. Recorded(stored)' = Recorded(stored)
    BY <1>3, <2>2 DEF Recorded
  <2> QED BY <1>1, <2>2, <2>3 DEF Lifecycle!Create
<1>5. CASE UserUpdates
  <2>1. PICK s \in Specs : stored' = [stored EXCEPT !.spec = s]
    BY <1>5 DEF UserUpdates, UserWrites
  <2>2. /\ stored'.present = stored.present /\ stored'.finalizer = stored.finalizer
        /\ stored'.deleting = stored.deleting /\ stored'.status = stored.status
    BY <1>2, <2>1 DEF App
  <2> QED BY <1>1, <2>2 DEF Unseen, Recorded
<1>6. CASE UserDeletes
  <2>1. stored.present /\ ~stored.deleting
    BY <1>6 DEF UserDeletes
  <2>2. CASE stored.finalizer
    <3>1. stored' = [stored EXCEPT !.deleting = TRUE]
      BY <1>6, <2>2 DEF UserDeletes, UserWrites
    <3>2. /\ stored'.present /\ stored'.finalizer /\ stored'.deleting
          /\ stored'.status = stored.status
      BY <1>2, <2>1, <2>2, <3>1 DEF App
    <3> QED BY <1>1, <2>1, <2>2, <3>2 DEF Lifecycle!Delete, Recorded
  <2>3. CASE ~stored.finalizer
    <3>1. /\ ~stored'.present /\ stored'.status.components = <<>>
          /\ stored.status.components = <<>>
      BY <1>6, <2>3 DEF UserDeletes, UserWrites, UnheldIsEmpty, NoApp, NilStatus
    <3>2. Recorded(stored)' = Recorded(stored)
      BY <1>3, <3>1 DEF Recorded
    <3> QED BY <1>1, <2>1, <2>3, <3>1, <3>2 DEF Lifecycle!Drop
  <2> QED BY <2>2, <2>3
<1> QED BY <1>4, <1>5, <1>6 DEF User

LEMMA WriteMaps ==
  ASSUME TypeInv, HeldInv, MemoryInv, TerminationInv, StoresWritten, UNCHANGED releases
  PROVE  Unseen \/ Lifecycle!Hold \/ Lifecycle!Report \/ Lifecycle!Release
<1>1. UNCHANGED InstalledNames
  BY DEF InstalledNames
<1>2. stored' = Written /\ helmApp \in App /\ helmApp = stored /\ stored.present
  BY DEF StoresWritten, Writing, AllProcessed, TypeInv, TypeOK, HeldInv, FreshCopies,
         PathFollowsCopy
<1>3. \A n \in Recorded(stored) \ Recorded(stored)' : n \notin InstalledNames
  BY <1>2, WrittenKeepsMemory DEF StoresWritten, MemoryInv, InstalledNames, Recorded
<1>4. CASE pc = "addFinalizer"
  <2>1. /\ stored'.present /\ stored'.finalizer /\ ~stored'.deleting /\ ~stored.deleting
        /\ stored'.status = stored.status
    BY <1>2, <1>4 DEF Written, App, HeldInv, PathFollowsCopy
  <2> QED BY <1>1, <1>2, <2>1
          DEF Unseen, Lifecycle!Hold, Lifecycle!Moves, LifecyclePhase, Recorded
<1>5. CASE pc = "updateStatus" \/ pc = "deleteComponents"
  <2>1. /\ stored'.present = stored.present /\ stored'.finalizer = stored.finalizer
        /\ stored'.deleting = stored.deleting /\ stored'.status.components = componentStatuses
    BY <1>2, <1>5 DEF Written, App, NewStatus
  <2>2. stored.finalizer /\ (pc = "updateStatus" => ~stored.deleting)
    BY <1>2, <1>5 DEF MemoryInv, UnheldIsEmpty, HeldInv, PathFollowsCopy, CopiesAreHeld, Held
  <2>3. UNCHANGED LifecyclePhase /\ Lifecycle!Kept
    BY <1>2, <2>1, <2>2 DEF LifecyclePhase, Lifecycle!Kept
  <2>4. LifecyclePhase = "terminating" => Recorded(stored)' \subseteq Recorded(stored)
    <3>1. SUFFICES ASSUME pc = "deleteComponents"
                   PROVE  Recorded(stored)' \subseteq Recorded(stored)
      BY <1>2, <1>5, <2>2 DEF LifecyclePhase
    <3>2. \A n \in Recorded(stored') : n \in Names /\ Remembered(n)
      BY <2>1, RecordedNames DEF Remembered
    <3> QED BY <1>2, <3>1, <3>2 DEF TerminationInv, NothingNew, Recorded
  <2>5. Recorded(stored)' \in SUBSET Names
    BY DEF Recorded
  <2> QED BY <1>1, <1>3, <2>3, <2>4, <2>5 DEF Lifecycle!Report
<1>6. CASE pc = "removeFinalizer"
  <2>1. /\ stored' = NoApp /\ stored.deleting /\ stored.finalizer
        /\ stored.status.components = <<>>
    BY <1>2, <1>6 DEF Written, HeldInv, PathFollowsCopy, MemoryInv, WalkInv, StatusAccounted,
                      UnheldIsEmpty
  <2>2. Recorded(stored) = {} /\ Recorded(stored') = {}
    BY <2>1, RecordedNames DEF NoApp, NilStatus
  <2> QED BY <1>1, <1>2, <2>1, <2>2
          DEF Lifecycle!Release, Lifecycle!Moves, LifecyclePhase, NoApp, Recorded
<1> QED BY <1>4, <1>5, <1>6 DEF StoresWritten, Writing, AllProcessed

(* Helm works only for an object the finalizer keeps.                      *)
LEMMA HelmWorkMaps ==
  ASSUME TypeInv, HeldInv, MemoryInv, TerminationInv, ReconcileComponent \/ Uninstall
  PROVE  Unseen \/ Lifecycle!Install \/ Lifecycle!Uninstall
<1>1. UNCHANGED stored
  BY ComponentWritesNothing, UninstallWritesNothing DEF WritesNothing, server
<1>2. UNCHANGED <<LifecyclePhase, Recorded(stored)>>
  BY <1>1, SameObject
<1>3. CASE UNCHANGED InstalledNames
  BY <1>2, <1>3 DEF Unseen
<1>4. Held(stored) => Lifecycle!Kept
  BY DEF Held, Lifecycle!Kept, LifecyclePhase
<1>5. CASE pc = "components" /\ Installs
  <2>1. Held(stored)
    BY <1>5 DEF HeldInv, PathFollowsCopy, CopiesAreHeld
  <2> QED BY <1>2, <1>4, <1>5, <2>1 DEF Lifecycle!Install, Installs
<1>6. CASE Uninstalls
  <2>1. CASE pc = "leftovers"
    <3>1. Held(stored)
      BY <2>1 DEF HeldInv, PathFollowsCopy, CopiesAreHeld
    <3> QED BY <1>2, <1>4, <1>6, <3>1 DEF Lifecycle!Uninstall, Uninstalls
  <2>2. CASE pc = "deleteComponents"
    <3>1. Existing.name \in Names /\ Remembered(Existing.name) /\ releases[Existing.name] # <<>>
      BY <1>6, <2>2 DEF Uninstalls, InstalledNames, ToUninstall, AtStatus, Existing, Remembered
    <3>2. Existing.name \in Recorded(helmApp)
      BY <2>2, <3>1 DEF TerminationInv, NothingNew
    <3>3. stored.deleting
      BY <2>2, <3>1, <3>2 DEF TerminationInv, Followed, HeldInv, PathFollowsCopy
    <3>4. Held(stored)
      BY <3>3 DEF MemoryInv, UnheldIsEmpty, Held
    <3> QED BY <1>2, <1>4, <1>6, <3>4 DEF Lifecycle!Uninstall, Uninstalls
  <2> QED BY <1>6, <2>1, <2>2 DEF Uninstalls, ToUninstall, AtStatus
<1> QED BY <1>3, <1>5, <1>6, ComponentReleases, UninstallReleases

(* Seen from outside, the controller is AppLifecycle: for any number of    *)
(* components, edits, faults, restarts and stale reads, the object is held *)
(* before Helm starts, a status never forgets a release, and the object is *)
(* released when nothing is recorded any more.                             *)
THEOREM LifecycleImplemented == Spec => ImplementsLifecycle
<1>1. Init => Lifecycle!Init
  BY RecordedNames
     DEF Init, NoApp, NilStatus, Lifecycle!Init, LifecyclePhase, InstalledNames
<1>2. TypeInv /\ HeldInv /\ MemoryInv /\ TerminationInv /\ [Next]_vars
        => [Lifecycle!Next]_(Lifecycle!vars)
  <2> SUFFICES ASSUME TypeInv, HeldInv, MemoryInv, TerminationInv, [Next]_vars
               PROVE  [Lifecycle!Next]_(Lifecycle!vars)
    OBVIOUS
  <2>1. CASE User
    BY <2>1, UserMaps DEF MemoryInv, Unseen, Lifecycle!Next, Lifecycle!vars
  <2>2. CASE ReconcileComponent \/ Uninstall
    BY <2>2, HelmWorkMaps DEF Unseen, Lifecycle!Next, Lifecycle!vars
  <2>3. CASE StoresWritten /\ UNCHANGED releases
    BY <2>3, WriteMaps DEF Unseen, Lifecycle!Next, Lifecycle!vars
  <2>4. CASE UNCHANGED <<stored, releases>>
    BY <2>4, SameObject DEF InstalledNames, Lifecycle!vars
  <2> QED BY <2>1, <2>2, <2>3, <2>4, OtherReleases, StoringSteps
<1> QED BY <1>1, <1>2, TypeInvInit, TypeInvStep, HeldInvInit, HeldInvStep, MemoryInvInit,
           MemoryInvStep, TerminationInvInit, TerminationInvStep,
           PTL DEF Spec, ImplementsLifecycle, Lifecycle!Spec
=============================================================================
