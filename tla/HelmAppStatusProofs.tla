------------------------- MODULE HelmAppStatusProofs -------------------------
(***************************************************************************)
(* Proofs about the list of component statuses, the controller's only      *)
(* memory of what it has installed: a deletion skips nothing, nothing is   *)
(* forgotten before its release is gone, and no wake-up is lost before the *)
(* list answers the spec.                                                  *)
(***************************************************************************)
EXTENDS HelmAppControllerProofs

Remembered(n) == \E k \in DOMAIN componentStatuses : componentStatuses[k].name = n

Accounted(n) == releases[n] = <<>> \/ Remembered(n)

(* The stored status is empty while nothing holds the object.              *)
UnheldIsEmpty ==
  /\ stored.finalizer => stored.present
  /\ stored.deleting => stored.finalizer
  /\ ~stored.finalizer => stored.status.components = <<>>

ComponentsReported ==
  pc = "components" =>
    \A k \in DOMAIN helmApp.spec.components :
      k < idx => Remembered(helmApp.spec.components[k].name)

LeftoversAccounted ==
  pc = "leftovers" =>
    /\ idx >= 1
    /\ \A n \in DesiredNames(helmApp) : Remembered(n)
    /\ \A k \in DOMAIN helmApp.status.components :
         k < idx /\ helmApp.status.components[k].name \in Names
           => Accounted(helmApp.status.components[k].name)

StatusAccounted ==
  /\ pc \in {"updateStatus", "deleteComponents"} => \A n \in Recorded(helmApp) : Accounted(n)
  /\ pc = "removeFinalizer" => helmApp.status.components = <<>>

(* What the worker knows, kept apart from what the API server stores.      *)
WalkInv ==
  ComponentsReported /\ LeftoversAccounted /\ StatusAccounted /\ DeletionSkipsNothing

LEMMA RecordedNames ==
  ASSUME NEW app
  PROVE  \A n : n \in Recorded(app) <=>
           n \in Names /\ \E k \in DOMAIN app.status.components : app.status.components[k].name = n
BY DEF Recorded, ToSet

-----------------------------------------------------------------------------
(* The walks: steps that leave Reconcile or stay where they are.           *)

LEMMA IdleKeepsWalk ==
  ASSUME pc' \in {"idle", "addFinalizer", "initHelm"}
  PROVE  WalkInv'
BY DEF WalkInv, ComponentsReported, LeftoversAccounted, StatusAccounted, DeletionSkipsNothing

LEMMA SameWalk ==
  ASSUME WalkInv, UNCHANGED <<pc, helmApp, idx, componentStatuses>>,
         \A n \in Names : releases[n] = <<>> => releases'[n] = <<>> \/ pc = "components"
  PROVE  WalkInv'
<1>1. \A n : Remembered(n)' = Remembered(n)
  BY DEF Remembered
<1>2. pc # "components" => \A n \in Names : Accounted(n) => Accounted(n)'
  BY <1>1 DEF Accounted
<1>3. Recorded(helmApp)' = Recorded(helmApp) /\ Recorded(helmApp) \subseteq Names
  BY DEF Recorded
<1>4. ComponentsReported'
  BY <1>1 DEF WalkInv, ComponentsReported
<1>5. LeftoversAccounted'
  BY <1>1, <1>2 DEF WalkInv, LeftoversAccounted, DesiredNames
<1>6. StatusAccounted'
  BY <1>2, <1>3 DEF WalkInv, StatusAccounted
<1>7. DeletionSkipsNothing'
  BY DEF WalkInv, DeletionSkipsNothing
<1> QED BY <1>4, <1>5, <1>6, <1>7 DEF WalkInv

(* A report remembers its component.                                       *)
LEMMA ReportsKeepsWalk ==
  ASSUME TypeInv, WalkInv, pc = "components", NEW status, NEW revision, NEW message,
         Reports(status, revision, message)
  PROVE  WalkInv'
<1> DEFINE new == [name |-> Current.name, status |-> status, version |-> revision,
                   message |-> message]
<1>1. /\ componentStatuses' = Append(componentStatuses, new)
      /\ idx' = idx + 1 /\ pc' = "components" /\ helmApp' = helmApp
  BY DEF Reports
<1>2. new.name = Current.name
  OBVIOUS
<1> HIDE DEF new
<1>3. /\ componentStatuses \in Seq(ComponentStatus) /\ idx \in Nat
      /\ helmApp.spec.components \in Seq(Component)
  BY AppFields DEF TypeInv, TypeOK
<1>4. \A n : Remembered(n) \/ n = Current.name => Remembered(n)'
  <2>1. componentStatuses \in Seq(ComponentStatus \cup {new})
    BY <1>3
  <2>2. /\ DOMAIN componentStatuses' = 1..Len(componentStatuses) + 1
        /\ \A k \in 1..Len(componentStatuses) : componentStatuses'[k] = componentStatuses[k]
        /\ componentStatuses'[Len(componentStatuses) + 1] = new
        /\ DOMAIN componentStatuses = 1..Len(componentStatuses) /\ Len(componentStatuses) \in Nat
    BY <1>1, <2>1, AppendProperties, LenProperties
  <2>3. ASSUME NEW n, Remembered(n) PROVE Remembered(n)'
    BY <2>2, <2>3 DEF Remembered
  <2>4. ASSUME NEW n, n = Current.name PROVE Remembered(n)'
    <3>1. Len(componentStatuses) + 1 \in DOMAIN componentStatuses'
      BY <2>2
    <3> QED BY <1>2, <2>2, <2>4, <3>1 DEF Remembered
  <2> QED BY <2>3, <2>4
<1>5. ComponentsReported'
  <2> SUFFICES ASSUME NEW k \in DOMAIN helmApp.spec.components, k < idx + 1,
                      NEW n, n = helmApp.spec.components[k].name
               PROVE  Remembered(n)'
    BY <1>1 DEF ComponentsReported, Remembered
  <2>1. k \in Nat
    BY <1>3, LenProperties
  <2>2. CASE k < idx
    BY <1>4, <2>2 DEF WalkInv, ComponentsReported
  <2>3. CASE k = idx
    BY <1>4, <2>3 DEF Current
  <2> QED BY <1>3, <2>1, <2>2, <2>3
<1> QED BY <1>1, <1>5 DEF WalkInv, LeftoversAccounted, StatusAccounted, DeletionSkipsNothing

LEMMA ComponentKeepsWalk ==
  ASSUME TypeInv, WalkInv, ReconcileComponent
  PROVE  WalkInv'
<1>1. CASE RepoMissing
  BY <1>1, IdleKeepsWalk DEF RepoMissing, Errs, Leaves
<1>2. CASE ChartUnavailable \/ HistoryFails \/ InstallRejected
  BY <1>2, ReportsKeepsWalk
     DEF ChartUnavailable, HistoryFails, InstallRejected, MustInstall, ChartLoaded, AtComponent
<1>3. CASE SkipsUnchanged \/ UpgradeRejected
  BY <1>3, ReportsKeepsWalk
     DEF SkipsUnchanged, UpgradeRejected, MustUpgrade, ReleaseExists, ChartLoaded, AtComponent
<1>4. CASE InstallStores \/ UpgradeStores
  <2>1. pc = "components" /\ UNCHANGED <<pc, helmApp, idx, componentStatuses>>
    BY <1>4 DEF InstallStores, UpgradeStores, MustInstall, MustUpgrade, ReleaseExists,
                ChartLoaded, AtComponent, Stays
  <2> QED BY <2>1, SameWalk
<1>5. CASE InstallSucceeds \/ InstallFails \/ InstallUnrecorded
  BY <1>5, ReportsKeepsWalk DEF InstallSucceeds, InstallFails, InstallUnrecorded, InstallEnds
<1>6. CASE UpgradeSucceeds \/ UpgradeFails \/ UpgradeUnrecorded
  BY <1>6, ReportsKeepsWalk DEF UpgradeSucceeds, UpgradeFails, UpgradeUnrecorded, UpgradeEnds
<1>7. CASE ComponentsDone
  <2>1. /\ pc = "components" /\ idx > Len(helmApp.spec.components)
        /\ pc' = "leftovers" /\ idx' = 1 /\ UNCHANGED <<helmApp, componentStatuses>>
    BY <1>7 DEF ComponentsDone
  <2>2. /\ helmApp.spec.components \in Seq(Component)
        /\ helmApp.status.components \in Seq(ComponentStatus) /\ idx \in Nat
    BY AppFields DEF TypeInv, TypeOK
  <2>3. \A n \in DesiredNames(helmApp) : Remembered(n)
    BY <2>1, <2>2, LenProperties DEF WalkInv, ComponentsReported, DesiredNames, ToSet
  <2>4. LeftoversAccounted'
    BY <2>1, <2>2, <2>3, LenProperties DEF LeftoversAccounted, DesiredNames, Remembered
  <2> QED BY <2>1, <2>4 DEF WalkInv, ComponentsReported, StatusAccounted, DeletionSkipsNothing
<1> QED BY <1>1, <1>2, <1>3, <1>4, <1>5, <1>6, <1>7 DEF ReconcileComponent

-----------------------------------------------------------------------------
(* The walks: uninstalling.                                                *)

LEMMA StartKeepsWalk ==
  ASSUME TypeInv, WalkInv,
         GetFindsNothing \/ GetFindsApp \/ AddsFinalizer \/ HelmInitFails
           \/ SpecMissing \/ StartsComponents \/ StartsDeletion
  PROVE  WalkInv'
<1>1. CASE GetFindsNothing \/ GetFindsApp
  BY <1>1, IdleKeepsWalk DEF GetFindsNothing, GetFindsApp, FirstStep, Dequeue
<1>2. CASE AddsFinalizer \/ HelmInitFails \/ SpecMissing
  BY <1>2, IdleKeepsWalk DEF AddsFinalizer, HelmInitFails, SpecMissing, Errs, Leaves
<1>3. CASE StartsComponents
  <2>1. pc' = "components" /\ idx' = 1 /\ helmApp' = helmApp
    BY <1>3 DEF StartsComponents
  <2>2. \A k \in DOMAIN helmApp.spec.components : ~(k < 1)
    BY AppFields, LenProperties DEF TypeInv, TypeOK
  <2> QED BY <2>1, <2>2
          DEF WalkInv, ComponentsReported, LeftoversAccounted, StatusAccounted,
              DeletionSkipsNothing
<1>4. CASE StartsDeletion
  <2>1. /\ pc' = "deleteComponents" /\ helmApp' = helmApp
        /\ idx' = Len(helmApp.status.components)
        /\ componentStatuses' = helmApp.status.components
    BY <1>4 DEF StartsDeletion, LastStatus
  <2>2. /\ DOMAIN helmApp.status.components = 1..Len(helmApp.status.components)
        /\ Len(helmApp.status.components) \in Nat
    BY AppFields, LenProperties DEF TypeInv, TypeOK
  <2>3. DeletionSkipsNothing'
    BY <2>1, <2>2 DEF DeletionSkipsNothing
  <2>4. StatusAccounted'
    BY <2>1, RecordedNames DEF StatusAccounted, Accounted, Remembered
  <2> QED BY <2>1, <2>3, <2>4 DEF WalkInv, ComponentsReported, LeftoversAccounted
<1> QED BY <1>1, <1>2, <1>3, <1>4

(* A status is left behind: in a deletion its release is gone, in the      *)
(* other walk its component may still be wanted.                           *)
LEMMA ClearsKeepsWalk ==
  ASSUME TypeInv, WalkInv, AtStatus, Clears,
         \A n \in Names : releases[n] = <<>> => releases'[n] = <<>>,
         Existing.name \in Names =>
           \/ releases'[Existing.name] = <<>>
           \/ pc = "leftovers" /\ Existing.name \in DesiredNames(helmApp)
  PROVE  WalkInv'
<1>1. CASE pc = "leftovers"
  <2>1. /\ pc' = "leftovers" /\ idx' = idx + 1 /\ idx \in Nat
        /\ UNCHANGED <<helmApp, componentStatuses>>
    BY <1>1 DEF Clears, TypeInv, TypeOK
  <2>2. \A n \in Names : Accounted(n) => Accounted(n)'
    BY <2>1 DEF Accounted, Remembered
  <2>3. ASSUME NEW k \in DOMAIN helmApp.status.components, k < idx + 1,
               NEW n \in Names, n = helmApp.status.components[k].name
        PROVE  Accounted(n)'
    <3>1. k \in Nat
      BY AppFields, LenProperties DEF TypeInv, TypeOK
    <3>2. CASE k < idx
      BY <1>1, <2>2, <2>3, <3>2 DEF WalkInv, LeftoversAccounted
    <3>3. CASE k = idx
      BY <1>1, <2>1, <2>3, <3>3
         DEF Existing, WalkInv, LeftoversAccounted, Accounted, Remembered
    <3> QED BY <2>1, <2>3, <3>1, <3>2, <3>3
  <2>4. LeftoversAccounted'
    BY <1>1, <2>1, <2>3
       DEF WalkInv, LeftoversAccounted, DesiredNames, Remembered, Accounted
  <2> QED BY <2>1, <2>4 DEF WalkInv, ComponentsReported, StatusAccounted, DeletionSkipsNothing
<1>2. CASE pc = "deleteComponents"
  <2>1. /\ pc' = "deleteComponents" /\ idx' = idx - 1 /\ helmApp' = helmApp
        /\ componentStatuses' = RemoveAt(componentStatuses, idx)
        /\ Existing = componentStatuses[idx]
        /\ idx \in 1..Len(componentStatuses) /\ Len(componentStatuses) \in Nat
    BY <1>2, ExistingIsStatus, LenProperties DEF Clears, Others, Existing, TypeInv, TypeOK
  <2>2. /\ DOMAIN componentStatuses = 1..Len(componentStatuses)
        /\ DOMAIN componentStatuses' = 1..Len(componentStatuses) - 1
        /\ Len(componentStatuses') = Len(componentStatuses) - 1
        /\ \A j \in 1..Len(componentStatuses) - 1 :
             componentStatuses'[j]
               = IF j < idx THEN componentStatuses[j] ELSE componentStatuses[j + 1]
    BY <2>1, RemoveAtIsSeq, LenProperties DEF TypeInv, TypeOK
  <2>3. DeletionSkipsNothing'
    <3>1. /\ \A j \in 1..idx : componentStatuses[j] = helmApp.status.components[j]
          /\ \A j \in DOMAIN componentStatuses : j > idx => componentStatuses[j].status = "failed"
      BY <1>2 DEF WalkInv, DeletionSkipsNothing
    <3>2. \A j \in 1..idx - 1 : componentStatuses'[j] = helmApp.status.components[j]
      BY <2>1, <2>2, <3>1
    <3>3. ASSUME NEW j \in DOMAIN componentStatuses', j > idx - 1
          PROVE  componentStatuses'[j].status = "failed"
      <4>1. j + 1 \in DOMAIN componentStatuses /\ j + 1 > idx
        BY <2>1, <2>2, <3>3
      <4>2. componentStatuses'[j] = componentStatuses[j + 1]
        BY <2>1, <2>2, <3>3
      <4> QED BY <3>1, <4>1, <4>2
    <3> QED BY <2>1, <2>2, <3>2, <3>3 DEF DeletionSkipsNothing
  <2>4. ASSUME NEW n \in Names, Accounted(n)
        PROVE  Accounted(n)'
    <3>1. CASE releases[n] = <<>> \/ n = Existing.name
      BY <1>2, <3>1 DEF Accounted
    <3>2. ASSUME NEW k \in DOMAIN componentStatuses, componentStatuses[k].name = n,
                 n # Existing.name
          PROVE  Remembered(n)'
      <4>1. k \in 1..Len(componentStatuses) /\ k # idx
        BY <2>1, <2>2, <3>2
      <4>2. CASE k < idx
        <5>1. k \in DOMAIN componentStatuses' /\ componentStatuses'[k] = componentStatuses[k]
          BY <2>1, <2>2, <4>1, <4>2
        <5> QED BY <3>2, <5>1 DEF Remembered
      <4>3. CASE k > idx
        <5>1. /\ k - 1 \in DOMAIN componentStatuses'
              /\ componentStatuses'[k - 1] = componentStatuses[k]
          BY <2>1, <2>2, <4>1, <4>3
        <5> QED BY <3>2, <5>1 DEF Remembered
      <4> QED BY <2>1, <4>1, <4>2, <4>3
    <3> QED BY <2>4, <3>1, <3>2 DEF Accounted, Remembered
  <2>5. StatusAccounted'
    BY <1>2, <2>1, <2>4 DEF WalkInv, StatusAccounted, Recorded
  <2> QED BY <2>1, <2>3, <2>5 DEF WalkInv, ComponentsReported, LeftoversAccounted
<1> QED BY <1>1, <1>2 DEF AtStatus

(* A failed uninstall stays in the list.                                   *)
LEMMA UninstallFailsKeepsWalk ==
  ASSUME TypeInv, WalkInv, UninstallFails
  PROVE  WalkInv'
<1>1. /\ AtStatus /\ ToUninstall /\ Existing \in ComponentStatus
      /\ UNCHANGED <<pc, helmApp>>
      /\ idx \in Nat /\ componentStatuses \in Seq(ComponentStatus)
      /\ releases \in [Names -> Seq(Revision)]
  BY ExistingIsStatus DEF UninstallFails, ToUninstall, TypeInv, TypeOK
<1>2. \A n \in Names : releases[n] = <<>> => releases'[n] = <<>>
  BY <1>1 DEF UninstallFails
<1>3. CASE pc = "leftovers"
  <2>1. idx' = idx + 1 /\ componentStatuses' = Append(componentStatuses, Failed(Existing))
    BY <1>3 DEF UninstallFails
  <2>2. Failed(Existing) \in ComponentStatus /\ Failed(Existing).name = Existing.name
    BY <1>1, FailedIsStatus DEF Failed, ComponentStatus
  <2>3. \A n : Remembered(n) \/ n = Existing.name => Remembered(n)'
    <3>1. /\ DOMAIN componentStatuses' = 1..Len(componentStatuses) + 1
          /\ \A k \in 1..Len(componentStatuses) : componentStatuses'[k] = componentStatuses[k]
          /\ componentStatuses'[Len(componentStatuses) + 1] = Failed(Existing)
          /\ DOMAIN componentStatuses = 1..Len(componentStatuses)
          /\ Len(componentStatuses) + 1 \in 1..Len(componentStatuses) + 1
          /\ 1..Len(componentStatuses) \subseteq 1..Len(componentStatuses) + 1
      BY <1>1, <2>1, <2>2, AppendProperties, LenProperties
    <3> QED BY <2>2, <3>1 DEF Remembered
  <2>4. ASSUME NEW k \in DOMAIN helmApp.status.components, k < idx + 1,
               NEW n \in Names, n = helmApp.status.components[k].name
        PROVE  Accounted(n)'
    <3>1. k \in Nat
      BY AppFields, LenProperties DEF TypeInv, TypeOK
    <3>2. CASE k < idx
      BY <1>2, <1>3, <2>3, <2>4, <3>2 DEF WalkInv, LeftoversAccounted, Accounted
    <3>3. CASE k = idx
      BY <1>3, <2>3, <2>4, <3>3 DEF Existing, Accounted
    <3> QED BY <1>1, <2>4, <3>1, <3>2, <3>3
  <2>5. LeftoversAccounted'
    <3>1. idx >= 1 /\ \A n \in DesiredNames(helmApp) : Remembered(n)
      BY <1>3 DEF WalkInv, LeftoversAccounted
    <3>2. idx' >= 1 /\ DesiredNames(helmApp)' = DesiredNames(helmApp)
      BY <1>1, <2>1, <3>1 DEF DesiredNames
    <3>3. \A n \in DesiredNames(helmApp)' : Remembered(n)'
      BY <2>3, <3>1, <3>2
    <3> QED BY <1>1, <2>1, <2>4, <3>2, <3>3 DEF LeftoversAccounted, Accounted, Remembered
  <2> QED BY <1>1, <1>3, <2>5
          DEF WalkInv, ComponentsReported, StatusAccounted, DeletionSkipsNothing
<1>4. CASE pc = "deleteComponents"
  <2>1. /\ idx' = idx - 1 /\ idx \in 1..Len(componentStatuses)
        /\ componentStatuses' = [componentStatuses EXCEPT ![idx] = Failed(componentStatuses[idx])]
        /\ DOMAIN componentStatuses = 1..Len(componentStatuses)
        /\ Len(componentStatuses) \in Nat
    BY <1>1, <1>4, ExistingIsStatus, LenProperties DEF UninstallFails
  <2>2. /\ Failed(componentStatuses[idx]).name = componentStatuses[idx].name
        /\ Failed(componentStatuses[idx]).status = "failed"
    BY <1>1, <1>4 DEF Failed, ComponentStatus, Existing
  <2>3. Len(componentStatuses') = Len(componentStatuses)
    BY <2>1, <1>1, ExceptSeq, FailedIsStatus, ElementOfSeq
  <2>4. DeletionSkipsNothing'
    BY <1>1, <1>4, <2>1, <2>2, <2>3 DEF WalkInv, DeletionSkipsNothing
  <2>5. \A n : Remembered(n) => Remembered(n)'
    BY <2>1, <2>2 DEF Remembered
  <2>6. StatusAccounted'
    BY <1>1, <1>2, <1>4, <2>5 DEF WalkInv, StatusAccounted, Recorded, Accounted
  <2> QED BY <1>1, <1>4, <2>4, <2>6 DEF WalkInv, ComponentsReported, LeftoversAccounted
<1> QED BY <1>1, <1>3, <1>4 DEF AtStatus

LEMMA UninstallKeepsWalk ==
  ASSUME TypeInv, WalkInv, Uninstall
  PROVE  WalkInv'
<1>1. releases \in [Names -> Seq(Revision)]
  BY DEF TypeInv, TypeOK
<1>2. CASE NothingToUninstall
  BY <1>2, ClearsKeepsWalk, HelmAssumption DEF NothingToUninstall, ToUninstall
<1>3. CASE FindsNoRelease
  BY <1>3, ClearsKeepsWalk DEF FindsNoRelease, ToUninstall
<1>4. CASE UninstallStarts
  <2> DEFINE h == releases[Existing.name]
  <2>1. /\ h # <<>> /\ UNCHANGED <<pc, helmApp, idx, componentStatuses>>
        /\ releases' = [releases EXCEPT ![Existing.name] = WithStatus(h, Len(h), "uninstalling")]
    BY <1>4 DEF UninstallStarts, Stays
  <2>2. \A n \in Names : releases[n] = <<>> => releases'[n] = <<>>
    BY <1>1, <2>1
  <2> QED BY <2>1, <2>2, SameWalk
<1>5. CASE Uninstalled
  BY <1>1, <1>5, ClearsKeepsWalk DEF Uninstalled, ToUninstall
<1>6. CASE UninstallFails
  BY <1>6, UninstallFailsKeepsWalk
<1>7. CASE LeftoversDone
  <2>1. /\ pc = "leftovers" /\ idx \notin DOMAIN helmApp.status.components
        /\ pc' = "updateStatus" /\ UNCHANGED <<helmApp, componentStatuses, releases>>
    BY <1>7 DEF LeftoversDone, AtStatus
  <2>2. /\ DOMAIN helmApp.status.components = 1..Len(helmApp.status.components)
        /\ Len(helmApp.status.components) \in Nat /\ idx \in Nat /\ idx >= 1
    BY <2>1, AppFields, LenProperties DEF TypeInv, TypeOK, WalkInv, LeftoversAccounted
  <2>3. \A k \in DOMAIN helmApp.status.components : k < idx
    BY <2>1, <2>2
  <2>4. \A n \in Recorded(helmApp) : Accounted(n)
    BY <2>1, <2>3, RecordedNames DEF WalkInv, LeftoversAccounted
  <2>5. StatusAccounted'
    BY <2>1, <2>4 DEF StatusAccounted, Recorded, Accounted, Remembered
  <2> QED BY <2>1, <2>5 DEF WalkInv, ComponentsReported, LeftoversAccounted, DeletionSkipsNothing
<1> QED BY <1>2, <1>3, <1>4, <1>5, <1>6, <1>7 DEF Uninstall

-----------------------------------------------------------------------------
(* Writing.  Only the status write of a deletion goes on.                  *)

LEMMA WriteKeepsWalk ==
  ASSUME TypeInv, WalkInv,
         WritesStatus \/ DeletePanics \/ WritesDeleteStatus \/ RemovesFinalizer \/ WriteFails
  PROVE  WalkInv'
<1>1. CASE WritesStatus \/ RemovesFinalizer
  BY <1>1, IdleKeepsWalk DEF WritesStatus, RemovesFinalizer, Returns, Leaves
<1>2. CASE DeletePanics \/ WriteFails
  BY <1>2, IdleKeepsWalk DEF DeletePanics, WriteFails, Errs, Leaves
<1>3. CASE WritesDeleteStatus
  <2>1. CASE componentStatuses = <<>>
    <3>1. /\ pc' = "removeFinalizer" /\ helmApp' = [helmApp EXCEPT !.status = NewStatus]
          /\ helmApp \in App
      BY <1>3, <2>1 DEF WritesDeleteStatus, AllUninstalled, TypeInv, TypeOK
    <3>2. helmApp'.status.components = <<>>
      BY <2>1, <3>1 DEF App, NewStatus
    <3> QED BY <3>1, <3>2
            DEF WalkInv, ComponentsReported, LeftoversAccounted, StatusAccounted,
                DeletionSkipsNothing
  <2>2. CASE componentStatuses # <<>>
    BY <1>3, <2>2, IdleKeepsWalk DEF WritesDeleteStatus, AllUninstalled, Returns, Leaves
  <2> QED BY <2>1, <2>2
<1> QED BY <1>1, <1>2, <1>3

(* What a write of the worker stores is still held, and forgets nothing.   *)
LEMMA WrittenKeepsMemory ==
  ASSUME TypeInv, HeldInv, WalkInv, UnheldIsEmpty, appFresh, Writing
  PROVE  /\ Written.finalizer => Written.present
         /\ Written.deleting => Written.finalizer
         /\ ~Written.finalizer => Written.status.components = <<>>
         /\ \A n \in Recorded(stored) \ Recorded(Written) : releases[n] = <<>>
<1>1. helmApp \in App /\ helmApp = stored /\ helmApp.present
  BY DEF TypeInv, TypeOK, HeldInv, FreshCopies, PathFollowsCopy, Writing, AllProcessed
<1>2. CASE pc = "addFinalizer"
  <2>1. /\ Written.finalizer /\ Written.present /\ Written.status = helmApp.status
    BY <1>1, <1>2 DEF Written, App
  <2> QED BY <1>1, <2>1 DEF Recorded
<1>3. CASE pc = "removeFinalizer"
  <2>1. Written = NoApp
    BY <1>3 DEF Written
  <2>2. stored.status.components = <<>>
    BY <1>1, <1>3 DEF WalkInv, StatusAccounted
  <2>3. Recorded(stored) = {}
    BY <2>2, RecordedNames
  <2> QED BY <2>1, <2>3 DEF NoApp, NilStatus
<1>4. CASE pc = "updateStatus" \/ pc = "deleteComponents"
  <2>1. Written = [helmApp EXCEPT !.status = NewStatus]
    BY <1>4 DEF Written
  <2>2. /\ Written.present /\ Written.finalizer = helmApp.finalizer
        /\ Written.status.components = componentStatuses
    BY <1>1, <2>1 DEF App, NewStatus
  <2>3. helmApp.finalizer
    <3>1. CASE helmApp.deleting
      BY <1>1, <3>1 DEF UnheldIsEmpty
    <3>2. CASE ~helmApp.deleting
      BY <1>1, <1>4, <3>2 DEF HeldInv, CopiesAreHeld, Held
    <3> QED BY <3>1, <3>2
  <2>4. \A n \in Recorded(stored) : Accounted(n)
    BY <1>1, <1>4 DEF WalkInv, StatusAccounted
  <2>5. \A n \in Recorded(stored) : Remembered(n) => n \in Recorded(Written)
    BY <2>2, RecordedNames DEF Remembered
  <2> QED BY <2>2, <2>3, <2>4, <2>5 DEF Accounted
<1> QED BY <1>2, <1>3, <1>4 DEF Writing, AllProcessed

(* Every step of the worker leaves the stored object alone or stores what  *)
(* Written says, from a fresh copy and without touching a release.         *)
StoresWritten == appFresh /\ Writing /\ stored' = Written

LEMMA WorkerStores ==
  ASSUME HeldInv, Reconcile
  PROVE  UNCHANGED stored \/ StoresWritten
<1>1. CASE ReconcileComponent
  BY <1>1, ComponentWritesNothing DEF WritesNothing, server
<1>2. CASE Uninstall
  BY <1>2, UninstallWritesNothing DEF WritesNothing, server
<1>3. CASE GetFindsNothing \/ GetFindsApp \/ HelmInitFails \/ SpecMissing
             \/ StartsComponents \/ StartsDeletion \/ DeletePanics
  BY <1>3 DEF GetFindsNothing, GetFindsApp, Dequeue, HelmInitFails, SpecMissing,
              StartsComponents, StartsDeletion, DeletePanics, server
<1>4. CASE AddsFinalizer
  BY <1>4 DEF AddsFinalizer, Stores, StoresWritten, Writing, Written
<1>5. CASE WritesStatus
  BY <1>5 DEF WritesStatus, Stores, StoresWritten, Writing, Written
<1>6. CASE WritesDeleteStatus
  BY <1>6 DEF WritesDeleteStatus, AllUninstalled, Stores, StoresWritten, Writing, Written, AllProcessed
<1>7. CASE RemovesFinalizer
  BY <1>7 DEF RemovesFinalizer, Stores, StoresWritten, Writing, Written
<1>8. CASE WriteFails
  BY <1>8 DEF WriteFails, Stores, StoresWritten, server
<1> QED BY <1>1, <1>2, <1>3, <1>4, <1>5, <1>6, <1>7, <1>8 DEF Reconcile

(* A user's write does not touch the status of an object that is held.     *)
LEMMA UserKeepsMemory ==
  ASSUME TypeInv, UnheldIsEmpty, User
  PROVE  UnheldIsEmpty' /\ Recorded(stored) \subseteq Recorded(stored')
<1>1. stored \in App
  BY DEF TypeInv, TypeOK
<1>2. stored.status.components = <<>> => Recorded(stored) = {}
  BY RecordedNames
<1>3. CASE UserCreates
  <2>1. PICK s \in Specs : stored' = [NoApp EXCEPT !.present = TRUE, !.spec = s]
    BY <1>3 DEF UserCreates, UserWrites
  <2>2. ~stored.present
    BY <1>3 DEF UserCreates
  <2> QED BY <1>2, <2>1, <2>2 DEF UnheldIsEmpty, NoApp, NilStatus
<1>4. CASE UserUpdates
  <2>1. PICK s \in Specs : stored' = [stored EXCEPT !.spec = s]
    BY <1>4 DEF UserUpdates, UserWrites
  <2> QED BY <1>1, <2>1 DEF UnheldIsEmpty, Recorded, App
<1>5. CASE UserDeletes
  <2>1. CASE stored.finalizer
    <3>1. stored' = [stored EXCEPT !.deleting = TRUE]
      BY <1>5, <2>1 DEF UserDeletes, UserWrites
    <3> QED BY <1>1, <2>1, <3>1 DEF UnheldIsEmpty, Recorded, App
  <2>2. CASE ~stored.finalizer
    <3>1. stored' = NoApp
      BY <1>5, <2>2 DEF UserDeletes, UserWrites
    <3> QED BY <1>2, <2>2, <3>1 DEF UnheldIsEmpty, NoApp, NilStatus
  <2> QED BY <2>1, <2>2
<1> QED BY <1>3, <1>4, <1>5 DEF User

-----------------------------------------------------------------------------
(* Together.                                                               *)

MemoryInv == WalkInv /\ UnheldIsEmpty

LEMMA WalkInvStep ==
  ASSUME TypeInv, WalkInv, [Next]_vars
  PROVE  WalkInv'
<1>1. CASE UNCHANGED vars
  BY <1>1, SameWalk DEF vars, local
<1>2. CASE User
  BY <1>2, SameWalk DEF User, UserCreates, UserUpdates, UserDeletes, UserWrites
<1>3. CASE Deliver \/ Resync \/ DelayExpires
  BY <1>3, SameWalk DEF Deliver, Resync, DelayExpires, local
<1>4. CASE Crash
  BY <1>4, IdleKeepsWalk DEF Crash, Leaves
<1>5. CASE Reconcile
  BY <1>5, StartKeepsWalk, ComponentKeepsWalk, UninstallKeepsWalk, WriteKeepsWalk DEF Reconcile
<1> QED BY <1>1, <1>2, <1>3, <1>4, <1>5 DEF Next

(* What a step stores: nothing, a user's write, or the worker's.           *)
LEMMA StoringSteps ==
  ASSUME HeldInv, [Next]_vars
  PROVE  UNCHANGED stored \/ User \/ StoresWritten
<1>1. CASE UNCHANGED vars \/ Deliver \/ Resync \/ DelayExpires \/ Crash
  BY <1>1 DEF vars, Deliver, Resync, DelayExpires, Crash, server
<1>2. CASE Reconcile
  BY <1>2, WorkerStores
<1> QED BY <1>1, <1>2 DEF Next

LEMMA MemoryInvStep == TypeInv /\ HeldInv /\ MemoryInv /\ [Next]_vars => MemoryInv'
<1> SUFFICES ASSUME TypeInv, HeldInv, MemoryInv, [Next]_vars PROVE MemoryInv'
  OBVIOUS
<1>1. WalkInv'
  BY WalkInvStep DEF MemoryInv
<1>2. CASE UNCHANGED stored
  BY <1>1, <1>2 DEF MemoryInv, UnheldIsEmpty
<1>3. CASE User
  BY <1>1, <1>3, UserKeepsMemory DEF MemoryInv
<1>4. CASE StoresWritten
  BY <1>1, <1>4, WrittenKeepsMemory DEF MemoryInv, UnheldIsEmpty, StoresWritten
<1> QED BY <1>2, <1>3, <1>4, StoringSteps

LEMMA MemoryInvInit == Init => MemoryInv
BY IdleKeepsWalk
   DEF Init, MemoryInv, WalkInv, ComponentsReported, LeftoversAccounted, StatusAccounted,
       DeletionSkipsNothing, UnheldIsEmpty, NoApp, NilStatus

(* reconcileDelete removes entries from the list it is walking, by index   *)
(* and from the end: for lists of any length, and wherever uninstalls      *)
(* fail, it visits every status and keeps exactly failed ones.             *)
THEOREM DeletionVisitsAll == Spec => []DeletionSkipsNothing
<1>1. MemoryInv => DeletionSkipsNothing
  BY DEF MemoryInv, WalkInv
<1> QED BY <1>1, HeldInvInit, HeldInvStep, TypeInvInit, TypeInvStep, MemoryInvInit,
           MemoryInvStep, PTL DEF Spec

(* A component leaves the stored status only after its release is gone,    *)
(* for any number of components, edits, faults, crashes and stale reads.   *)
THEOREM NothingIsForgotten == Spec => RecordedUntilGone
<1>1. TypeInv /\ HeldInv /\ MemoryInv /\ [Next]_vars
        => [\A n \in Recorded(stored) \ Recorded(stored') : releases[n] = <<>>]_vars
  <2> SUFFICES ASSUME TypeInv, HeldInv, MemoryInv, [Next]_vars,
                      NEW n \in Recorded(stored) \ Recorded(stored')
               PROVE  releases[n] = <<>>
    OBVIOUS
  <2>1. CASE UNCHANGED stored
    BY <2>1
  <2>2. CASE User
    BY <2>2, UserKeepsMemory DEF MemoryInv
  <2>3. CASE StoresWritten
    BY <2>3, WrittenKeepsMemory DEF MemoryInv, StoresWritten
  <2> QED BY <2>1, <2>2, <2>3, StoringSteps
<1> QED BY <1>1, HeldInvInit, HeldInvStep, TypeInvInit, TypeInvStep, MemoryInvInit,
           MemoryInvStep, PTL DEF Spec, RecordedUntilGone

-----------------------------------------------------------------------------
(* Wake-ups: what the controller leaves alone has been answered.           *)

(* The list of statuses names the components of the spec in their order,   *)
(* and after them failed uninstalls.                                       *)
Answers(statuses, components, n) ==
  /\ Len(statuses) >= n
  /\ \A k \in 1..n : statuses[k].name = components[k].name
  /\ \A k \in 1..Len(statuses) : k > n => statuses[k].status = "failed"

ComponentsAnswered ==
  pc = "components" =>
    /\ idx >= 1 /\ idx <= Len(helmApp.spec.components) + 1
    /\ Len(componentStatuses) = idx - 1
    /\ Answers(componentStatuses, helmApp.spec.components, idx - 1)

SpecAnswered ==
  pc \in {"leftovers", "updateStatus"} =>
    Answers(componentStatuses, helmApp.spec.components, Len(helmApp.spec.components))

AnswerInv == ComponentsAnswered /\ SpecAnswered

(* Past the finalizer a copy that is not terminating carries it.           *)
CopyIsHeld == pc \notin {"idle", "addFinalizer"} /\ ~helmApp.deleting => helmApp.finalizer

(* The worker's copy is the stored object, unless the informer still has   *)
(* something to deliver or has queued the key again.                       *)
CopyIsCurrent == pc # "idle" /\ cacheFresh /\ ~queued => appFresh

Processed(app) ==
  app.present =>
    /\ ~app.deleting /\ app.finalizer
    /\ app.status.set /\ app.status.phase # "FAILED"
    /\ StatusNames(app) = SpecNames(app)

NobodyWaits == Quiescent => Processed(stored)

WakeInv == CopyIsHeld /\ CopyIsCurrent /\ NobodyWaits

-----------------------------------------------------------------------------
(* The list of statuses.                                                   *)

LEMMA ListTypes ==
  ASSUME TypeInv
  PROVE  /\ helmApp.spec.components \in Seq(Component)
         /\ DOMAIN helmApp.spec.components = 1..Len(helmApp.spec.components)
         /\ Len(helmApp.spec.components) \in Nat
         /\ componentStatuses \in Seq(ComponentStatus)
         /\ DOMAIN componentStatuses = 1..Len(componentStatuses)
         /\ Len(componentStatuses) \in Nat
         /\ idx \in Nat
<1>1. helmApp.spec.components \in Seq(Component) /\ componentStatuses \in Seq(ComponentStatus)
  BY AppFields DEF TypeInv, TypeOK
<1> QED BY <1>1, LenProperties DEF TypeInv, TypeOK

LEMMA Appended ==
  ASSUME TypeInv, NEW s, componentStatuses' = Append(componentStatuses, s)
  PROVE  /\ Len(componentStatuses') = Len(componentStatuses) + 1
         /\ \A k \in 1..Len(componentStatuses) : componentStatuses'[k] = componentStatuses[k]
         /\ componentStatuses'[Len(componentStatuses) + 1] = s
<1>1. componentStatuses \in Seq(ComponentStatus \cup {s})
  BY ListTypes
<1> QED BY <1>1, AppendProperties

LEMMA SameList ==
  ASSUME AnswerInv, UNCHANGED <<helmApp, componentStatuses>>,
         \/ UNCHANGED <<pc, idx>>
         \/ pc' = pc /\ pc # "components"
         \/ pc \in {"leftovers", "updateStatus"} /\ pc' # "components"
         \/ pc' \notin {"components", "leftovers", "updateStatus"}
  PROVE  AnswerInv'
BY DEF AnswerInv, ComponentsAnswered, SpecAnswered, Answers

LEMMA LeavingAnswers ==
  ASSUME pc' \notin {"components", "leftovers", "updateStatus"}
  PROVE  AnswerInv'
BY DEF AnswerInv, ComponentsAnswered, SpecAnswered

LEMMA ReportsAnswers ==
  ASSUME TypeInv, AnswerInv, pc = "components", idx \in DOMAIN helmApp.spec.components,
         NEW status, NEW revision, NEW message, Reports(status, revision, message)
  PROVE  AnswerInv'
<1> DEFINE s == [name |-> Current.name, status |-> status, version |-> revision,
                 message |-> message]
<1>1. /\ componentStatuses' = Append(componentStatuses, s)
      /\ idx' = idx + 1 /\ pc' = "components" /\ helmApp' = helmApp
  BY DEF Reports
<1>2. s.name = helmApp.spec.components[idx].name
  BY DEF Current
<1> HIDE DEF s
<1>3. /\ Len(componentStatuses) = idx - 1 /\ idx >= 1 /\ idx <= Len(helmApp.spec.components)
      /\ \A k \in 1..idx - 1 : componentStatuses[k].name = helmApp.spec.components[k].name
  BY ListTypes DEF AnswerInv, ComponentsAnswered, Answers
<1>4. /\ Len(componentStatuses') = idx
      /\ \A k \in 1..idx - 1 : componentStatuses'[k] = componentStatuses[k]
      /\ componentStatuses'[idx] = s
  BY <1>1, <1>3, Appended, ListTypes
<1>5. \A k \in 1..idx : componentStatuses'[k].name = helmApp.spec.components[k].name
  BY <1>2, <1>3, <1>4, ListTypes
<1> QED BY <1>1, <1>3, <1>4, <1>5, ListTypes
        DEF AnswerInv, ComponentsAnswered, SpecAnswered, Answers

LEMMA ComponentAnswers ==
  ASSUME TypeInv, AnswerInv, ReconcileComponent
  PROVE  AnswerInv'
<1>1. CASE RepoMissing
  BY <1>1, LeavingAnswers DEF RepoMissing, Errs, Leaves
<1>2. CASE ChartUnavailable \/ HistoryFails \/ InstallRejected
  BY <1>2, ReportsAnswers
     DEF ChartUnavailable, HistoryFails, InstallRejected, MustInstall, ChartLoaded, AtComponent
<1>3. CASE SkipsUnchanged \/ UpgradeRejected
  BY <1>3, ReportsAnswers
     DEF SkipsUnchanged, UpgradeRejected, MustUpgrade, ReleaseExists, ChartLoaded, AtComponent
<1>4. CASE InstallStores \/ UpgradeStores
  BY <1>4, SameList DEF InstallStores, UpgradeStores, Stays
<1>5. CASE InstallSucceeds \/ InstallFails \/ InstallUnrecorded
  BY <1>5, ReportsAnswers
     DEF InstallSucceeds, InstallFails, InstallUnrecorded, InstallEnds, TypeInv, AtHelmAction
<1>6. CASE UpgradeSucceeds \/ UpgradeFails \/ UpgradeUnrecorded
  BY <1>6, ReportsAnswers
     DEF UpgradeSucceeds, UpgradeFails, UpgradeUnrecorded, UpgradeEnds, TypeInv, AtHelmAction
<1>7. CASE ComponentsDone
  <2>1. /\ pc = "components" /\ idx > Len(helmApp.spec.components)
        /\ pc' = "leftovers" /\ UNCHANGED <<helmApp, componentStatuses>>
    BY <1>7 DEF ComponentsDone
  <2>2. idx - 1 = Len(helmApp.spec.components)
    BY <2>1, ListTypes DEF AnswerInv, ComponentsAnswered
  <2> QED BY <2>1, <2>2 DEF AnswerInv, ComponentsAnswered, SpecAnswered, Answers
<1> QED BY <1>1, <1>2, <1>3, <1>4, <1>5, <1>6, <1>7 DEF ReconcileComponent

LEMMA UninstallAnswers ==
  ASSUME TypeInv, AnswerInv, Uninstall
  PROVE  AnswerInv'
<1>1. ASSUME pc = "deleteComponents", UNCHANGED pc PROVE AnswerInv'
  BY <1>1, LeavingAnswers
<1>2. CASE Clears /\ AtStatus
  BY <1>1, <1>2, SameList DEF Clears, AtStatus
<1>3. CASE UninstallStarts
  BY <1>3, SameList DEF UninstallStarts, Stays
<1>4. CASE UninstallFails
  <2>1. CASE pc = "deleteComponents"
    BY <1>1, <1>4, <2>1 DEF UninstallFails
  <2>2. CASE pc = "leftovers"
    <3>1. /\ componentStatuses' = Append(componentStatuses, Failed(Existing))
          /\ pc' = pc /\ helmApp' = helmApp
      BY <1>4, <2>2 DEF UninstallFails
    <3>2. Failed(Existing).status = "failed"
      <4>1. idx \in DOMAIN helmApp.status.components /\ Existing = helmApp.status.components[idx]
        BY <1>4, <2>2 DEF UninstallFails, ToUninstall, AtStatus, Existing
      <4>2. Existing \in ComponentStatus
        BY <4>1, AppFields, LenProperties, ElementOfSeq DEF TypeInv, TypeOK
      <4> QED BY <4>2 DEF Failed, ComponentStatus
    <3>3. /\ Len(componentStatuses') = Len(componentStatuses) + 1
          /\ \A k \in 1..Len(componentStatuses) : componentStatuses'[k] = componentStatuses[k]
          /\ componentStatuses'[Len(componentStatuses) + 1].status = "failed"
      BY <3>1, <3>2, Appended
    <3>4. Answers(componentStatuses', helmApp.spec.components, Len(helmApp.spec.components))
      BY <2>2, <3>3, ListTypes DEF AnswerInv, SpecAnswered, Answers
    <3> QED BY <2>2, <3>1, <3>4 DEF AnswerInv, ComponentsAnswered, SpecAnswered
  <2> QED BY <1>4, <2>1, <2>2 DEF UninstallFails, ToUninstall, AtStatus
<1>5. CASE LeftoversDone
  BY <1>5, SameList DEF LeftoversDone
<1> QED BY <1>2, <1>3, <1>4, <1>5
        DEF Uninstall, NothingToUninstall, FindsNoRelease, Uninstalled, ToUninstall

LEMMA AnswerInvStep == TypeInv /\ AnswerInv /\ [Next]_vars => AnswerInv'
<1> SUFFICES ASSUME TypeInv, AnswerInv, [Next]_vars PROVE AnswerInv'
  OBVIOUS
<1>1. CASE UNCHANGED vars
  BY <1>1, SameList DEF vars, local
<1>2. CASE User
  <2>1. UNCHANGED <<pc, idx, helmApp, componentStatuses>>
    BY <1>2 DEF User, UserCreates, UserUpdates, UserDeletes, UserWrites
  <2> QED BY <2>1, SameList
<1>3. CASE Deliver \/ Resync \/ DelayExpires
  BY <1>3, SameList DEF Deliver, Resync, DelayExpires, local
<1>4. CASE Crash \/ HelmInitFails \/ SpecMissing
  BY <1>4, LeavingAnswers DEF Crash, HelmInitFails, SpecMissing, Errs, Leaves
<1>5. CASE GetFindsNothing \/ GetFindsApp \/ AddsFinalizer \/ StartsDeletion
  BY <1>5, LeavingAnswers
     DEF GetFindsNothing, GetFindsApp, FirstStep, Dequeue, AddsFinalizer, StartsDeletion
<1>6. CASE StartsComponents
  BY <1>6, EmptySeq, ListTypes
     DEF StartsComponents, AnswerInv, ComponentsAnswered, SpecAnswered, Answers
<1>7. CASE ReconcileComponent \/ Uninstall
  BY <1>7, ComponentAnswers, UninstallAnswers
<1>8. CASE WritesStatus \/ DeletePanics \/ WritesDeleteStatus \/ RemovesFinalizer \/ WriteFails
  BY <1>8, LeavingAnswers
     DEF WritesStatus, DeletePanics, WritesDeleteStatus, RemovesFinalizer, WriteFails, Errs,
         Returns, Leaves
<1> QED BY <1>1, <1>2, <1>3, <1>4, <1>5, <1>6, <1>7, <1>8 DEF Next, Reconcile

-----------------------------------------------------------------------------
(* The wake-ups.                                                           *)

(* A failed component shows in the phase, and the phase asks for a retry.  *)
LEMMA FailureShows ==
  ASSUME ~helmApp.deleting, NEW k \in DOMAIN componentStatuses,
         componentStatuses[k].status = "failed"
  PROVE  NewStatus.phase = "FAILED"
<1>1. "failed" \in {s.status : s \in ToSet(componentStatuses)}
  BY DEF ToSet
<1> QED BY <1>1 DEF NewStatus, CalculateOverallPhase

LEMMA StatusIsAnswer ==
  ASSUME TypeInv, HeldInv, AnswerInv, WakeInv, pc = "updateStatus", ~AsksForRetry
  PROVE  Processed([helmApp EXCEPT !.status = NewStatus])
<1> DEFINE new == [helmApp EXCEPT !.status = NewStatus]
<1>1. helmApp \in App /\ ~helmApp.deleting /\ helmApp.finalizer
  BY DEF TypeInv, TypeOK, HeldInv, PathFollowsCopy, WakeInv, CopyIsHeld
<1>2. /\ new.deleting = helmApp.deleting /\ new.finalizer = helmApp.finalizer
      /\ new.status = NewStatus /\ new.spec = helmApp.spec
  BY <1>1 DEF App
<1>3. \A k \in 1..Len(componentStatuses) : componentStatuses[k].status # "failed"
  BY <1>1, FailureShows, ListTypes DEF AsksForRetry
<1>4. /\ Len(componentStatuses) = Len(helmApp.spec.components)
      /\ \A k \in 1..Len(componentStatuses) :
           componentStatuses[k].name = helmApp.spec.components[k].name
  BY <1>3, ListTypes DEF AnswerInv, SpecAnswered, Answers
<1>5. NewStatus.set /\ NewStatus.phase # "FAILED" /\ NewStatus.components = componentStatuses
  BY DEF NewStatus, AsksForRetry
<1> HIDE DEF new
<1>6. StatusNames(new) = SpecNames(new)
  BY <1>2, <1>4, <1>5, ListTypes DEF StatusNames, SpecNames
<1> QED BY <1>1, <1>2, <1>5, <1>6 DEF Processed, new

LEMMA WritesWake ==
  ASSUME TypeInv, HeldInv, AnswerInv, WakeInv,
         \/ AddsFinalizer \/ WritesStatus \/ WritesDeleteStatus \/ RemovesFinalizer
         \/ DeletePanics \/ WriteFails
  PROVE  WakeInv'
<1> USE DEF WakeInv, CopyIsHeld, CopyIsCurrent, NobodyWaits, Quiescent
<1>1. CASE AddsFinalizer
  <2>1. [helmApp EXCEPT !.finalizer = TRUE].finalizer
    BY DEF TypeInv, TypeOK, App
  <2> QED BY <1>1, <2>1 DEF AddsFinalizer, Stores, queue
<1>2. CASE WritesStatus
  <2> DEFINE new == [helmApp EXCEPT !.status = NewStatus]
  <2>1. ~AsksForRetry => Processed(new)
    BY <1>2, StatusIsAnswer DEF WritesStatus
  <2>2. stored' = new /\ pc' = "idle" /\ delayed' = (delayed \/ AsksForRetry)
    BY <1>2 DEF WritesStatus, Stores, Returns, Leaves
  <2> HIDE DEF new
  <2>3. ~AsksForRetry => Processed(stored)'
    BY <2>1, <2>2 DEF Processed, StatusNames, SpecNames
  <2> HIDE DEF AsksForRetry
  <2> QED BY <2>2, <2>3
<1>3. CASE WritesDeleteStatus
  <2>1. CASE AllUninstalled
    <3>1. helmApp \in App /\ helmApp.deleting
      BY <1>3 DEF WritesDeleteStatus, AllProcessed, TypeInv, TypeOK, HeldInv, PathFollowsCopy
    <3>2. [helmApp EXCEPT !.status = NewStatus].deleting
      BY <3>1 DEF App
    <3>3. /\ pc # "idle" /\ pc' = "removeFinalizer" /\ helmApp'.deleting
          /\ cacheFresh' => cacheFresh
          /\ UNCHANGED <<queued, appFresh>>
      BY <1>3, <2>1, <3>2 DEF WritesDeleteStatus, AllProcessed, Stores, queue
    <3> QED BY <3>3
  <2>2. CASE ~AllUninstalled
    BY <1>3, <2>2 DEF WritesDeleteStatus, Returns, Leaves
  <2> QED BY <2>1, <2>2
<1>4. CASE RemovesFinalizer
  BY <1>4 DEF RemovesFinalizer, Stores, Returns, Leaves, Processed, NoApp
<1>5. CASE DeletePanics \/ WriteFails
  BY <1>5 DEF DeletePanics, WriteFails, Errs, Leaves
<1> QED BY <1>1, <1>2, <1>3, <1>4, <1>5

(* Inside Reconcile nothing but the path changes.                          *)
LEMMA WorkWakes ==
  ASSUME HeldInv, WakeInv,
         \/ HelmInitFails \/ SpecMissing \/ StartsComponents \/ StartsDeletion
         \/ ReconcileComponent \/ Uninstall
  PROVE  WakeInv'
<1> USE DEF WakeInv, CopyIsHeld, CopyIsCurrent, NobodyWaits, Quiescent
<1>1. CASE HelmInitFails \/ SpecMissing \/ RepoMissing
  BY <1>1 DEF HelmInitFails, SpecMissing, RepoMissing, Errs, Leaves
<1>2. ASSUME UNCHANGED <<server, queue, helmApp, appFresh>>,
             pc \notin {"idle", "addFinalizer"}, pc' # "idle"
      PROVE  WakeInv'
  BY <1>2 DEF server, queue
<1>3. CASE StartsComponents \/ StartsDeletion \/ ComponentsDone \/ LeftoversDone
  BY <1>2, <1>3 DEF StartsComponents, StartsDeletion, ComponentsDone, LeftoversDone
<1>4. ASSUME pc = "components",
             (\E s, r, m : Reports(s, r, m)) \/ (\E a : Stays(a))
      PROVE  WakeInv'
  BY <1>2, <1>4 DEF Reports, Stays
<1>5. CASE ReconcileComponent
  BY <1>1, <1>3, <1>4, <1>5
     DEF ReconcileComponent, ChartUnavailable, HistoryFails, InstallRejected, InstallStores,
         InstallSucceeds, InstallFails, InstallUnrecorded, InstallEnds, SkipsUnchanged,
         UpgradeRejected, UpgradeStores, UpgradeSucceeds, UpgradeFails, UpgradeUnrecorded,
         UpgradeEnds, MustInstall, MustUpgrade, ReleaseExists, ChartLoaded, AtComponent
<1>6. CASE Uninstall
  <2>1. ASSUME pc \in {"leftovers", "deleteComponents"},
               UNCHANGED <<server, queue, pc, helmApp, appFresh>>
        PROVE  WakeInv'
    BY <1>2, <2>1
  <2> QED BY <1>3, <1>6, <2>1
          DEF Uninstall, NothingToUninstall, FindsNoRelease, UninstallStarts, Uninstalled,
              UninstallFails, Clears, Stays, ToUninstall, AtStatus
<1> QED BY <1>1, <1>3, <1>5, <1>6

LEMMA OthersWake ==
  ASSUME HeldInv, WakeInv,
         User \/ Deliver \/ Resync \/ DelayExpires \/ Crash \/ GetFindsNothing \/ GetFindsApp
  PROVE  WakeInv'
<1> USE DEF WakeInv, CopyIsHeld, CopyIsCurrent, NobodyWaits, Quiescent
<1>1. CASE User
  <2>1. ~cacheFresh' /\ UNCHANGED <<pc, helmApp>>
    BY <1>1 DEF User, UserCreates, UserUpdates, UserDeletes, UserWrites
  <2> QED BY <2>1
<1>2. CASE Deliver \/ Resync \/ DelayExpires
  BY <1>2 DEF Deliver, Resync, DelayExpires, local, server
<1>3. CASE Crash
  BY <1>3 DEF Crash, Leaves, Processed
<1>4. CASE GetFindsNothing
  BY <1>4 DEF GetFindsNothing, Dequeue, HeldInv, FreshCopies, Processed, server
<1>5. CASE GetFindsApp
  BY <1>5 DEF GetFindsApp, FirstStep, Dequeue, server
<1> QED BY <1>1, <1>2, <1>3, <1>4, <1>5

LEMMA WakeInvStep == TypeInv /\ HeldInv /\ AnswerInv /\ WakeInv /\ [Next]_vars => WakeInv'
<1> SUFFICES ASSUME TypeInv, HeldInv, AnswerInv, WakeInv, [Next]_vars PROVE WakeInv'
  OBVIOUS
<1>1. CASE UNCHANGED vars
  BY <1>1 DEF WakeInv, CopyIsHeld, CopyIsCurrent, NobodyWaits, Quiescent, Processed, StatusNames,
              SpecNames, vars, server, queue, local
<1> QED BY <1>1, WritesWake, WorkWakes, OthersWake DEF Next, Reconcile

LEMMA WakeInvInit == Init => AnswerInv /\ WakeInv
BY DEF Init, AnswerInv, ComponentsAnswered, SpecAnswered, WakeInv, CopyIsHeld, CopyIsCurrent,
       NobodyWaits, Processed, NoApp

(* When nothing is queued, delayed, undelivered or running, the object is  *)
(* held and its status answers its spec, component by component, and       *)
(* reports no failure: for any number of components, edits, faults,        *)
(* crashes and stale reads, no wake-up is lost.                            *)
THEOREM NoWakeUpIsLost == Spec => []QuiescentMeansProcessed
<1>1. WakeInv => QuiescentMeansProcessed
  BY DEF WakeInv, NobodyWaits, Processed, QuiescentMeansProcessed
<1> QED BY <1>1, TypeInvInit, TypeInvStep, HeldInvInit, HeldInvStep, WakeInvInit, AnswerInvStep,
           WakeInvStep, PTL DEF Spec
=============================================================================
