----------------------- MODULE HelmAppControllerProofs -----------------------
(***************************************************************************)
(* Proofs about the HelmApp controller and Helm's histories: every         *)
(* variable keeps its type, and Reconcile works on Helm only under the     *)
(* finalizer.                                                              *)
(***************************************************************************)
EXTENDS HelmAppController, SequenceTheorems, WellFoundedInduction, TLAPS

-----------------------------------------------------------------------------
(* Histories: the operators of HelmStorage stay inside the history they    *)
(* are given.                                                              *)

(* A non-empty set of revision numbers of a history has a largest element. *)
LEMMA LargestExists ==
  ASSUME NEW n \in Nat, NEW T, T \subseteq 1..n, T # {}
  PROVE  \E x \in T : \A y \in T : y <= x
<1> DEFINE U == {n - y : y \in T}
<1>1. U \subseteq Nat /\ U # {}
  <2>1. \A y \in T : n - y \in Nat
    OBVIOUS
  <2>2. PICK y \in T : TRUE
    OBVIOUS
  <2>3. n - y \in U
    OBVIOUS
  <2> QED BY <2>1, <2>3
<1>2. PICK u \in U : \A w \in U : ~(<<w, u>> \in OpToRel(<, Nat))
  <2> HIDE DEF U
  <2> QED BY <1>1, NatLessThanWellFounded, WFMin
<1>3. PICK x \in T : u = n - x
  BY <1>2
<1>4. ASSUME NEW y \in T PROVE y <= x
  <2>1. n - y \in U /\ n - y \in Nat /\ u \in Nat
    BY <1>1, <1>2
  <2>2. ~(n - y < u)
    BY <1>2, <2>1 DEF OpToRel
  <2> QED BY <1>3, <2>2
<1> QED BY <1>4

(* The latest deployed revision is one of the history.                     *)
LEMMA UpgradeBaseIndex ==
  ASSUME NEW h \in Seq(Revision), h # <<>>
  PROVE  UpgradeBase(h) \in DOMAIN h
<1>1. Len(h) \in Nat /\ Len(h) > 0 /\ DOMAIN h = 1..Len(h)
  BY LenProperties, EmptySeq
<1>2. CASE DeployedRevisions(h) = {}
  BY <1>1, <1>2 DEF UpgradeBase
<1>3. CASE DeployedRevisions(h) # {}
  <2>1. DeployedRevisions(h) \subseteq 1..Len(h)
    BY <1>1 DEF DeployedRevisions
  <2>2. \E k \in DeployedRevisions(h) : \A j \in DeployedRevisions(h) : j <= k
    BY <1>1, <1>3, <2>1, LargestExists
  <2> QED BY <1>1, <1>3, <2>1, <2>2 DEF UpgradeBase
<1> QED BY <1>2, <1>3

(* Revision 1 is listed first whatever the number of digits of the others. *)
LEMMA ListOrderOfFirst ==
  ASSUME NEW k \in Nat, k > 0
  PROVE  ListOrder(1) <= ListOrder(k)
<1>1. ListOrder(1) = 11
  BY DEF ListOrder
<1>2. CASE k < 10
  BY <1>1, <1>2 DEF ListOrder
<1>3. CASE ~(k < 10)
  <2>1. k \div 10 \in Nat /\ k \div 10 >= 1 /\ k % 10 \in Nat
    BY <1>3
  <2> QED BY <1>1, <1>3, <2>1 DEF ListOrder
<1> QED BY <1>2, <1>3

(* The report of an unchanged component names a revision of its history.   *)
LEMMA ListedFirstIndex ==
  ASSUME NEW h \in Seq(Revision), h # <<>>
  PROVE  ListedFirst(h) \in DOMAIN h
<1>1. Len(h) \in Nat /\ Len(h) > 0 /\ DOMAIN h = 1..Len(h)
  BY LenProperties, EmptySeq
<1>2. \E k \in DOMAIN h : \A j \in DOMAIN h : ListOrder(k) <= ListOrder(j)
  <2>1. 1 \in DOMAIN h /\ \A j \in DOMAIN h : j \in Nat /\ j > 0
    BY <1>1
  <2> QED BY <2>1, ListOrderOfFirst
<1> QED BY <1>2 DEF ListedFirst

(* With at most nine revisions the last listed one is the latest.          *)
LEMMA ListedLastIsLast ==
  ASSUME NEW h \in Seq(Revision), h # <<>>, Len(h) <= 9
  PROVE  ListedLast(h) = Len(h)
<1>1. Len(h) \in Nat /\ Len(h) > 0 /\ DOMAIN h = 1..Len(h)
  BY LenProperties, EmptySeq
<1>2. \A k \in DOMAIN h : ListOrder(k) = 11 * k
  BY <1>1 DEF ListOrder
<1>3. Len(h) \in DOMAIN h /\ \A j \in DOMAIN h : ListOrder(j) <= ListOrder(Len(h))
  BY <1>1, <1>2
<1>4. \A k \in DOMAIN h : (\A j \in DOMAIN h : ListOrder(j) <= ListOrder(k)) => k = Len(h)
  BY <1>1, <1>2, <1>3
<1> QED BY <1>3, <1>4 DEF ListedLast

(* From the tenth revision on it is the ninth, whatever was stored since,  *)
(* until v90 is listed after v9: reconcileComponent then compares the spec *)
(* with a revision that was superseded long ago.                           *)
THEOREM NinthHidesLatest ==
  ASSUME NEW h \in Seq(Revision), 10 <= Len(h), Len(h) <= 89
  PROVE  ListedLast(h) = 9
<1>1. Len(h) \in Nat /\ DOMAIN h = 1..Len(h)
  BY LenProperties
<1>2. ListOrder(9) = 99
  BY DEF ListOrder
<1>3. \A k \in DOMAIN h : k # 9 => ListOrder(k) < 99
  <2> SUFFICES ASSUME NEW k \in DOMAIN h, k # 9 PROVE ListOrder(k) < 99
    OBVIOUS
  <2>1. CASE k < 10
    BY <1>1, <2>1 DEF ListOrder
  <2>2. CASE ~(k < 10)
    <3>1. k \in Nat /\ 10 <= k /\ k <= 89
      BY <1>1, <2>2
    <3>2. k \div 10 \in 1..8
      BY <3>1
    <3>3. k % 10 \in 0..9
      BY <3>1
    <3> QED BY <2>2, <3>2, <3>3 DEF ListOrder
  <2> QED BY <2>1, <2>2
<1>4. 9 \in DOMAIN h /\ \A k \in DOMAIN h : ListOrder(k) \in Int
  BY <1>1 DEF ListOrder
<1>5. \A j \in DOMAIN h : ListOrder(j) <= ListOrder(9)
  BY <1>2, <1>3, <1>4
<1>6. \A k \in DOMAIN h : (\A j \in DOMAIN h : ListOrder(j) <= ListOrder(k)) => k = 9
  BY <1>2, <1>3, <1>4
<1> QED BY <1>4, <1>5, <1>6 DEF ListedLast

(* Changing the status of a revision leaves a history of the same length.  *)
LEMMA WithStatusIsHistory ==
  ASSUME NEW h \in Seq(Revision), NEW k, NEW status \in ReleaseStatus
  PROVE  /\ WithStatus(h, k, status) \in Seq(Revision)
         /\ Len(WithStatus(h, k, status)) = Len(h)
<1> DEFINE new == WithStatus(h, k, status)
<1>1. DOMAIN h = 1..Len(h) /\ Len(h) \in Nat
  BY LenProperties
<1>2. ASSUME NEW j \in DOMAIN h PROVE new[j] \in Revision
  <2>1. h[j] \in Revision
    BY <1>1, ElementOfSeq
  <2> QED BY <2>1 DEF WithStatus, Revision
<1>3. new \in [1..Len(h) -> Revision]
  BY <1>1, <1>2 DEF WithStatus
<1>4. new \in Seq(Revision)
  BY <1>1, <1>3
<1> QED BY <1>1, <1>3, <1>4, LenProperties

(* It leaves the version and the values of every revision alone.           *)
LEMMA WithStatusKeepsData ==
  ASSUME NEW h \in Seq(Revision), NEW k, NEW status \in ReleaseStatus, NEW j \in DOMAIN h
  PROVE  /\ WithStatus(h, k, status)[j].version = h[j].version
         /\ WithStatus(h, k, status)[j].config = h[j].config
<1>1. h[j] \in Revision
  BY LenProperties, ElementOfSeq
<1> QED BY <1>1 DEF WithStatus, Revision

(* What an install or an upgrade stores is a revision.                     *)
LEMMA NewRevisionIsRevision ==
  ASSUME NEW v \in Versions, NEW config \in StoredValues, NEW status \in ReleaseStatus
  PROVE  NewRevision(Resolve[v], config, status) \in Revision
BY HelmAssumption DEF NewRevision, Revision

(* Helm never stores the empty map: omitempty turns it into nil.           *)
LEMMA EncodeIsStored ==
  ASSUME NEW vals \in Values
  PROVE  Encode(vals) \in StoredValues
BY DEF Encode, StoredValues

(* An upgrade stores values that a release can hold, its own or reused.    *)
LEMMA UpgradeConfigIsStored ==
  ASSUME NEW h \in Seq(Revision), h # <<>>, NEW vals \in Values
  PROVE  UpgradeConfig(h, vals) \in StoredValues
<1>1. h[UpgradeBase(h)] \in Revision
  BY UpgradeBaseIndex, LenProperties, ElementOfSeq
<1>2. h[UpgradeBase(h)].config \in StoredValues
  BY <1>1 DEF Revision
<1> QED BY <1>2 DEF UpgradeConfig, StoredValues

(* Removing an element leaves a sequence over the same set.                *)
LEMMA RemoveAtIsSeq ==
  ASSUME NEW S, NEW s \in Seq(S), NEW i \in 1..Len(s)
  PROVE  /\ RemoveAt(s, i) \in Seq(S)
         /\ Len(RemoveAt(s, i)) = Len(s) - 1
         /\ \A j \in 1..Len(s) - 1 : RemoveAt(s, i)[j] = IF j < i THEN s[j] ELSE s[j + 1]
<1> DEFINE left == SubSeq(s, 1, i - 1)
           right == SubSeq(s, i + 1, Len(s))
<1>1. Len(s) \in Nat /\ \A k \in 1..Len(s) : s[k] \in S
  BY LenProperties, ElementOfSeq
<1>2. /\ left \in Seq(S) /\ Len(left) = i - 1
      /\ \A j \in 1..i - 1 : left[j] = s[j]
  BY <1>1, SubSeqProperties
<1>3. /\ right \in Seq(S) /\ Len(right) = Len(s) - i
      /\ \A j \in 1..Len(s) - i : right[j] = s[i + j]
  <2>1. \A k \in i + 1..Len(s) : s[k] \in S
    BY <1>1
  <2>2. i + 1 \in Int /\ Len(s) \in Int
    BY <1>1
  <2>3. /\ SubSeq(s, i + 1, Len(s)) \in Seq(S)
        /\ Len(SubSeq(s, i + 1, Len(s)))
             = IF i + 1 <= Len(s) THEN Len(s) - (i + 1) + 1 ELSE 0
        /\ \A j \in 1..Len(s) - (i + 1) + 1 : SubSeq(s, i + 1, Len(s))[j] = s[(i + 1) + j - 1]
    BY <2>1, <2>2, SubSeqProperties
  <2> QED BY <1>1, <2>3
<1> HIDE DEF left, right
<1>4. /\ left \o right \in Seq(S)
      /\ Len(left \o right) = Len(s) - 1
      /\ \A j \in 1..Len(s) - 1 : (left \o right)[j] = IF j < i THEN s[j] ELSE s[j + 1]
  <2>1. /\ left \o right \in Seq(S)
        /\ Len(left \o right) = Len(left) + Len(right)
        /\ \A j \in 1..Len(left) + Len(right) :
             (left \o right)[j] = IF j <= Len(left) THEN left[j] ELSE right[j - Len(left)]
    BY <1>2, <1>3, ConcatProperties
  <2>2. Len(left) = i - 1 /\ Len(right) = Len(s) - i /\ Len(left) + Len(right) = Len(s) - 1
    BY <1>1, <1>2, <1>3
  <2>3. ASSUME NEW j \in 1..Len(s) - 1, j < i
        PROVE  (left \o right)[j] = s[j]
    BY <1>1, <1>2, <2>1, <2>2, <2>3
  <2>4. ASSUME NEW j \in 1..Len(s) - 1, ~(j < i)
        PROVE  (left \o right)[j] = s[j + 1]
    <3>1. (left \o right)[j] = right[j - Len(left)]
      BY <1>1, <2>1, <2>2, <2>4
    <3>2. j - Len(left) = j - (i - 1) /\ j - (i - 1) \in 1..Len(s) - i
      BY <1>1, <2>2, <2>4
    <3>3. i + (j - (i - 1)) = j + 1
      BY <1>1
    <3> QED BY <1>3, <3>1, <3>2, <3>3
  <2> QED BY <2>1, <2>2, <2>3, <2>4
<1> QED BY <1>4 DEF RemoveAt, left, right

-----------------------------------------------------------------------------
(* Objects                                                                 *)

LEMMA AppFields ==
  ASSUME NEW app \in App
  PROVE  /\ app.present \in BOOLEAN /\ app.deleting \in BOOLEAN /\ app.finalizer \in BOOLEAN
         /\ app.spec \in AppSpec /\ app.spec.components \in Seq(Component)
         /\ app.status \in AppStatus /\ app.status.components \in Seq(ComponentStatus)
<1>1. app.spec \in AppSpec /\ app.status \in AppStatus
  BY DEF App
<1>2. app.spec.components \in Seq(Component)
  BY <1>1 DEF AppSpec
<1>3. app.status.components \in Seq(ComponentStatus)
  BY <1>1 DEF AppStatus
<1> QED BY <1>1, <1>2, <1>3 DEF App

LEMMA NoAppIsApp == NoApp \in App
<1>1. NilStatus \in AppStatus
  BY EmptySeq DEF NilStatus, AppStatus, Phases
<1>2. NilSpec \in AppSpec
  BY EmptySeq DEF NilSpec, AppSpec
<1> QED BY <1>1, <1>2 DEF NoApp, App

LEMMA AppUpdates ==
  ASSUME NEW app \in App
  PROVE  /\ [app EXCEPT !.finalizer = TRUE] \in App
         /\ [app EXCEPT !.deleting = TRUE] \in App
         /\ \A s \in AppSpec : /\ [app EXCEPT !.spec = s] \in App
                               /\ [app EXCEPT !.present = TRUE, !.spec = s] \in App
         /\ \A st \in AppStatus : [app EXCEPT !.status = st] \in App
BY DEF App

LEMMA PhaseIsPhase ==
  ASSUME NEW app, NEW statuses
  PROVE  CalculateOverallPhase(app, statuses) \in Phases
BY DEF CalculateOverallPhase, Phases

LEMMA NewStatusIsStatus ==
  ASSUME componentStatuses \in Seq(ComponentStatus)
  PROVE  NewStatus \in AppStatus
BY PhaseIsPhase DEF NewStatus, AppStatus

LEMMA FailedIsStatus ==
  ASSUME NEW s \in ComponentStatus
  PROVE  Failed(s) \in ComponentStatus
BY DEF Failed, ComponentStatus, ReleaseStatus, Messages

-----------------------------------------------------------------------------
(* Inside an install or an upgrade the worker stands at a component.       *)
AtHelmAction ==
  helm \in {"install", "upgrade"} =>
    pc = "components" /\ idx \in DOMAIN helmApp.spec.components /\ Current.name \in Names

TypeInv == TypeOK /\ AtHelmAction

LEMMA CurrentIsComponent ==
  ASSUME TypeOK, idx \in DOMAIN helmApp.spec.components
  PROVE  /\ Current \in Component
         /\ Current.name \in Names \cup {NoName}
         /\ Current.version \in Versions /\ Current.values \in Values
<1>1. helmApp.spec.components \in Seq(Component)
  BY AppFields DEF TypeOK
<1>2. Current \in Component
  BY <1>1, LenProperties, ElementOfSeq DEF Current
<1> QED BY <1>2 DEF Component

(* What a report leaves behind.                                            *)
LEMMA ReportsKeepsTypes ==
  ASSUME TypeInv, idx \in DOMAIN helmApp.spec.components,
         NEW status \in ReleaseStatus, NEW revision \in Nat, NEW message \in Messages,
         Reports(status, revision, message),
         releases' \in [Names -> Seq(Revision)], faults' \in 0..MaxFaults
  PROVE  TypeInv'
<1>1. [name |-> Current.name, status |-> status, version |-> revision, message |-> message]
        \in ComponentStatus
  BY CurrentIsComponent DEF ComponentStatus, TypeInv
<1>2. componentStatuses' \in Seq(ComponentStatus)
  BY <1>1, AppendProperties DEF Reports, TypeInv, TypeOK
<1>3. idx' \in Nat /\ helm' = "none"
  BY DEF Reports, TypeInv, TypeOK
<1> QED BY <1>2, <1>3 DEF Reports, TypeInv, TypeOK, AtHelmAction, server, queue

(* What the end of a reconcile leaves behind.                              *)
LEMMA LeavesKeepsTypes ==
  ASSUME TypeInv, Leaves,
         stored' \in App, cached' \in App, cacheFresh' \in BOOLEAN,
         queued' \in BOOLEAN, delayed' \in BOOLEAN,
         releases' \in [Names -> Seq(Revision)],
         edits' \in 0..MaxEdits, faults' \in 0..MaxFaults
  PROVE  TypeInv'
BY NoAppIsApp, EmptySeq DEF Leaves, TypeInv, TypeOK, AtHelmAction

LEMMA FaultIsBounded ==
  ASSUME TypeInv, Fault
  PROVE  faults' \in 0..MaxFaults
BY ControllerAssumption DEF TypeInv, TypeOK, Fault

(* The history of a component is replaced by another history.              *)
LEMMA ReleasesKeepTypes ==
  ASSUME TypeInv, NEW n, NEW h \in Seq(Revision),
         releases' = [releases EXCEPT ![n] = h]
  PROVE  releases' \in [Names -> Seq(Revision)]
BY DEF TypeInv, TypeOK

LEMMA HistoryIsHistory ==
  ASSUME TypeInv, NEW n \in Names
  PROVE  releases[n] \in Seq(Revision)
BY DEF TypeInv, TypeOK

-----------------------------------------------------------------------------
(* Users, the watch and the queue                                          *)

LEMMA UserKeepsTypes ==
  ASSUME TypeInv, User
  PROVE  TypeInv'
<1>1. ASSUME NEW new \in App, UserWrites(new) PROVE TypeInv'
  <2>1. edits' \in 0..MaxEdits
    BY <1>1, ControllerAssumption DEF UserWrites, TypeInv, TypeOK
  <2> QED BY <1>1, <2>1 DEF UserWrites, TypeInv, TypeOK, AtHelmAction, Current, queue
<1>2. Specs \subseteq AppSpec /\ stored \in App /\ NoApp \in App
  BY ControllerAssumption, NoAppIsApp DEF TypeInv, TypeOK
<1>3. CASE UserCreates
  BY <1>1, <1>2, <1>3, AppUpdates DEF UserCreates
<1>4. CASE UserUpdates
  BY <1>1, <1>2, <1>4, AppUpdates DEF UserUpdates
<1>5. CASE UserDeletes
  <2>1. [stored EXCEPT !.deleting = TRUE] \in App
    BY <1>2, AppUpdates
  <2> QED BY <1>1, <1>2, <1>5, <2>1 DEF UserDeletes
<1> QED BY <1>3, <1>4, <1>5 DEF User

LEMMA QueueKeepsTypes ==
  ASSUME TypeInv, Deliver \/ Resync \/ DelayExpires
  PROVE  TypeInv'
<1>1. CASE Deliver
  BY <1>1 DEF Deliver, TypeInv, TypeOK, AtHelmAction, Current, local
<1>2. CASE Resync
  BY <1>2 DEF Resync, TypeInv, TypeOK, AtHelmAction, Current, local, server
<1>3. CASE DelayExpires
  BY <1>3 DEF DelayExpires, TypeInv, TypeOK, AtHelmAction, Current, local, server
<1> QED BY <1>1, <1>2, <1>3

LEMMA CrashKeepsTypes ==
  ASSUME TypeInv, Crash
  PROVE  TypeInv'
<1>1. stored \in App /\ stored.present \in BOOLEAN
  BY AppFields DEF TypeInv, TypeOK
<1> QED BY <1>1, LeavesKeepsTypes, FaultIsBounded DEF Crash, TypeInv, TypeOK

-----------------------------------------------------------------------------
(* Reconcile, component by component                                       *)

LEMMA StartKeepsTypes ==
  ASSUME TypeInv,
         GetFindsNothing \/ GetFindsApp \/ AddsFinalizer \/ HelmInitFails
           \/ SpecMissing \/ StartsComponents \/ StartsDeletion
  PROVE  TypeInv'
<1> USE DEF TypeInv, TypeOK, AtHelmAction, server, queue
<1>1. CASE GetFindsNothing
  BY <1>1 DEF GetFindsNothing, Dequeue
<1>2. CASE GetFindsApp
  BY <1>2 DEF GetFindsApp, FirstStep, Dequeue
<1>3. CASE AddsFinalizer
  BY <1>3, AppUpdates DEF AddsFinalizer, Stores
<1>4. CASE HelmInitFails \/ SpecMissing
  BY <1>4, LeavesKeepsTypes, FaultIsBounded DEF HelmInitFails, SpecMissing, Errs
<1>5. CASE StartsComponents
  BY <1>5, EmptySeq DEF StartsComponents
<1>6. CASE StartsDeletion
  BY <1>6, AppFields, LenProperties DEF StartsDeletion, LastStatus
<1> QED BY <1>1, <1>2, <1>3, <1>4, <1>5, <1>6

LEMMA NoRevisionKeepsTypes ==
  ASSUME TypeInv,
         RepoMissing \/ ChartUnavailable \/ HistoryFails \/ InstallRejected
           \/ UpgradeRejected \/ SkipsUnchanged \/ ComponentsDone
  PROVE  TypeInv'
<1>1. CASE RepoMissing
  BY <1>1, LeavesKeepsTypes DEF RepoMissing, Errs, TypeInv, TypeOK, server
<1>2. CASE ComponentsDone
  BY <1>2 DEF ComponentsDone, TypeInv, TypeOK, AtHelmAction, server, queue
<1>3. /\ {"unknown", "failed", "pending-install"} \subseteq ReleaseStatus
      /\ {"none", "chart", "history", "install", "upgrade"} \subseteq Messages
      /\ 0 \in Nat /\ 1 \in Nat
  BY DEF ReleaseStatus, PendingStatus, Messages
<1>4. releases \in [Names -> Seq(Revision)] /\ faults \in 0..MaxFaults
  BY DEF TypeInv, TypeOK
<1>5. CASE ChartUnavailable
  BY <1>3, <1>4, <1>5, ReportsKeepsTypes, FaultIsBounded DEF ChartUnavailable, AtComponent
<1>6. CASE HistoryFails
  BY <1>3, <1>4, <1>6, ReportsKeepsTypes, FaultIsBounded
     DEF HistoryFails, ChartLoaded, AtComponent
<1>7. CASE InstallRejected
  BY <1>3, <1>4, <1>7, ReportsKeepsTypes, FaultIsBounded
     DEF InstallRejected, MustInstall, ChartLoaded, AtComponent
<1>8. CASE UpgradeRejected
  BY <1>3, <1>4, <1>8, ReportsKeepsTypes, FaultIsBounded
     DEF UpgradeRejected, MustUpgrade, ReleaseExists, ChartLoaded, AtComponent
<1>9. CASE SkipsUnchanged
  <2> DEFINE first == ListedFirst(History)
  <2>1. Current.name \in Names /\ History # <<>> /\ idx \in DOMAIN helmApp.spec.components
    BY <1>9 DEF SkipsUnchanged, ReleaseExists, ChartLoaded, AtComponent
  <2>2. History \in Seq(Revision)
    BY <2>1, HistoryIsHistory DEF History
  <2>3. first \in Nat /\ History[first] \in Revision
    BY <2>1, <2>2, ListedFirstIndex, LenProperties, ElementOfSeq
  <2>4. History[first].status \in ReleaseStatus
    BY <2>3 DEF Revision
  <2>5. Reports(History[first].status, first, "none") /\ UNCHANGED <<releases, faults>>
    BY <1>9 DEF SkipsUnchanged
  <2> HIDE DEF first
  <2> QED BY <1>3, <1>4, <2>1, <2>3, <2>4, <2>5, ReportsKeepsTypes
<1> QED BY <1>1, <1>2, <1>5, <1>6, <1>7, <1>8, <1>9

LEMMA StaysKeepsTypes ==
  ASSUME TypeInv, NEW action \in {"install", "upgrade", "uninstall"}, Stays(action),
         releases' \in [Names -> Seq(Revision)],
         action \in {"install", "upgrade"} =>
           /\ pc = "components" /\ idx \in DOMAIN helmApp.spec.components
           /\ Current.name \in Names
  PROVE  TypeInv'
BY DEF Stays, TypeInv, TypeOK, AtHelmAction, Current, server, queue

LEMMA InstallKeepsTypes ==
  ASSUME TypeInv, InstallStores \/ InstallSucceeds \/ InstallFails \/ InstallUnrecorded
  PROVE  TypeInv'
<1>1. CASE InstallStores
  <2> DEFINE new == NewRevision(Resolve[Current.version], Encode(Current.values),
                                "pending-install")
  <2>1. /\ pc = "components" /\ idx \in DOMAIN helmApp.spec.components
        /\ Current.name \in Names
    BY <1>1 DEF InstallStores, MustInstall, ChartLoaded, AtComponent
  <2>2. new \in Revision
    BY <2>1, CurrentIsComponent, EncodeIsStored, NewRevisionIsRevision
       DEF TypeInv, ReleaseStatus, PendingStatus
  <2>3. <<new>> \in Seq(Revision)
    BY <2>2
  <2>4. releases' = [releases EXCEPT ![Current.name] = <<new>>] /\ Stays("install")
    BY <1>1 DEF InstallStores
  <2> QED BY <2>1, <2>3, <2>4, ReleasesKeepTypes, StaysKeepsTypes
<1>2. ASSUME NEW status \in {"deployed", "failed", "pending-install"}, InstallEnds(status)
      PROVE  /\ releases' \in [Names -> Seq(Revision)]
             /\ idx \in DOMAIN helmApp.spec.components
  <2>1. idx \in DOMAIN helmApp.spec.components /\ Current.name \in Names
    BY <1>2 DEF InstallEnds, TypeInv, AtHelmAction
  <2>2. /\ releases' = [releases EXCEPT ![Current.name] = WithStatus(History, 1, status)]
        /\ status \in ReleaseStatus
    BY <1>2 DEF InstallEnds, ReleaseStatus, PendingStatus
  <2> QED BY <2>1, <2>2, HistoryIsHistory, WithStatusIsHistory, ReleasesKeepTypes DEF History
<1>3. /\ {"deployed", "failed"} \subseteq ReleaseStatus /\ {"none", "install"} \subseteq Messages
      /\ 1 \in Nat /\ faults \in 0..MaxFaults
  BY DEF ReleaseStatus, Messages, TypeInv, TypeOK
<1>4. CASE InstallSucceeds
  BY <1>2, <1>3, <1>4, ReportsKeepsTypes DEF InstallSucceeds
<1>5. CASE InstallFails
  BY <1>2, <1>3, <1>5, ReportsKeepsTypes, FaultIsBounded DEF InstallFails
<1>6. CASE InstallUnrecorded
  BY <1>2, <1>3, <1>6, ReportsKeepsTypes, FaultIsBounded DEF InstallUnrecorded
<1> QED BY <1>1, <1>4, <1>5, <1>6

LEMMA UpgradeKeepsTypes ==
  ASSUME TypeInv, UpgradeStores \/ UpgradeSucceeds \/ UpgradeFails \/ UpgradeUnrecorded
  PROVE  TypeInv'
<1>1. CASE UpgradeStores
  <2> DEFINE new == NewRevision(Resolve[Current.version],
                                UpgradeConfig(History, Current.values), "pending-upgrade")
  <2>1. /\ pc = "components" /\ idx \in DOMAIN helmApp.spec.components
        /\ Current.name \in Names /\ History # <<>>
    BY <1>1 DEF UpgradeStores, MustUpgrade, ReleaseExists, ChartLoaded, AtComponent
  <2>2. History \in Seq(Revision)
    BY <2>1, HistoryIsHistory DEF History
  <2>3. UpgradeConfig(History, Current.values) \in StoredValues
    BY <2>1, <2>2, CurrentIsComponent, UpgradeConfigIsStored DEF TypeInv
  <2>4. new \in Revision
    BY <2>1, <2>3, CurrentIsComponent, NewRevisionIsRevision
       DEF TypeInv, ReleaseStatus, PendingStatus
  <2>5. Append(History, new) \in Seq(Revision)
    BY <2>2, <2>4, AppendProperties
  <2>6. releases' = [releases EXCEPT ![Current.name] = Append(History, new)] /\ Stays("upgrade")
    BY <1>1 DEF UpgradeStores
  <2> QED BY <2>1, <2>5, <2>6, ReleasesKeepTypes, StaysKeepsTypes
<1>2. ASSUME NEW status \in {"deployed", "failed", "pending-upgrade"}, UpgradeEnds(status)
      PROVE  /\ releases' \in [Names -> Seq(Revision)]
             /\ idx \in DOMAIN helmApp.spec.components
             /\ Len(History) \in Nat
  <2> DEFINE replaced == UpgradeBase(Front(History))
             h == IF status = "failed" THEN History ELSE WithStatus(History, replaced, "superseded")
  <2>1. idx \in DOMAIN helmApp.spec.components /\ Current.name \in Names
    BY <1>2 DEF UpgradeEnds, TypeInv, AtHelmAction
  <2>2. /\ releases' = [releases EXCEPT ![Current.name] = WithStatus(h, Len(h), status)]
        /\ status \in ReleaseStatus /\ "superseded" \in ReleaseStatus
    BY <1>2 DEF UpgradeEnds, ReleaseStatus, PendingStatus
  <2>3. History \in Seq(Revision) /\ Len(History) \in Nat
    BY <2>1, HistoryIsHistory, LenProperties DEF History
  <2>4. h \in Seq(Revision)
    BY <2>2, <2>3, WithStatusIsHistory
  <2> HIDE DEF h
  <2>5. WithStatus(h, Len(h), status) \in Seq(Revision)
    BY <2>2, <2>4, WithStatusIsHistory
  <2> QED BY <2>1, <2>2, <2>3, <2>5, ReleasesKeepTypes
<1>3. /\ {"deployed", "failed"} \subseteq ReleaseStatus /\ {"none", "upgrade"} \subseteq Messages
      /\ faults \in 0..MaxFaults
  BY DEF ReleaseStatus, Messages, TypeInv, TypeOK
<1>4. CASE UpgradeSucceeds
  BY <1>2, <1>3, <1>4, ReportsKeepsTypes DEF UpgradeSucceeds
<1>5. CASE UpgradeFails
  BY <1>2, <1>3, <1>5, ReportsKeepsTypes, FaultIsBounded DEF UpgradeFails
<1>6. CASE UpgradeUnrecorded
  BY <1>2, <1>3, <1>6, ReportsKeepsTypes, FaultIsBounded DEF UpgradeUnrecorded
<1> QED BY <1>1, <1>4, <1>5, <1>6

-----------------------------------------------------------------------------
(* Uninstalling and writing                                                *)

LEMMA ExistingIsStatus ==
  ASSUME TypeInv, AtStatus
  PROVE  /\ Existing \in ComponentStatus
         /\ pc = "deleteComponents" =>
              idx \in 1..Len(componentStatuses) /\ componentStatuses[idx] \in ComponentStatus
<1>1. /\ helmApp.status.components \in Seq(ComponentStatus)
      /\ componentStatuses \in Seq(ComponentStatus)
  BY AppFields DEF TypeInv, TypeOK
<1> QED BY <1>1, LenProperties, ElementOfSeq DEF AtStatus, Existing

LEMMA ClearsKeepsTypes ==
  ASSUME TypeInv, AtStatus, Clears,
         releases' \in [Names -> Seq(Revision)], faults' \in 0..MaxFaults
  PROVE  TypeInv'
<1>1. componentStatuses' \in Seq(ComponentStatus) /\ idx' \in Nat
  <2>1. CASE pc = "leftovers"
    BY <2>1 DEF Clears, TypeInv, TypeOK
  <2>2. CASE pc # "leftovers"
    <3>1. /\ pc = "deleteComponents" /\ idx \in 1..Len(componentStatuses)
          /\ componentStatuses \in Seq(ComponentStatus)
      BY <2>2, ExistingIsStatus DEF AtStatus, TypeInv, TypeOK
    <3>2. /\ idx' = idx - 1 /\ componentStatuses' = RemoveAt(componentStatuses, idx)
      BY <2>2 DEF Clears, Others
    <3>3. RemoveAt(componentStatuses, idx) \in Seq(ComponentStatus)
      BY <3>1, RemoveAtIsSeq
    <3> QED BY <3>1, <3>2, <3>3
  <2> QED BY <2>1, <2>2
<1> QED BY <1>1 DEF Clears, TypeInv, TypeOK, AtHelmAction, server, queue

LEMMA UninstallKeepsTypes ==
  ASSUME TypeInv, Uninstall
  PROVE  TypeInv'
<1>1. /\ releases \in [Names -> Seq(Revision)] /\ faults \in 0..MaxFaults
      /\ <<>> \in Seq(Revision)
  BY EmptySeq DEF TypeInv, TypeOK
<1>2. ToUninstall => AtStatus /\ Existing \in ComponentStatus /\ Existing.name \in Names
  BY ExistingIsStatus DEF ToUninstall, ComponentStatus
<1>3. CASE NothingToUninstall
  BY <1>1, <1>3, ClearsKeepsTypes DEF NothingToUninstall
<1>4. CASE FindsNoRelease
  BY <1>1, <1>2, <1>4, ClearsKeepsTypes DEF FindsNoRelease
<1>5. CASE UninstallStarts
  <2> DEFINE h == releases[Existing.name]
  <2>1. h \in Seq(Revision) /\ "uninstalling" \in ReleaseStatus
    BY <1>2, <1>5, HistoryIsHistory DEF UninstallStarts, ReleaseStatus
  <2>2. /\ releases' = [releases EXCEPT ![Existing.name] = WithStatus(h, Len(h), "uninstalling")]
        /\ Stays("uninstall")
    BY <1>5 DEF UninstallStarts
  <2> HIDE DEF h
  <2>3. WithStatus(h, Len(h), "uninstalling") \in Seq(Revision)
    BY <2>1, WithStatusIsHistory
  <2> QED BY <2>2, <2>3, ReleasesKeepTypes, StaysKeepsTypes
<1>6. CASE Uninstalled
  BY <1>1, <1>2, <1>6, ReleasesKeepTypes, ClearsKeepsTypes DEF Uninstalled
<1>7. CASE UninstallFails
  <2>1. releases' \in [Names -> Seq(Revision)] /\ faults' \in 0..MaxFaults
    BY <1>1, <1>7, ReleasesKeepTypes, FaultIsBounded DEF UninstallFails
  <2>2. componentStatuses' \in Seq(ComponentStatus) /\ idx' \in Nat
    <3>1. componentStatuses \in Seq(ComponentStatus) /\ idx \in Nat /\ AtStatus
      BY <1>2, <1>7 DEF UninstallFails, TypeInv, TypeOK
    <3>2. CASE pc = "leftovers"
      BY <1>2, <1>7, <3>1, <3>2, FailedIsStatus, AppendProperties DEF UninstallFails
    <3>3. CASE pc # "leftovers"
      <4>1. pc = "deleteComponents"
        BY <3>1, <3>3 DEF AtStatus
      <4>2. idx \in 1..Len(componentStatuses) /\ Failed(componentStatuses[idx]) \in ComponentStatus
        BY <3>1, <4>1, ExistingIsStatus, FailedIsStatus
      <4>3. /\ idx' = idx - 1
            /\ componentStatuses'
                 = [componentStatuses EXCEPT ![idx] = Failed(componentStatuses[idx])]
        BY <1>7, <3>3 DEF UninstallFails
      <4> QED BY <3>1, <4>2, <4>3, ExceptSeq
    <3> QED BY <3>2, <3>3
  <2> QED BY <1>7, <2>1, <2>2 DEF UninstallFails, TypeInv, TypeOK, AtHelmAction, server, queue
<1>8. CASE LeftoversDone
  BY <1>8 DEF LeftoversDone, TypeInv, TypeOK, AtHelmAction, server, queue
<1> QED BY <1>3, <1>4, <1>5, <1>6, <1>7, <1>8 DEF Uninstall

LEMMA WrittenIsApp ==
  ASSUME TypeInv
  PROVE  /\ Written \in App /\ NoApp \in App
         /\ [helmApp EXCEPT !.status = NewStatus] \in App
<1>1. NewStatus \in AppStatus /\ helmApp \in App
  BY NewStatusIsStatus DEF TypeInv, TypeOK
<1> QED BY <1>1, AppUpdates, NoAppIsApp DEF Written

LEMMA WriteKeepsTypes ==
  ASSUME TypeInv,
         WritesStatus \/ DeletePanics \/ WritesDeleteStatus \/ RemovesFinalizer \/ WriteFails
  PROVE  TypeInv'
<1>1. /\ stored \in App /\ cached \in App
      /\ {cacheFresh, queued, delayed} \subseteq BOOLEAN
      /\ releases \in [Names -> Seq(Revision)]
      /\ edits \in 0..MaxEdits /\ faults \in 0..MaxFaults
  BY DEF TypeInv, TypeOK
<1>2. ASSUME NEW new \in App, Stores(new)
      PROVE  stored' \in App /\ cached' \in App /\ cacheFresh' \in BOOLEAN
  BY <1>1, <1>2 DEF Stores
<1>3. CASE WritesStatus
  BY <1>1, <1>2, <1>3, WrittenIsApp, LeavesKeepsTypes DEF WritesStatus, Returns
<1>4. CASE DeletePanics
  BY <1>1, <1>4, LeavesKeepsTypes DEF DeletePanics, Errs, server
<1>5. CASE WritesDeleteStatus
  <2>1. stored' \in App /\ cached' \in App /\ cacheFresh' \in BOOLEAN
    BY <1>2, <1>5, WrittenIsApp DEF WritesDeleteStatus, AllUninstalled
  <2>2. CASE componentStatuses = <<>>
    BY <1>5, <2>1, <2>2, WrittenIsApp
       DEF WritesDeleteStatus, AllUninstalled, TypeInv, TypeOK, AtHelmAction, AllProcessed, queue
  <2>3. CASE componentStatuses # <<>>
    BY <1>1, <1>5, <2>1, <2>3, LeavesKeepsTypes DEF WritesDeleteStatus, AllUninstalled, Returns
  <2> QED BY <2>2, <2>3
<1>6. CASE RemovesFinalizer
  BY <1>1, <1>2, <1>6, WrittenIsApp, LeavesKeepsTypes DEF RemovesFinalizer, Returns
<1>7. CASE WriteFails
  <2>1. stored' \in App /\ cached' \in App /\ cacheFresh' \in BOOLEAN /\ faults' \in 0..MaxFaults
    BY <1>1, <1>2, <1>7, WrittenIsApp, FaultIsBounded DEF WriteFails, server
  <2> QED BY <1>1, <1>7, <2>1, LeavesKeepsTypes DEF WriteFails, Errs
<1> QED BY <1>3, <1>4, <1>5, <1>6, <1>7

-----------------------------------------------------------------------------
(* TypeInv is inductive.                                                   *)

LEMMA TypeInvInit == Init => TypeInv
<1> SUFFICES ASSUME Init PROVE TypeInv
  OBVIOUS
<1>1. <<>> \in Seq(ComponentStatus) /\ <<>> \in Seq(Revision)
  BY EmptySeq
<1>2. releases \in [Names -> Seq(Revision)]
  BY <1>1 DEF Init
<1>3. edits \in 0..MaxEdits /\ faults \in 0..MaxFaults
  BY ControllerAssumption DEF Init
<1> QED BY <1>1, <1>2, <1>3, NoAppIsApp DEF Init, TypeInv, TypeOK, AtHelmAction

LEMMA TypeInvStep == TypeInv /\ [Next]_vars => TypeInv'
<1> SUFFICES ASSUME TypeInv, [Next]_vars PROVE TypeInv'
  OBVIOUS
<1>1. CASE UNCHANGED vars
  BY <1>1 DEF TypeInv, TypeOK, AtHelmAction, Current, vars, server, queue, local
<1>2. CASE User
  BY <1>2, UserKeepsTypes
<1>3. CASE Deliver \/ Resync \/ DelayExpires
  BY <1>3, QueueKeepsTypes
<1>4. CASE Crash
  BY <1>4, CrashKeepsTypes
<1>5. CASE ReconcileComponent
  BY <1>5, NoRevisionKeepsTypes, InstallKeepsTypes, UpgradeKeepsTypes DEF ReconcileComponent
<1>6. CASE Uninstall
  BY <1>6, UninstallKeepsTypes
<1>7. CASE Reconcile
  BY <1>5, <1>6, <1>7, StartKeepsTypes, WriteKeepsTypes DEF Reconcile
<1> QED BY <1>1, <1>2, <1>3, <1>4, <1>7 DEF Next

(* Every variable keeps its type, for any specs, names, versions, values   *)
(* and bounds: in particular a report always names a revision that exists, *)
(* and the walk over the statuses never leaves the list.                   *)
THEOREM TypeCorrect == Spec => []TypeOK
<1>1. TypeInv => TypeOK
  BY DEF TypeInv
<1> QED BY <1>1, TypeInvInit, TypeInvStep, PTL DEF Spec

-----------------------------------------------------------------------------
(* The finalizer.  InstallUnderFinalizer is not inductive: it also takes   *)
(* what the worker and the informer may believe of the object.             *)

Held(app) == app.present /\ app.finalizer

(* A copy that is flagged fresh is the stored object.                      *)
FreshCopies ==
  /\ cacheFresh => cached = stored
  /\ pc # "idle" /\ appFresh => helmApp = stored

(* Where the worker is follows from the copy it works on.                  *)
PathFollowsCopy ==
  /\ pc # "idle" => helmApp.present
  /\ pc \in {"addFinalizer", "components", "leftovers", "updateStatus"} => ~helmApp.deleting
  /\ pc \in {"deleteComponents", "removeFinalizer"} => helmApp.deleting

(* No copy, however stale, that shows a held object which is not           *)
(* terminating outlives the finalizer; and a worker that may still write   *)
(* a deletion has seen the informer's copy terminating.                    *)
CopiesAreHeld ==
  /\ Held(cached) /\ ~cached.deleting => Held(stored)
  /\ pc \notin {"idle", "addFinalizer"} /\ ~helmApp.deleting => Held(stored)
  /\ pc # "idle" /\ helmApp.deleting /\ appFresh => cached.deleting

HeldInv == FreshCopies /\ PathFollowsCopy /\ CopiesAreHeld

-----------------------------------------------------------------------------
(* Steps of the worker that write nothing: it leaves, or goes on along the *)
(* path of its copy.                                                       *)
WritesNothing ==
  /\ UNCHANGED server
  /\ \/ pc' = "idle"
     \/ /\ UNCHANGED <<helmApp, appFresh>>
        /\ pc # "idle"
        /\ \/ pc' = pc
           \/ /\ pc \in {"initHelm", "components", "leftovers"} /\ ~helmApp.deleting
              /\ pc' \in {"components", "leftovers", "updateStatus"}
           \/ pc = "initHelm" /\ helmApp.deleting /\ pc' = "deleteComponents"

LEMMA WritesNothingKeepsHeld ==
  ASSUME HeldInv, WritesNothing
  PROVE  HeldInv'
<1>1. FreshCopies'
  BY DEF HeldInv, FreshCopies, WritesNothing, server
<1>2. PathFollowsCopy'
  BY DEF HeldInv, PathFollowsCopy, WritesNothing
<1>3. CopiesAreHeld'
  BY DEF HeldInv, CopiesAreHeld, PathFollowsCopy, WritesNothing, server, Held
<1> QED BY <1>1, <1>2, <1>3 DEF HeldInv

LEMMA ComponentWritesNothing ==
  ASSUME HeldInv, ReconcileComponent
  PROVE  WritesNothing
<1> USE DEF WritesNothing, Stays, Reports
<1>1. CASE RepoMissing
  BY <1>1 DEF RepoMissing, Errs, Leaves
<1>2. CASE ChartUnavailable \/ HistoryFails
  BY <1>2 DEF ChartUnavailable, HistoryFails, ChartLoaded, AtComponent
<1>3. CASE InstallRejected \/ InstallStores
  BY <1>3 DEF InstallRejected, InstallStores, MustInstall, ChartLoaded, AtComponent
<1>4. CASE InstallSucceeds \/ InstallFails \/ InstallUnrecorded
  BY <1>4 DEF InstallSucceeds, InstallFails, InstallUnrecorded, InstallEnds
<1>5. CASE SkipsUnchanged
  BY <1>5 DEF SkipsUnchanged, ReleaseExists, ChartLoaded, AtComponent
<1>6. CASE UpgradeRejected \/ UpgradeStores
  BY <1>6 DEF UpgradeRejected, UpgradeStores, MustUpgrade, ReleaseExists, ChartLoaded, AtComponent
<1>7. CASE UpgradeSucceeds \/ UpgradeFails \/ UpgradeUnrecorded
  BY <1>7 DEF UpgradeSucceeds, UpgradeFails, UpgradeUnrecorded, UpgradeEnds
<1>8. CASE ComponentsDone
  BY <1>8 DEF ComponentsDone, HeldInv, PathFollowsCopy
<1> QED BY <1>1, <1>2, <1>3, <1>4, <1>5, <1>6, <1>7, <1>8 DEF ReconcileComponent

LEMMA UninstallWritesNothing ==
  ASSUME HeldInv, Uninstall
  PROVE  WritesNothing
<1> USE DEF WritesNothing, Stays, Clears, AtStatus, ToUninstall
<1>1. CASE NothingToUninstall \/ FindsNoRelease \/ UninstallStarts \/ Uninstalled
  BY <1>1 DEF NothingToUninstall, FindsNoRelease, UninstallStarts, Uninstalled
<1>2. CASE UninstallFails
  BY <1>2 DEF UninstallFails
<1>3. CASE LeftoversDone
  BY <1>3 DEF LeftoversDone, HeldInv, PathFollowsCopy
<1> QED BY <1>1, <1>2, <1>3 DEF Uninstall

(* The user and the API server: a held object is only marked.              *)
LEMMA UserKeepsHeld ==
  ASSUME TypeInv, HeldInv, User
  PROVE  HeldInv'
<1>1. PICK new : UserWrites(new) /\ (Held(stored) => Held(new))
  <2>1. stored \in App
    BY DEF TypeInv, TypeOK
  <2>2. CASE UserCreates
    BY <2>2 DEF UserCreates, Held
  <2>3. CASE UserUpdates
    <3>1. PICK s \in Specs \ {stored.spec} : UserWrites([stored EXCEPT !.spec = s])
      BY <2>3 DEF UserUpdates
    <3>2. Held(stored) => Held([stored EXCEPT !.spec = s])
      BY <2>1 DEF Held, App
    <3> QED BY <3>1, <3>2
  <2>4. CASE UserDeletes
    <3>1. Held(stored) => Held([stored EXCEPT !.deleting = TRUE])
      BY <2>1 DEF Held, App
    <3> QED BY <2>4, <3>1 DEF UserDeletes, Held
  <2> QED BY <2>2, <2>3, <2>4 DEF User
<1>2. FreshCopies' /\ PathFollowsCopy'
  BY <1>1 DEF UserWrites, HeldInv, FreshCopies, PathFollowsCopy
<1>3. CopiesAreHeld'
  BY <1>1 DEF UserWrites, HeldInv, CopiesAreHeld, Held
<1> QED BY <1>2, <1>3 DEF HeldInv

LEMMA QueueKeepsHeld ==
  ASSUME HeldInv, Deliver \/ Resync \/ DelayExpires \/ Crash
  PROVE  HeldInv'
<1>1. CASE Deliver
  BY <1>1 DEF Deliver, HeldInv, FreshCopies, PathFollowsCopy, CopiesAreHeld, Held, local
<1>2. CASE Resync \/ DelayExpires
  BY <1>2 DEF Resync, DelayExpires, HeldInv, FreshCopies, PathFollowsCopy, CopiesAreHeld, Held,
              local, server
<1>3. CASE Crash
  BY <1>3 DEF Crash, Leaves, HeldInv, FreshCopies, PathFollowsCopy, CopiesAreHeld, Held
<1> QED BY <1>1, <1>2, <1>3

LEMMA StartKeepsHeld ==
  ASSUME TypeInv, HeldInv,
         GetFindsNothing \/ GetFindsApp \/ AddsFinalizer \/ HelmInitFails
           \/ SpecMissing \/ StartsComponents \/ StartsDeletion
  PROVE  HeldInv'
<1>1. CASE GetFindsNothing
  BY <1>1, WritesNothingKeepsHeld DEF GetFindsNothing, Dequeue, WritesNothing
<1>2. CASE GetFindsApp
  <2>1. cached \in App
    BY DEF TypeInv, TypeOK
  <2>2. FreshCopies'
    BY <1>2 DEF GetFindsApp, Dequeue, HeldInv, FreshCopies, server
  <2>3. PathFollowsCopy'
    BY <1>2 DEF GetFindsApp, FirstStep, Dequeue, PathFollowsCopy
  <2>4. CopiesAreHeld'
    BY <1>2 DEF GetFindsApp, FirstStep, Dequeue, HeldInv, CopiesAreHeld, Held, server
  <2> QED BY <2>2, <2>3, <2>4 DEF HeldInv
<1>3. CASE AddsFinalizer
  <2> DEFINE new == [helmApp EXCEPT !.finalizer = TRUE]
  <2>1. /\ stored' = new /\ helmApp' = new /\ UNCHANGED <<cached, appFresh>>
        /\ cacheFresh' = (cacheFresh /\ new = stored)
        /\ pc = "addFinalizer" /\ pc' = "initHelm"
    BY <1>3 DEF AddsFinalizer, Stores
  <2>2. helmApp \in App /\ helmApp.present /\ ~helmApp.deleting
    BY <2>1 DEF TypeInv, TypeOK, HeldInv, PathFollowsCopy
  <2>3. Held(new) /\ new.present /\ ~new.deleting
    BY <2>2 DEF Held, App
  <2> HIDE DEF new
  <2>4. FreshCopies'
    BY <2>1 DEF HeldInv, FreshCopies
  <2>5. PathFollowsCopy'
    BY <2>1, <2>3 DEF PathFollowsCopy
  <2>6. CopiesAreHeld'
    BY <2>1, <2>3 DEF CopiesAreHeld, Held
  <2> QED BY <2>4, <2>5, <2>6 DEF HeldInv
<1>4. CASE HelmInitFails \/ SpecMissing
  BY <1>4, WritesNothingKeepsHeld DEF HelmInitFails, SpecMissing, Errs, Leaves, WritesNothing
<1>5. CASE StartsComponents \/ StartsDeletion
  BY <1>5, WritesNothingKeepsHeld DEF StartsComponents, StartsDeletion, WritesNothing
<1> QED BY <1>1, <1>2, <1>3, <1>4, <1>5

(* A write of the worker stores its copy with another status, with the     *)
(* finalizer added, or nothing at all; the last only when no copy shows    *)
(* the object as not terminating.                                          *)
LEMMA WrittenIsHeld ==
  ASSUME TypeInv, HeldInv, appFresh, pc # "idle",
         NEW new, \/ new = [helmApp EXCEPT !.status = NewStatus]
                  \/ new = [helmApp EXCEPT !.finalizer = TRUE]
                  \/ new = NoApp /\ helmApp.deleting
  PROVE  Held(cached) /\ ~cached.deleting => Held(new)
<1>1. helmApp \in App /\ helmApp = stored
  BY DEF TypeInv, TypeOK, HeldInv, FreshCopies
<1>2. CASE new = [helmApp EXCEPT !.status = NewStatus]
  <2>1. new.present = helmApp.present /\ new.finalizer = helmApp.finalizer
    BY <1>1, <1>2 DEF App
  <2> QED BY <1>1, <2>1 DEF HeldInv, CopiesAreHeld, Held
<1>3. CASE new = [helmApp EXCEPT !.finalizer = TRUE]
  <2>1. new.present = helmApp.present /\ new.finalizer = TRUE
    BY <1>1, <1>3 DEF App
  <2> QED BY <1>1, <2>1 DEF HeldInv, CopiesAreHeld, Held
<1>4. CASE new = NoApp /\ helmApp.deleting
  BY <1>4 DEF HeldInv, CopiesAreHeld
<1> QED BY <1>2, <1>3, <1>4

LEMMA WriteKeepsHeld ==
  ASSUME TypeInv, HeldInv,
         WritesStatus \/ DeletePanics \/ WritesDeleteStatus \/ RemovesFinalizer \/ WriteFails
  PROVE  HeldInv'
<1>1. ASSUME NEW new, Stores(new), pc' = "idle",
             Held(cached) /\ ~cached.deleting => Held(new)
      PROVE  HeldInv'
  BY <1>1 DEF Stores, HeldInv, FreshCopies, PathFollowsCopy, CopiesAreHeld, Held
<1>2. CASE WritesStatus
  BY <1>1, <1>2, WrittenIsHeld DEF WritesStatus, Returns, Leaves
<1>3. CASE DeletePanics
  BY <1>3, WritesNothingKeepsHeld DEF DeletePanics, Errs, Leaves, WritesNothing
<1>4. CASE WritesDeleteStatus
  <2> DEFINE new == [helmApp EXCEPT !.status = NewStatus]
  <2>1. /\ Stores(new) /\ appFresh /\ pc = "deleteComponents"
        /\ Held(cached) /\ ~cached.deleting => Held(new)
    BY <1>4, WrittenIsHeld DEF WritesDeleteStatus, AllUninstalled, AllProcessed
  <2>2. CASE componentStatuses = <<>>
    <3>1. pc' = "removeFinalizer" /\ helmApp' = new /\ appFresh' = appFresh
      BY <1>4, <2>2 DEF WritesDeleteStatus, AllUninstalled
    <3>2. helmApp \in App /\ helmApp.present /\ helmApp.deleting
      BY <2>1 DEF TypeInv, TypeOK, HeldInv, PathFollowsCopy
    <3>3. new.present /\ new.deleting
      BY <3>2 DEF App
    <3>4. cached.deleting
      BY <2>1, <3>2 DEF HeldInv, CopiesAreHeld
    <3> HIDE DEF new
    <3>5. FreshCopies'
      BY <2>1, <3>1 DEF Stores, HeldInv, FreshCopies
    <3>6. PathFollowsCopy'
      BY <3>1, <3>3 DEF PathFollowsCopy
    <3>7. CopiesAreHeld'
      BY <2>1, <3>1, <3>3, <3>4 DEF Stores, CopiesAreHeld, Held
    <3> QED BY <3>5, <3>6, <3>7 DEF HeldInv
  <2>3. CASE componentStatuses # <<>>
    BY <1>1, <1>4, <2>1, <2>3 DEF WritesDeleteStatus, AllUninstalled, Returns, Leaves
  <2> QED BY <2>2, <2>3
<1>5. CASE RemovesFinalizer
  <2>1. helmApp.deleting
    BY <1>5 DEF RemovesFinalizer, HeldInv, PathFollowsCopy
  <2> QED BY <1>1, <1>5, <2>1, WrittenIsHeld DEF RemovesFinalizer, Returns, Leaves
<1>6. CASE WriteFails
  <2>1. pc' = "idle" /\ pc # "idle"
    BY <1>6 DEF WriteFails, Writing, AllProcessed, Errs, Leaves
  <2>2. CASE UNCHANGED server
    BY <2>1, <2>2, WritesNothingKeepsHeld DEF WritesNothing
  <2>3. CASE appFresh /\ Stores(Written)
    <3>1. pc = "removeFinalizer" => helmApp.deleting
      BY DEF HeldInv, PathFollowsCopy
    <3>2. Held(cached) /\ ~cached.deleting => Held(Written)
      BY <2>1, <2>3, <3>1, WrittenIsHeld DEF Written
    <3> QED BY <1>1, <2>1, <2>3, <3>2
  <2> QED BY <1>6, <2>2, <2>3 DEF WriteFails, server
<1> QED BY <1>2, <1>3, <1>4, <1>5, <1>6

LEMMA HeldInvStep == TypeInv /\ HeldInv /\ [Next]_vars => HeldInv'
<1> SUFFICES ASSUME TypeInv, HeldInv, [Next]_vars PROVE HeldInv'
  OBVIOUS
<1>1. CASE UNCHANGED vars
  BY <1>1 DEF HeldInv, FreshCopies, PathFollowsCopy, CopiesAreHeld, Held, vars, server, local
<1>2. CASE User
  BY <1>2, UserKeepsHeld
<1>3. CASE Deliver \/ Resync \/ DelayExpires \/ Crash
  BY <1>3, QueueKeepsHeld
<1>4. CASE ReconcileComponent \/ Uninstall
  BY <1>4, ComponentWritesNothing, UninstallWritesNothing, WritesNothingKeepsHeld
<1>5. CASE Reconcile
  BY <1>4, <1>5, StartKeepsHeld, WriteKeepsHeld DEF Reconcile
<1> QED BY <1>1, <1>2, <1>3, <1>5 DEF Next

LEMMA HeldInvInit == Init => HeldInv
BY DEF Init, HeldInv, FreshCopies, PathFollowsCopy, CopiesAreHeld, Held, NoApp

(* Helm is only touched for an object the finalizer holds back, for any    *)
(* number of edits, faults, crashes and stale reads.                       *)
THEOREM FinalizerBeforeInstall == Spec => []InstallUnderFinalizer
<1>1. HeldInv => InstallUnderFinalizer
  BY DEF HeldInv, PathFollowsCopy, CopiesAreHeld, InstallUnderFinalizer, Held
<1> QED BY <1>1, HeldInvInit, HeldInvStep, TypeInvInit, TypeInvStep, PTL DEF Spec
=============================================================================
