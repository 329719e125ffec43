---------------------------- MODULE IopController ----------------------------
(***************************************************************************)
(* The IstioOperator controller (internal/istio/iop.go) reconciling one    *)
(* IstioOperator into the HelmApp of the same name: both objects in the    *)
(* API server, the manager's informer cache of each, the work queue and    *)
(* the worker that runs IstioOperatorReconciler.Reconcile.                 *)
(*                                                                         *)
(* The controller watches IstioOperators only, so a change of the HelmApp  *)
(* reaches its cache but never its queue.  The HelmApp controller appears  *)
(* as the steps of AppLifecycle that this controller can tell apart.       *)
(***************************************************************************)
EXTENDS Naturals

CONSTANTS
  IopSpecs,       \* the specs users give an IstioOperator
  AppSpecs,       \* the specs of HelmApps
  UserAppSpecs,   \* the specs of HelmApps that users write themselves
  NoSpec,         \* the spec of an object that is not there
  Convert,        \* convertIopToHelmApp: the HelmApp spec of an IstioOperator's
  Unconvertible,  \* what it is for a nil spec, a missing profile, bad values
  DeepEqualHolds, \* whether reflect.DeepEqual ever finds two specs equal
  MaxEdits,       \* bound on user operations on the IstioOperator
  MaxAppEdits,    \* bound on user operations on the HelmApp
  MaxReports,     \* bound on status writes of the HelmApp controller
  MaxFaults       \* bound on failed calls, lost answers and crashes

Iop == [present : BOOLEAN, spec : IopSpecs \cup {NoSpec}, deleting : BOOLEAN, finalizer : BOOLEAN]

(* managed: the label pluma.io/managed has the value pluma-operator.       *)
HelmApp == [present : BOOLEAN, managed : BOOLEAN, spec : AppSpecs \cup {NoSpec},
            deleting : BOOLEAN, finalizer : BOOLEAN]

NoIop == [present |-> FALSE, spec |-> NoSpec, deleting |-> FALSE, finalizer |-> FALSE]

NoHelmApp == [present |-> FALSE, managed |-> FALSE, spec |-> NoSpec, deleting |-> FALSE,
              finalizer |-> FALSE]

ASSUME IopAssumption ==
  /\ UserAppSpecs \subseteq AppSpecs
  /\ Unconvertible \notin AppSpecs
  /\ Convert \in [IopSpecs -> AppSpecs \cup {Unconvertible}]
  /\ DeepEqualHolds \in BOOLEAN
  /\ MaxEdits \in Nat /\ MaxAppEdits \in Nat /\ MaxReports \in Nat /\ MaxFaults \in Nat

VARIABLES
  storedIop, cachedIop,  \* the IstioOperator in the API server, in the cache
  iopCacheFresh,         \* cachedIop is the stored version
  storedApp, cachedApp,  \* the HelmApp in the API server, in the cache
  appCacheFresh,         \* cachedApp is the stored version
  queued, delayed,       \* the key is in the work queue, waits for the rate limiter
  pc,                    \* where the worker is in Reconcile
  iop, iopFresh,         \* Reconcile's IstioOperator, and whether it is the stored version
  existing, existingFresh, \* createOrUpdateHelmApp's existingHelmApp, likewise
  edits, appEdits, reports, faults

iopServer == <<storedIop, cachedIop, iopCacheFresh>>
appServer == <<storedApp, cachedApp, appCacheFresh>>
queue     == <<queued, delayed>>
local     == <<pc, iop, iopFresh, existing, existingFresh>>
counters  == <<edits, appEdits, reports, faults>>
vars      == <<iopServer, appServer, queue, local, counters>>

Init ==
  /\ storedIop = NoIop /\ cachedIop = NoIop /\ iopCacheFresh = TRUE
  /\ storedApp = NoHelmApp /\ cachedApp = NoHelmApp /\ appCacheFresh = TRUE
  /\ queued = FALSE /\ delayed = FALSE
  /\ pc = "idle" /\ iop = NoIop /\ iopFresh = FALSE
  /\ existing = NoHelmApp /\ existingFresh = FALSE
  /\ edits = 0 /\ appEdits = 0 /\ reports = 0 /\ faults = 0

Fault == faults < MaxFaults /\ faults' = faults + 1 /\ UNCHANGED <<edits, appEdits, reports>>

-----------------------------------------------------------------------------
(* The API server.  A write that changes nothing keeps the version.        *)

StoresIop(new) ==
  /\ storedIop' = new
  /\ iopCacheFresh' = (iopCacheFresh /\ new = storedIop)
  /\ UNCHANGED cachedIop

StoresApp(new) ==
  /\ storedApp' = new
  /\ appCacheFresh' = (appCacheFresh /\ new = storedApp)
  /\ UNCHANGED cachedApp

(* What a delete leaves of an object: a finalizer keeps it, marked.        *)
AfterDelete(object, none) ==
  IF object.finalizer THEN [object EXCEPT !.deleting = TRUE] ELSE none

-----------------------------------------------------------------------------
(* Users                                                                   *)

UserWritesIop(new) ==
  /\ edits < MaxEdits /\ edits' = edits + 1
  /\ storedIop' = new
  /\ iopCacheFresh' = FALSE /\ iopFresh' = FALSE
  /\ UNCHANGED <<cachedIop, appServer, queue, pc, iop, existing, existingFresh,
                 appEdits, reports, faults>>

UserCreatesIop ==
  /\ ~storedIop.present
  /\ \E s \in IopSpecs : UserWritesIop([NoIop EXCEPT !.present = TRUE, !.spec = s])

UserUpdatesIop ==
  /\ storedIop.present
  /\ \E s \in IopSpecs \ {storedIop.spec} : UserWritesIop([storedIop EXCEPT !.spec = s])

UserDeletesIop ==
  /\ storedIop.present /\ ~storedIop.deleting
  /\ UserWritesIop(AfterDelete(storedIop, NoIop))

(* Somebody else's write to the HelmApp: every copy of it is old.          *)
AppChanges(new) ==
  /\ storedApp' = new
  /\ appCacheFresh' = FALSE /\ existingFresh' = FALSE
  /\ UNCHANGED <<cachedApp, iopServer, queue, pc, iop, iopFresh, existing>>

UserWritesApp(new) ==
  /\ appEdits < MaxAppEdits /\ appEdits' = appEdits + 1
  /\ AppChanges(new)
  /\ UNCHANGED <<edits, reports, faults>>

UserCreatesApp ==
  /\ ~storedApp.present
  /\ \E s \in UserAppSpecs : UserWritesApp([NoHelmApp EXCEPT !.present = TRUE, !.spec = s])

UserUpdatesApp ==
  /\ storedApp.present
  /\ \E s \in UserAppSpecs \ {storedApp.spec} : UserWritesApp([storedApp EXCEPT !.spec = s])

UserDeletesApp ==
  /\ storedApp.present /\ ~storedApp.deleting
  /\ UserWritesApp(AfterDelete(storedApp, NoHelmApp))

-----------------------------------------------------------------------------
(* The HelmApp controller: Hold, Report and Release of AppLifecycle.  Its  *)
(* reports do not show in this module except as new versions.              *)

AppIsHeld ==
  /\ storedApp.present /\ ~storedApp.finalizer
  /\ AppChanges([storedApp EXCEPT !.finalizer = TRUE])
  /\ UNCHANGED counters

AppIsReported ==
  /\ storedApp.present /\ storedApp.finalizer
  /\ reports < MaxReports /\ reports' = reports + 1
  /\ AppChanges(storedApp)
  /\ UNCHANGED <<edits, appEdits, faults>>

AppIsReleased ==
  /\ storedApp.present /\ storedApp.deleting
  /\ AppChanges(NoHelmApp)
  /\ UNCHANGED counters

-----------------------------------------------------------------------------
(* The manager: informers and work queue                                   *)

DeliverIop ==
  /\ ~iopCacheFresh
  /\ cachedIop' = storedIop /\ iopCacheFresh' = TRUE
  /\ queued' = TRUE
  /\ UNCHANGED <<storedIop, appServer, delayed, local, counters>>

(* No handler of this controller is attached to the HelmApp informer.      *)
DeliverApp ==
  /\ ~appCacheFresh
  /\ cachedApp' = storedApp /\ appCacheFresh' = TRUE
  /\ UNCHANGED <<storedApp, iopServer, queue, local, counters>>

Resync ==
  /\ cachedIop.present /\ ~queued
  /\ queued' = TRUE
  /\ UNCHANGED <<iopServer, appServer, delayed, local, counters>>

DelayExpires ==
  /\ delayed
  /\ delayed' = FALSE /\ queued' = TRUE
  /\ UNCHANGED <<iopServer, appServer, local, counters>>

-----------------------------------------------------------------------------
(* Reconcile                                                               *)

Leaves ==
  /\ pc' = "idle" /\ iop' = NoIop /\ iopFresh' = FALSE
  /\ existing' = NoHelmApp /\ existingFresh' = FALSE

ErrsWithoutRetry == Leaves /\ UNCHANGED queue   \* mistake: the error is swallowed
Errs    == Leaves /\ delayed' = TRUE /\ UNCHANGED queued
Returns == Leaves /\ UNCHANGED queue

Goes(to) == pc' = to /\ UNCHANGED <<queue, iopFresh, existingFresh>>

Dequeue ==
  /\ pc = "idle" /\ queued
  /\ queued' = FALSE
  /\ UNCHANGED <<iopServer, appServer, delayed, existing, existingFresh, counters>>

GetFindsNothing ==
  /\ Dequeue
  /\ ~cachedIop.present
  /\ UNCHANGED <<pc, iop, iopFresh>>

FirstStepUnguarded(object) == IF object.deleting THEN "reconcileDelete" ELSE "convert"  \* mistake

FirstStep(object) ==
  IF object.deleting THEN "reconcileDelete"
  ELSE IF object.finalizer THEN "convert" ELSE "addFinalizer"

GetFindsIop ==
  /\ Dequeue
  /\ cachedIop.present
  /\ iop' = cachedIop /\ iopFresh' = iopCacheFresh
  /\ pc' = FirstStep(cachedIop)

AddsFinalizer ==
  /\ pc = "addFinalizer" /\ iopFresh
  /\ StoresIop([iop EXCEPT !.finalizer = TRUE])
  /\ iop' = [iop EXCEPT !.finalizer = TRUE]
  /\ Goes("convert")
  /\ UNCHANGED <<appServer, existing, counters>>

(* convertIopToHelmApp fails, as it always does for this spec, or because  *)
(* the profile file could not be read.                                     *)
ConversionFails ==
  /\ pc = "convert"
  /\ \/ Convert[iop.spec] = Unconvertible /\ UNCHANGED counters
     \/ Fault
  /\ Errs
  /\ UNCHANGED <<iopServer, appServer>>

Wanted == Convert[iop.spec]

ConvertedUnchecked == pc = "convert"   \* mistake: the error is not looked at
Converted == pc = "convert" /\ Wanted # Unconvertible

FindsNoHelmApp ==
  /\ Converted /\ ~cachedApp.present
  /\ Goes("create")
  /\ UNCHANGED <<iopServer, appServer, iop, existing, counters>>

(* The Spec structs are compared with the bookkeeping that the protobuf    *)
(* runtime keeps inside them: the wanted one was marshalled and has it,    *)
(* the nested messages of a copy from the cache do not.                    *)
DeepEqual(app, spec) == DeepEqualHolds /\ app.spec = spec

NeedsUpdateIfSpecDiffers(app) == app.managed /\ app.spec # Wanted  \* mistake: on a stale copy
NeedsUpdateIfAny(app) == TRUE                                      \* mistake
NeedsUpdate(app) == app.managed /\ ~DeepEqual(app, Wanted)

FindsHelmApp ==
  /\ Converted /\ cachedApp.present
  /\ NeedsUpdate(cachedApp)
  /\ pc' = "update" /\ existing' = cachedApp /\ existingFresh' = appCacheFresh
  /\ UNCHANGED <<iopServer, appServer, queue, iop, iopFresh, counters>>

KeepsHelmApp ==
  /\ Converted /\ cachedApp.present
  /\ ~NeedsUpdate(cachedApp)
  /\ Returns
  /\ UNCHANGED <<iopServer, appServer, counters>>

CreatesHelmApp ==
  /\ pc = "create" /\ ~storedApp.present
  /\ StoresApp([NoHelmApp EXCEPT !.present = TRUE, !.managed = TRUE, !.spec = Wanted])
  /\ Returns
  /\ UNCHANGED <<iopServer, counters>>

Overwrites ==   \* mistake: the new object is written, not the spec of the existing one
  /\ pc = "update" /\ existingFresh
  /\ StoresApp([NoHelmApp EXCEPT !.present = TRUE, !.managed = TRUE, !.spec = Wanted])
  /\ Returns
  /\ UNCHANGED <<iopServer, counters>>
UpdatesHelmApp ==
  /\ pc = "update" /\ existingFresh
  /\ StoresApp([existing EXCEPT !.spec = Wanted])
  /\ Returns
  /\ UNCHANGED <<iopServer, counters>>

(* The name is taken, the copy is old, the call fails or its answer is     *)
(* lost.                                                                   *)
WriteAppFails ==
  /\ \/ pc = "create" /\ storedApp.present /\ UNCHANGED <<appServer, counters>>
     \/ pc = "update" /\ ~existingFresh /\ UNCHANGED <<appServer, counters>>
     \/ pc \in {"create", "update", "deleteHelmApp"} /\ Fault /\ UNCHANGED appServer
     \/ /\ pc = "create" /\ ~storedApp.present /\ Fault
        /\ StoresApp([NoHelmApp EXCEPT !.present = TRUE, !.managed = TRUE, !.spec = Wanted])
     \/ pc = "update" /\ existingFresh /\ Fault /\ StoresApp([existing EXCEPT !.spec = Wanted])
     \/ pc = "deleteHelmApp" /\ ~storedApp.present /\ UNCHANGED <<appServer, counters>>
     \/ /\ pc = "deleteHelmApp" /\ storedApp.present /\ Fault
        /\ StoresApp(AfterDelete(storedApp, NoHelmApp))
  /\ Errs
  /\ UNCHANGED iopServer

-----------------------------------------------------------------------------
(* reconcileDelete                                                         *)

FindsAppToDelete ==
  /\ pc = "reconcileDelete"
  /\ cachedApp.present /\ cachedApp.managed
  /\ Goes("deleteHelmApp")
  /\ UNCHANGED <<iopServer, appServer, iop, existing, counters>>

FindsNoAppToDelete ==
  /\ pc = "reconcileDelete"
  /\ ~(cachedApp.present /\ cachedApp.managed)
  /\ Goes("removeFinalizer")
  /\ UNCHANGED <<iopServer, appServer, iop, existing, counters>>

(* The call names the object and nothing else of it: no version, no UID.   *)
DeletesHelmApp ==
  /\ pc = "deleteHelmApp" /\ storedApp.present
  /\ StoresApp(AfterDelete(storedApp, NoHelmApp))
  /\ Goes("removeFinalizer")
  /\ UNCHANGED <<iopServer, iop, existing, counters>>

(* The IstioOperator is terminating: without a finalizer it goes.          *)
RemovesFinalizer ==
  /\ pc = "removeFinalizer" /\ iopFresh
  /\ StoresIop(NoIop)
  /\ Returns
  /\ UNCHANGED <<appServer, counters>>

WriteIopFails ==
  /\ \/ pc \in {"addFinalizer", "removeFinalizer"} /\ ~iopFresh /\ UNCHANGED <<iopServer, counters>>
     \/ pc \in {"addFinalizer", "removeFinalizer"} /\ Fault /\ UNCHANGED iopServer
     \/ pc = "addFinalizer" /\ iopFresh /\ Fault /\ StoresIop([iop EXCEPT !.finalizer = TRUE])
     \/ pc = "removeFinalizer" /\ iopFresh /\ Fault /\ StoresIop(NoIop)
  /\ Errs
  /\ UNCHANGED appServer

-----------------------------------------------------------------------------
(* The manager process ends and is started again.                          *)
Crash ==
  /\ Fault
  /\ Leaves
  /\ cachedIop' = storedIop /\ iopCacheFresh' = TRUE
  /\ cachedApp' = storedApp /\ appCacheFresh' = TRUE
  /\ queued' = storedIop.present /\ delayed' = FALSE
  /\ UNCHANGED <<storedIop, storedApp>>

User == UserCreatesIop \/ UserUpdatesIop \/ UserDeletesIop
        \/ UserCreatesApp \/ UserUpdatesApp \/ UserDeletesApp

HelmAppController == AppIsHeld \/ AppIsReported \/ AppIsReleased

Reconcile ==
  \/ GetFindsNothing \/ GetFindsIop \/ AddsFinalizer \/ ConversionFails
  \/ FindsNoHelmApp \/ FindsHelmApp \/ KeepsHelmApp
  \/ CreatesHelmApp \/ UpdatesHelmApp \/ WriteAppFails
  \/ FindsAppToDelete \/ FindsNoAppToDelete \/ DeletesHelmApp
  \/ RemovesFinalizer \/ WriteIopFails

Next ==
  \/ User \/ HelmAppController
  \/ DeliverIop \/ DeliverApp \/ Resync \/ DelayExpires
  \/ Reconcile \/ Crash

Spec == Init /\ [][Next]_vars

(* The manager keeps running its worker, its watches and its queue; users, *)
(* resyncs and the HelmApp controller owe nothing.                         *)
FairSpec ==
  Spec /\ WF_vars(Reconcile) /\ WF_vars(DeliverIop) /\ WF_vars(DeliverApp) /\ WF_vars(DelayExpires)

-----------------------------------------------------------------------------
(* Properties                                                              *)

(* Every variable holds a value of the kind the Go code gives it.          *)
TypeOK ==
  /\ storedIop \in Iop /\ cachedIop \in Iop /\ iop \in Iop
  /\ storedApp \in HelmApp /\ cachedApp \in HelmApp /\ existing \in HelmApp
  /\ iopCacheFresh \in BOOLEAN /\ appCacheFresh \in BOOLEAN
  /\ iopFresh \in BOOLEAN /\ existingFresh \in BOOLEAN
  /\ queued \in BOOLEAN /\ delayed \in BOOLEAN
  /\ pc \in {"idle", "addFinalizer", "convert", "create", "update",
             "reconcileDelete", "deleteHelmApp", "removeFinalizer"}
  /\ edits \in 0..MaxEdits /\ appEdits \in 0..MaxAppEdits
  /\ reports \in 0..MaxReports /\ faults \in 0..MaxFaults

(* A HelmApp is written only while the API server holds the IstioOperator  *)
(* back with the finalizer, however stale the copy that asked for it: a    *)
(* delete of the IstioOperator cannot overtake the creation.               *)
WritesUnderFinalizer == pc \in {"create", "update"} => storedIop.present /\ storedIop.finalizer

(* A HelmApp without the label is the user's: its spec changes only by the *)
(* user's hand, also when it replaced a managed one behind the cache.      *)
UnmanagedKeepsSpec ==
  [][storedApp.present /\ ~storedApp.managed /\ storedApp'.present
       /\ storedApp'.spec # storedApp.spec => appEdits' # appEdits]_vars

Quiescent == pc = "idle" /\ ~queued /\ ~delayed /\ iopCacheFresh /\ appCacheFresh

(* No wake-up is lost: when nothing is queued, delayed, undelivered or     *)
(* running, the IstioOperator is not terminating and carries the           *)
(* finalizer, and its HelmApp, if users let it alone, does not show an     *)
(* outdated conversion, although no change of a HelmApp wakes anybody.     *)
QuiescentMeansProcessed ==
  Quiescent /\ storedIop.present =>
    /\ ~storedIop.deleting /\ storedIop.finalizer
    /\ appEdits = 0 /\ storedApp.present =>
         storedApp.managed /\ storedApp.spec = Convert[storedIop.spec]

(* An IstioOperator that is deleted goes away, whatever its HelmApp does.  *)
IopDeletionCompletes ==
  storedIop.present /\ storedIop.deleting ~> ~(storedIop.present /\ storedIop.deleting)

(* Every convertible edit of an IstioOperator reaches its HelmApp, unless  *)
(* users change or delete either of them first.                            *)
EditsReachHelmApp ==
  \A s \in {t \in IopSpecs : Convert[t] # Unconvertible} :
    LET Asks == /\ storedIop.present /\ ~storedIop.deleting /\ storedIop.spec = s
                /\ storedApp.present /\ ~storedApp.deleting /\ appEdits = 0
    IN  Asks ~> ~Asks \/ storedApp.spec = Convert[s]

-----------------------------------------------------------------------------
(* The life of the HelmApp, AppLifecycle.  The names that its status       *)
(* records do not show here.                                               *)

LifecyclePhase ==
  CASE ~storedApp.present -> "absent"
    [] storedApp.present /\ ~storedApp.finalizer -> "unheld"
    [] storedApp.present /\ storedApp.finalizer /\ ~storedApp.deleting -> "held"
    [] OTHER -> "terminating"

Lifecycle ==
  INSTANCE AppLifecycle WITH Names <- {}, phase <- LifecyclePhase, recorded <- {}, installed <- {}

(* This controller and users write the object that the HelmApp controller  *)
(* holds and releases, through copies of it that may be old: neither its   *)
(* finalizer nor its deletion is ever lost or brought back by that.        *)
ImplementsLifecycle == Lifecycle!Spec

-----------------------------------------------------------------------------
(* What the repository says and the code does not do                       *)

(* When there is nothing left to do, no managed HelmApp outlives its       *)
(* IstioOperator.                                                          *)
NoHelmAppIsLeft ==
  Quiescent /\ ~storedIop.present =>
    ~(storedApp.present /\ storedApp.managed /\ ~storedApp.deleting)

(* When there is nothing left to do, an IstioOperator has a HelmApp.       *)
HelmAppExists == Quiescent /\ storedIop.present => storedApp.present
=============================================================================
