------------------------- MODULE IopControllerProofs -------------------------
(***************************************************************************)
(* Proofs about IopController: types, the finalizer, the HelmApps that     *)
(* belong to users, and the wake-ups.                                      *)
(***************************************************************************)
EXTENDS IopController, TLAPS

LEMMA NoneAreObjects == NoIop \in Iop /\ NoHelmApp \in HelmApp
BY DEF NoIop, NoHelmApp, Iop, HelmApp

LEMMA IopUpdates ==
  ASSUME NEW o \in Iop
  PROVE  /\ \A s \in IopSpecs : [o EXCEPT !.spec = s] \in Iop
         /\ [o EXCEPT !.finalizer = TRUE] \in Iop
         /\ AfterDelete(o, NoIop) \in Iop
BY NoneAreObjects DEF Iop, AfterDelete

LEMMA AppUpdates ==
  ASSUME NEW a \in HelmApp
  PROVE  /\ \A s \in AppSpecs : [a EXCEPT !.spec = s] \in HelmApp
         /\ [a EXCEPT !.finalizer = TRUE] \in HelmApp
         /\ AfterDelete(a, NoHelmApp) \in HelmApp
BY NoneAreObjects DEF HelmApp, AfterDelete

LEMMA NewObjects ==
  /\ \A s \in IopSpecs : [NoIop EXCEPT !.present = TRUE, !.spec = s] \in Iop
  /\ \A s \in AppSpecs :
       /\ [NoHelmApp EXCEPT !.present = TRUE, !.spec = s] \in HelmApp
       /\ [NoHelmApp EXCEPT !.present = TRUE, !.managed = TRUE, !.spec = s] \in HelmApp
BY DEF NoIop, NoHelmApp, Iop, HelmApp

(* The worker converts only the spec of an object that is there, and       *)
(* writes a HelmApp only after a conversion that succeeded.                *)
ConvertedInv ==
  /\ \A o \in {storedIop, cachedIop, iop} : o.present => o.spec \in IopSpecs
  /\ pc # "idle" => iop.present
  /\ pc \in {"create", "update"} => Wanted # Unconvertible

TypeInv == TypeOK /\ ConvertedInv

LEMMA WantedIsSpec ==
  ASSUME TypeInv, pc \in {"create", "update"}
  PROVE  Wanted \in AppSpecs
BY IopAssumption DEF TypeInv, ConvertedInv, Wanted

LEMMA Bounds ==
  /\ 0 \in 0..MaxEdits /\ 0 \in 0..MaxAppEdits /\ 0 \in 0..MaxReports /\ 0 \in 0..MaxFaults
  /\ \A n \in 0..MaxEdits : n < MaxEdits => n + 1 \in 0..MaxEdits
  /\ \A n \in 0..MaxAppEdits : n < MaxAppEdits => n + 1 \in 0..MaxAppEdits
  /\ \A n \in 0..MaxReports : n < MaxReports => n + 1 \in 0..MaxReports
  /\ \A n \in 0..MaxFaults : n < MaxFaults => n + 1 \in 0..MaxFaults
BY IopAssumption

LEMMA CountersCount ==
  ASSUME TypeOK, Fault \/ UNCHANGED counters
  PROVE  /\ edits' \in 0..MaxEdits /\ appEdits' \in 0..MaxAppEdits
         /\ reports' \in 0..MaxReports /\ faults' \in 0..MaxFaults
BY Bounds DEF TypeOK, Fault, counters

(* The worker leaves the API server and the caches as they are, or writes  *)
(* one object of the right type.                                           *)
LEMMA LeavingKeepsTypes ==
  ASSUME TypeInv, Leaves, delayed' \in BOOLEAN, queued' = queued,
         Fault \/ UNCHANGED counters,
         UNCHANGED iopServer \/ StoresIop([iop EXCEPT !.finalizer = TRUE]) \/ StoresIop(NoIop),
         \/ UNCHANGED appServer
         \/ \E a \in HelmApp : StoresApp(a)
  PROVE  TypeInv'
<1>1. /\ storedIop' \in Iop /\ cachedIop' \in Iop /\ iopCacheFresh' \in BOOLEAN
      /\ storedApp' \in HelmApp /\ cachedApp' \in HelmApp /\ appCacheFresh' \in BOOLEAN
  BY IopUpdates, NoneAreObjects DEF TypeInv, TypeOK, iopServer, appServer, StoresIop, StoresApp
<1>2. TypeOK'
  BY <1>1, NoneAreObjects, CountersCount DEF TypeInv, TypeOK, Leaves
<1>3. ConvertedInv'
  <2>1. pc' = "idle" /\ iop' = NoIop /\ ~NoIop.present
    BY DEF Leaves, NoIop
  <2>2. storedIop'.present => storedIop'.spec \in IopSpecs
    BY DEF TypeInv, TypeOK, ConvertedInv, iopServer, StoresIop, NoIop, Iop
  <2>3. cachedIop' = cachedIop
    BY DEF iopServer, StoresIop
  <2> QED BY <2>1, <2>2, <2>3 DEF TypeInv, ConvertedInv
<1> QED BY <1>2, <1>3 DEF TypeInv

LEMMA UserKeepsTypes ==
  ASSUME TypeInv, User
  PROVE  TypeInv'
<1>1. storedIop \in Iop /\ storedApp \in HelmApp
  BY DEF TypeInv, TypeOK
<1>2. ASSUME NEW new \in Iop, UserWritesIop(new), new.present => new.spec \in IopSpecs
      PROVE  TypeInv'
  <2>1. TypeOK'
    BY <1>2, Bounds DEF UserWritesIop, TypeInv, TypeOK, appServer, queue
  <2>2. ConvertedInv'
    BY <1>2 DEF UserWritesIop, TypeInv, ConvertedInv, Wanted
  <2> QED BY <2>1, <2>2 DEF TypeInv
<1>3. ASSUME NEW new \in HelmApp, UserWritesApp(new)
      PROVE  TypeInv'
  <2>1. TypeOK'
    BY <1>3, Bounds DEF UserWritesApp, AppChanges, TypeInv, TypeOK, iopServer, queue
  <2>2. ConvertedInv'
    BY <1>3 DEF UserWritesApp, AppChanges, TypeInv, ConvertedInv, Wanted, iopServer
  <2> QED BY <2>1, <2>2 DEF TypeInv
<1>4. CASE UserCreatesIop
  BY <1>2, <1>4, NewObjects DEF UserCreatesIop, NoIop
<1>5. CASE UserUpdatesIop
  <2>1. PICK t \in IopSpecs : UserWritesIop([storedIop EXCEPT !.spec = t])
    BY <1>5 DEF UserUpdatesIop
  <2>2. [storedIop EXCEPT !.spec = t].spec = t
    BY <1>1 DEF Iop
  <2> QED BY <1>1, <1>2, <2>1, <2>2, IopUpdates
<1>6. CASE UserDeletesIop
  <2>1. AfterDelete(storedIop, NoIop).present => AfterDelete(storedIop, NoIop).spec \in IopSpecs
    BY <1>1 DEF TypeInv, ConvertedInv, AfterDelete, NoIop, Iop
  <2> QED BY <1>1, <1>2, <1>6, <2>1, IopUpdates DEF UserDeletesIop
<1>7. CASE UserCreatesApp
  BY <1>3, <1>7, NewObjects, IopAssumption DEF UserCreatesApp
<1>8. CASE UserUpdatesApp
  BY <1>1, <1>3, <1>8, AppUpdates, IopAssumption DEF UserUpdatesApp
<1>9. CASE UserDeletesApp
  BY <1>1, <1>3, <1>9, AppUpdates DEF UserDeletesApp
<1> QED BY <1>4, <1>5, <1>6, <1>7, <1>8, <1>9 DEF User

LEMMA EnvironmentKeepsTypes ==
  ASSUME TypeInv,
         HelmAppController \/ DeliverIop \/ DeliverApp \/ Resync \/ DelayExpires \/ Crash
  PROVE  TypeInv'
<1>1. ASSUME NEW new \in HelmApp, AppChanges(new), UNCHANGED <<edits, appEdits, faults>>,
             reports' \in 0..MaxReports
      PROVE  TypeInv'
  <2>1. TypeOK'
    BY <1>1 DEF AppChanges, TypeInv, TypeOK, iopServer, queue
  <2>2. ConvertedInv'
    BY <1>1 DEF AppChanges, TypeInv, ConvertedInv, Wanted, iopServer
  <2> QED BY <2>1, <2>2 DEF TypeInv
<1>2. CASE HelmAppController
  <2>1. storedApp \in HelmApp /\ reports \in 0..MaxReports
    BY DEF TypeInv, TypeOK
  <2>2. CASE AppIsHeld
    BY <1>1, <2>1, <2>2, AppUpdates DEF AppIsHeld, counters
  <2>3. CASE AppIsReported
    BY <1>1, <2>1, <2>3, Bounds DEF AppIsReported
  <2>4. CASE AppIsReleased
    BY <1>1, <2>1, <2>4, NoneAreObjects DEF AppIsReleased, counters
  <2> QED BY <1>2, <2>2, <2>3, <2>4 DEF HelmAppController
<1>3. CASE DeliverIop \/ DeliverApp \/ Resync \/ DelayExpires
  <2>1. TypeOK'
    BY <1>3 DEF DeliverIop, DeliverApp, Resync, DelayExpires, TypeInv, TypeOK, iopServer,
                appServer, queue, local, counters
  <2>2. ConvertedInv'
    BY <1>3 DEF DeliverIop, DeliverApp, Resync, DelayExpires, TypeInv, ConvertedInv, Wanted,
                iopServer, local
  <2> QED BY <2>1, <2>2 DEF TypeInv
<1>4. CASE Crash
  <2>1. TypeOK'
    BY <1>4, NoneAreObjects, CountersCount DEF Crash, Leaves, TypeInv, TypeOK, Iop
  <2>2. ConvertedInv'
    BY <1>4 DEF Crash, Leaves, TypeInv, ConvertedInv, NoIop
  <2> QED BY <2>1, <2>2 DEF TypeInv
<1> QED BY <1>2, <1>3, <1>4

(* Steps of the worker that stay in Reconcile.                             *)
LEMMA GoingKeepsTypes ==
  ASSUME TypeInv,
         \/ GetFindsNothing \/ GetFindsIop \/ AddsFinalizer \/ FindsNoHelmApp \/ FindsHelmApp
         \/ FindsAppToDelete \/ FindsNoAppToDelete \/ DeletesHelmApp
  PROVE  TypeInv'
<1>1. CASE GetFindsNothing \/ GetFindsIop
  <2>1. TypeOK'
    BY <1>1 DEF GetFindsNothing, GetFindsIop, FirstStep, Dequeue, TypeInv, TypeOK, iopServer,
                appServer, counters
  <2>2. ConvertedInv'
    BY <1>1 DEF GetFindsNothing, GetFindsIop, FirstStep, Dequeue, TypeInv, ConvertedInv, Wanted,
                iopServer
  <2> QED BY <2>1, <2>2 DEF TypeInv
<1>2. CASE AddsFinalizer
  <2> DEFINE new == [iop EXCEPT !.finalizer = TRUE]
  <2>1. iop \in Iop /\ new \in Iop /\ new.present = iop.present /\ new.spec = iop.spec
    BY IopUpdates DEF TypeInv, TypeOK, Iop
  <2>2. /\ storedIop' = new /\ iop' = new /\ cachedIop' = cachedIop /\ pc' = "convert"
        /\ pc = "addFinalizer" /\ iopCacheFresh' \in BOOLEAN
        /\ UNCHANGED <<appServer, queue, iopFresh, existing, existingFresh, counters>>
    BY <1>2 DEF AddsFinalizer, StoresIop, Goes, TypeInv, TypeOK
  <2> HIDE DEF new
  <2>3. TypeOK'
    BY <2>1, <2>2 DEF TypeInv, TypeOK, appServer, queue, counters
  <2>4. ConvertedInv'
    BY <2>1, <2>2 DEF TypeInv, ConvertedInv
  <2> QED BY <2>3, <2>4 DEF TypeInv
<1>3. CASE FindsNoHelmApp \/ FindsHelmApp
  <2>1. TypeOK'
    BY <1>3 DEF FindsNoHelmApp, FindsHelmApp, Goes, TypeInv, TypeOK, iopServer, appServer, queue,
                counters
  <2>2. ConvertedInv'
    BY <1>3 DEF FindsNoHelmApp, FindsHelmApp, Converted, Goes, TypeInv, ConvertedInv, Wanted,
                iopServer
  <2> QED BY <2>1, <2>2 DEF TypeInv
<1>4. CASE FindsAppToDelete \/ FindsNoAppToDelete
  <2>1. TypeOK'
    BY <1>4 DEF FindsAppToDelete, FindsNoAppToDelete, Goes, TypeInv, TypeOK, iopServer, appServer,
                queue, counters
  <2>2. ConvertedInv'
    BY <1>4 DEF FindsAppToDelete, FindsNoAppToDelete, Goes, TypeInv, ConvertedInv, iopServer
  <2> QED BY <2>1, <2>2 DEF TypeInv
<1>5. CASE DeletesHelmApp
  <2>1. AfterDelete(storedApp, NoHelmApp) \in HelmApp
    BY AppUpdates DEF TypeInv, TypeOK
  <2>2. TypeOK'
    BY <1>5, <2>1 DEF DeletesHelmApp, StoresApp, Goes, TypeInv, TypeOK, iopServer, queue, counters
  <2>3. ConvertedInv'
    BY <1>5 DEF DeletesHelmApp, Goes, TypeInv, ConvertedInv, iopServer
  <2> QED BY <2>2, <2>3 DEF TypeInv
<1> QED BY <1>1, <1>2, <1>3, <1>4, <1>5

(* Steps of the worker that end Reconcile.                                 *)
LEMMA EndingKeepsTypes ==
  ASSUME TypeInv,
         \/ ConversionFails \/ KeepsHelmApp \/ CreatesHelmApp \/ UpdatesHelmApp \/ WriteAppFails
         \/ RemovesFinalizer \/ WriteIopFails
  PROVE  TypeInv'
<1>1. storedApp \in HelmApp /\ existing \in HelmApp /\ delayed \in BOOLEAN
  BY DEF TypeInv, TypeOK
<1>2. AfterDelete(storedApp, NoHelmApp) \in HelmApp
  BY <1>1, AppUpdates
<1>3. pc = "create" =>
        [NoHelmApp EXCEPT !.present = TRUE, !.managed = TRUE, !.spec = Wanted] \in HelmApp
  BY WantedIsSpec, NewObjects
<1>4. pc = "update" => [existing EXCEPT !.spec = Wanted] \in HelmApp
  BY <1>1, WantedIsSpec, AppUpdates
<1>5. CASE ConversionFails \/ KeepsHelmApp
  BY <1>1, <1>5, LeavingKeepsTypes DEF ConversionFails, KeepsHelmApp, Errs, Returns, queue
<1>6. CASE CreatesHelmApp \/ UpdatesHelmApp
  BY <1>1, <1>3, <1>4, <1>6, LeavingKeepsTypes
     DEF CreatesHelmApp, UpdatesHelmApp, Returns, queue
<1>7. CASE WriteAppFails
  <2>1. UNCHANGED appServer \/ \E a \in HelmApp : StoresApp(a)
    BY <1>2, <1>3, <1>4, <1>7 DEF WriteAppFails
  <2>2. Leaves /\ delayed' = TRUE /\ UNCHANGED <<queued, iopServer>>
        /\ (Fault \/ UNCHANGED counters)
    BY <1>7 DEF WriteAppFails, Errs
  <2> QED BY <2>1, <2>2, LeavingKeepsTypes
<1>8. CASE RemovesFinalizer
  BY <1>1, <1>8, LeavingKeepsTypes DEF RemovesFinalizer, Returns, queue
<1>9. CASE WriteIopFails
  BY <1>9, LeavingKeepsTypes DEF WriteIopFails, Errs
<1> QED BY <1>5, <1>6, <1>7, <1>8, <1>9

LEMMA TypeInvInit == Init => TypeInv
<1> SUFFICES ASSUME Init PROVE TypeInv
  OBVIOUS
<1>1. TypeOK
  BY NoneAreObjects, Bounds DEF Init, TypeOK
<1>2. ConvertedInv
  BY DEF Init, ConvertedInv, NoIop
<1> QED BY <1>1, <1>2 DEF TypeInv

LEMMA TypeInvStep == TypeInv /\ [Next]_vars => TypeInv'
<1> SUFFICES ASSUME TypeInv, [Next]_vars PROVE TypeInv'
  OBVIOUS
<1>1. CASE UNCHANGED vars
  BY <1>1 DEF vars, TypeInv, TypeOK, ConvertedInv, Wanted, iopServer, appServer, queue, local,
              counters
<1>2. CASE Reconcile
  BY <1>2, GoingKeepsTypes, EndingKeepsTypes DEF Reconcile
<1> QED BY <1>1, <1>2, UserKeepsTypes, EnvironmentKeepsTypes DEF Next

(* The types of all variables, for all specs, conversions and bounds: what *)
(* the API server holds is always a spec, never the result of a conversion *)
(* that failed.                                                            *)
THEOREM TypeCorrect == Spec => []TypeOK
<1>1. TypeInv => TypeOK
  BY DEF TypeInv
<1> QED BY <1>1, TypeInvInit, TypeInvStep, PTL DEF Spec

-----------------------------------------------------------------------------
(* The finalizer and the copies.                                           *)

Held(o) == o.present /\ o.finalizer

FreshCopies ==
  /\ iopCacheFresh => cachedIop = storedIop
  /\ pc # "idle" /\ iopFresh => iop = storedIop
  /\ appCacheFresh => cachedApp = storedApp
  /\ pc = "update" => existing.managed /\ (existingFresh => existing = storedApp)

(* Where the worker is follows from the copy it works on.                  *)
PathFollowsCopy ==
  /\ pc \in {"addFinalizer", "convert", "create", "update"} => ~iop.deleting
  /\ pc \in {"reconcileDelete", "deleteHelmApp", "removeFinalizer"} => iop.deleting

(* A copy that shows the finalizer and no deletion proves that the stored  *)
(* object is held, however old it is: the only one who releases it, the    *)
(* worker, has seen the informer's copy terminating by then.               *)
CopiesAreHeld ==
  /\ Held(cachedIop) /\ ~cachedIop.deleting => Held(storedIop)
  /\ pc \in {"convert", "create", "update"} => Held(storedIop)
  /\ pc # "idle" /\ iop.deleting /\ iopFresh => cachedIop.deleting

CopiesInv == FreshCopies /\ PathFollowsCopy /\ CopiesAreHeld

(* What is stored from now on: the same object, or one still held.         *)
LEMMA UserKeepsCopies ==
  ASSUME TypeInv, CopiesInv, User
  PROVE  CopiesInv'
<1>1. storedIop \in Iop
  BY DEF TypeInv, TypeOK
<1>2. ASSUME NEW new, UserWritesIop(new), Held(storedIop) => Held(new)
      PROVE  CopiesInv'
  <2>1. FreshCopies'
    BY <1>2 DEF UserWritesIop, CopiesInv, FreshCopies, appServer
  <2>2. PathFollowsCopy' /\ CopiesAreHeld'
    BY <1>2 DEF UserWritesIop, CopiesInv, PathFollowsCopy, CopiesAreHeld, Held
  <2> QED BY <2>1, <2>2 DEF CopiesInv
<1>3. CASE UserCreatesIop
  <2>1. ~Held(storedIop)
    BY <1>3 DEF UserCreatesIop, Held
  <2> QED BY <1>2, <1>3, <2>1 DEF UserCreatesIop
<1>4. CASE UserUpdatesIop
  <2>1. PICK t \in IopSpecs : UserWritesIop([storedIop EXCEPT !.spec = t])
    BY <1>4 DEF UserUpdatesIop
  <2>2. Held(storedIop) => Held([storedIop EXCEPT !.spec = t])
    BY <1>1 DEF Held, Iop
  <2> QED BY <1>2, <2>1, <2>2
<1>5. CASE UserDeletesIop
  <2>1. Held(storedIop) => Held(AfterDelete(storedIop, NoIop))
    BY <1>1 DEF Held, AfterDelete, Iop
  <2> QED BY <1>2, <1>5, <2>1 DEF UserDeletesIop
<1>6. ASSUME NEW new, AppChanges(new)
      PROVE  CopiesInv'
  BY <1>6 DEF AppChanges, CopiesInv, FreshCopies, PathFollowsCopy, CopiesAreHeld, Held, iopServer
<1>7. CASE UserCreatesApp \/ UserUpdatesApp \/ UserDeletesApp
  BY <1>6, <1>7 DEF UserCreatesApp, UserUpdatesApp, UserDeletesApp, UserWritesApp
<1> QED BY <1>3, <1>4, <1>5, <1>7 DEF User

LEMMA EnvironmentKeepsCopies ==
  ASSUME CopiesInv,
         HelmAppController \/ DeliverIop \/ DeliverApp \/ Resync \/ DelayExpires \/ Crash
  PROVE  CopiesInv'
<1> USE DEF CopiesInv, FreshCopies, PathFollowsCopy, CopiesAreHeld, Held
<1>1. CASE HelmAppController
  BY <1>1 DEF HelmAppController, AppIsHeld, AppIsReported, AppIsReleased, AppChanges, iopServer
<1>2. CASE DeliverIop
  BY <1>2 DEF DeliverIop, appServer, local
<1>3. CASE DeliverApp
  BY <1>3 DEF DeliverApp, iopServer, local
<1>4. CASE Resync \/ DelayExpires
  BY <1>4 DEF Resync, DelayExpires, iopServer, appServer, local
<1>5. CASE Crash
  BY <1>5 DEF Crash, Leaves
<1> QED BY <1>1, <1>2, <1>3, <1>4, <1>5

LEMMA GoingKeepsCopies ==
  ASSUME TypeInv, CopiesInv,
         \/ GetFindsNothing \/ GetFindsIop \/ AddsFinalizer \/ FindsNoHelmApp \/ FindsHelmApp
         \/ FindsAppToDelete \/ FindsNoAppToDelete \/ DeletesHelmApp
  PROVE  CopiesInv'
<1> USE DEF CopiesInv, FreshCopies, PathFollowsCopy, CopiesAreHeld, Held
<1>1. CASE GetFindsNothing
  BY <1>1 DEF GetFindsNothing, Dequeue, iopServer, appServer
<1>2. CASE GetFindsIop
  BY <1>2 DEF GetFindsIop, Dequeue, FirstStep, iopServer, appServer
<1>3. CASE AddsFinalizer
  <2> DEFINE new == [iop EXCEPT !.finalizer = TRUE]
  <2>1. /\ new.finalizer /\ new.present /\ ~new.deleting
    BY <1>3 DEF AddsFinalizer, TypeInv, TypeOK, ConvertedInv, Iop
  <2>2. /\ storedIop' = new /\ iop' = new /\ cachedIop' = cachedIop
        /\ iopCacheFresh' = (iopCacheFresh /\ new = storedIop)
        /\ pc' = "convert" /\ UNCHANGED appServer
    BY <1>3 DEF AddsFinalizer, StoresIop, Goes
  <2> HIDE DEF new
  <2> QED BY <2>1, <2>2 DEF appServer
<1>4. CASE FindsNoHelmApp
  BY <1>4 DEF FindsNoHelmApp, Converted, Goes, iopServer, appServer
<1>5. CASE FindsHelmApp
  BY <1>5 DEF FindsHelmApp, NeedsUpdate, Converted, iopServer, appServer
<1>6. CASE FindsAppToDelete \/ FindsNoAppToDelete
  BY <1>6 DEF FindsAppToDelete, FindsNoAppToDelete, Goes, iopServer, appServer
<1>7. CASE DeletesHelmApp
  BY <1>7 DEF DeletesHelmApp, StoresApp, Goes, iopServer
<1> QED BY <1>1, <1>2, <1>3, <1>4, <1>5, <1>6, <1>7

LEMMA EndingKeepsCopies ==
  ASSUME TypeInv, CopiesInv,
         \/ ConversionFails \/ KeepsHelmApp \/ CreatesHelmApp \/ UpdatesHelmApp \/ WriteAppFails
         \/ RemovesFinalizer \/ WriteIopFails
  PROVE  CopiesInv'
<1>1. pc' = "idle"
  BY DEF ConversionFails, KeepsHelmApp, CreatesHelmApp, UpdatesHelmApp, WriteAppFails,
         RemovesFinalizer, WriteIopFails, Errs, Returns, Leaves
<1>2. (appCacheFresh => cachedApp = storedApp)'
  <2>1. UNCHANGED appServer \/ \E a : StoresApp(a)
    BY DEF ConversionFails, KeepsHelmApp, CreatesHelmApp, UpdatesHelmApp, WriteAppFails,
           RemovesFinalizer, WriteIopFails
  <2> QED BY <2>1 DEF CopiesInv, FreshCopies, StoresApp, appServer
<1>3. /\ (iopCacheFresh => cachedIop = storedIop)'
      /\ (Held(cachedIop) /\ ~cachedIop.deleting => Held(storedIop))'
  <2>1. CASE UNCHANGED iopServer
    BY <2>1 DEF CopiesInv, FreshCopies, CopiesAreHeld, Held, iopServer
  <2>2. CASE pc = "addFinalizer" /\ StoresIop([iop EXCEPT !.finalizer = TRUE])
    <3>1. Held([iop EXCEPT !.finalizer = TRUE])
      BY <2>2 DEF TypeInv, TypeOK, ConvertedInv, Iop, Held
    <3> QED BY <2>2, <3>1 DEF StoresIop, CopiesInv, FreshCopies, Held
  <2>3. CASE pc = "removeFinalizer" /\ iopFresh /\ StoresIop(NoIop)
    <3>1. cachedIop.deleting
      BY <2>3 DEF CopiesInv, PathFollowsCopy, CopiesAreHeld
    <3> QED BY <2>3, <3>1 DEF StoresIop, CopiesInv, FreshCopies, Held
  <2> QED BY <2>1, <2>2, <2>3
          DEF ConversionFails, KeepsHelmApp, CreatesHelmApp, UpdatesHelmApp, WriteAppFails,
              RemovesFinalizer, WriteIopFails
<1> QED BY <1>1, <1>2, <1>3 DEF CopiesInv, FreshCopies, PathFollowsCopy, CopiesAreHeld

LEMMA CopiesInvInit == Init => CopiesInv
BY DEF Init, CopiesInv, FreshCopies, PathFollowsCopy, CopiesAreHeld, Held, NoIop

LEMMA CopiesInvStep == TypeInv /\ CopiesInv /\ [Next]_vars => CopiesInv'
<1> SUFFICES ASSUME TypeInv, CopiesInv, [Next]_vars PROVE CopiesInv'
  OBVIOUS
<1>1. CASE UNCHANGED vars
  BY <1>1 DEF vars, CopiesInv, FreshCopies, PathFollowsCopy, CopiesAreHeld, Held, iopServer,
              appServer, local
<1>2. CASE Reconcile
  BY <1>2, GoingKeepsCopies, EndingKeepsCopies DEF Reconcile
<1> QED BY <1>1, <1>2, UserKeepsCopies, EnvironmentKeepsCopies DEF Next

(* For any number of edits, faults, restarts and stale reads, a HelmApp is *)
(* only written while the finalizer holds the IstioOperator.               *)
THEOREM FinalizerBeforeHelmApp == Spec => []WritesUnderFinalizer
<1>1. CopiesInv => WritesUnderFinalizer
  BY DEF CopiesInv, CopiesAreHeld, WritesUnderFinalizer, Held
<1> QED BY <1>1, TypeInvInit, TypeInvStep, CopiesInvInit, CopiesInvStep, PTL DEF Spec

(* A HelmApp without the label keeps its spec until its user changes it,   *)
(* also when the controller's cache still shows the managed one that had   *)
(* its name before.                                                        *)
THEOREM UnmanagedIsNotTouched == Spec => UnmanagedKeepsSpec
<1> DEFINE Touched == /\ storedApp.present /\ ~storedApp.managed /\ storedApp'.present
                      /\ storedApp'.spec # storedApp.spec
<1>1. TypeInv /\ CopiesInv /\ [Next]_vars => [Touched => appEdits' # appEdits]_vars
  <2> SUFFICES ASSUME TypeInv, CopiesInv, [Next]_vars, Touched
               PROVE  appEdits' # appEdits
    OBVIOUS
  <2>1. storedApp \in HelmApp /\ appEdits \in Nat
    BY IopAssumption DEF TypeInv, TypeOK
  <2>2. storedApp' # storedApp
    OBVIOUS
  <2>3. AfterDelete(storedApp, NoHelmApp).present =>
          AfterDelete(storedApp, NoHelmApp).spec = storedApp.spec
    BY <2>1 DEF AfterDelete, NoHelmApp, HelmApp
  <2>4. CASE User
    <3>1. UNCHANGED storedApp \/ appEdits' = appEdits + 1
      BY <2>4 DEF User, UserCreatesIop, UserUpdatesIop, UserDeletesIop, UserWritesIop,
                  UserCreatesApp, UserUpdatesApp, UserDeletesApp, UserWritesApp, appServer
    <3> QED BY <2>1, <2>2, <3>1
  <2>5. CASE HelmAppController
    <3>1. [storedApp EXCEPT !.finalizer = TRUE].spec = storedApp.spec
      BY <2>1 DEF HelmApp
    <3>2. storedApp' \in {[storedApp EXCEPT !.finalizer = TRUE], storedApp, NoHelmApp}
      BY <2>5 DEF HelmAppController, AppIsHeld, AppIsReported, AppIsReleased, AppChanges
    <3>3. ~NoHelmApp.present
      BY DEF NoHelmApp
    <3>4. storedApp' = NoHelmApp \/ storedApp'.spec = storedApp.spec
      BY <3>1, <3>2
    <3> QED BY <3>3, <3>4
  <2>6. CASE DeliverIop \/ DeliverApp \/ Resync \/ DelayExpires \/ Crash \/ UNCHANGED vars
    BY <2>2, <2>6 DEF DeliverIop, DeliverApp, Resync, DelayExpires, Crash, vars, appServer
  <2>7. CASE Reconcile
    <3>1. CASE UNCHANGED appServer
      BY <2>2, <3>1 DEF appServer
    <3>2. CASE pc = "update" /\ existingFresh
      BY <3>2 DEF CopiesInv, FreshCopies
    <3>3. CASE StoresApp(AfterDelete(storedApp, NoHelmApp))
      BY <2>3, <3>3 DEF StoresApp
    <3> QED BY <2>7, <3>1, <3>2, <3>3
            DEF Reconcile, GetFindsNothing, GetFindsIop, Dequeue, AddsFinalizer, ConversionFails,
                FindsNoHelmApp, FindsHelmApp, KeepsHelmApp, CreatesHelmApp, UpdatesHelmApp,
                WriteAppFails, FindsAppToDelete, FindsNoAppToDelete, DeletesHelmApp,
                RemovesFinalizer, WriteIopFails
  <2> QED BY <2>4, <2>5, <2>6, <2>7 DEF Next
<1> QED BY <1>1, TypeInvInit, TypeInvStep, CopiesInvInit, CopiesInvStep,
           PTL DEF Spec, UnmanagedKeepsSpec

-----------------------------------------------------------------------------
(* The life of the HelmApp.                                                *)

(* Only a finalizer keeps an object that is deleted.                       *)
MarkedIsKept == storedApp.present /\ storedApp.deleting => storedApp.finalizer

SameLife ==
  /\ storedApp'.present = storedApp.present
  /\ storedApp'.deleting = storedApp.deleting
  /\ storedApp'.finalizer = storedApp.finalizer

(* Every write of the HelmApp, by whomever it is.                          *)
LEMMA AppWrites ==
  ASSUME TypeInv, CopiesInv, [Next]_vars
  PROVE  \/ SameLife
         \/ /\ ~storedApp.present
            /\ storedApp'.present /\ ~storedApp'.deleting /\ ~storedApp'.finalizer
         \/ storedApp.present /\ storedApp' = AfterDelete(storedApp, NoHelmApp)
         \/ /\ storedApp.present /\ ~storedApp.finalizer
            /\ storedApp' = [storedApp EXCEPT !.finalizer = TRUE]
         \/ storedApp.present /\ storedApp.deleting /\ storedApp' = NoHelmApp
<1>1. storedApp \in HelmApp
  BY DEF TypeInv, TypeOK
<1>2. ASSUME NEW s, storedApp' = [storedApp EXCEPT !.spec = s] PROVE SameLife
  BY <1>1, <1>2 DEF SameLife, HelmApp
<1>3. ASSUME NEW s, storedApp' = [NoHelmApp EXCEPT !.present = TRUE, !.managed = TRUE, !.spec = s]
      PROVE  storedApp'.present /\ ~storedApp'.deleting /\ ~storedApp'.finalizer
  BY <1>3 DEF NoHelmApp
<1>4. ASSUME NEW s, storedApp' = [NoHelmApp EXCEPT !.present = TRUE, !.spec = s]
      PROVE  storedApp'.present /\ ~storedApp'.deleting /\ ~storedApp'.finalizer
  BY <1>4 DEF NoHelmApp
<1>5. CASE UNCHANGED storedApp
  BY <1>5 DEF SameLife
<1>6. CASE User
  <2>1. UNCHANGED storedApp \/ UserCreatesApp \/ UserUpdatesApp \/ UserDeletesApp
    BY <1>6 DEF User, UserCreatesIop, UserUpdatesIop, UserDeletesIop, UserWritesIop, appServer
  <2>2. CASE UserCreatesApp
    BY <1>4, <2>2 DEF UserCreatesApp, UserWritesApp, AppChanges
  <2>3. CASE UserUpdatesApp
    BY <1>2, <2>3 DEF UserUpdatesApp, UserWritesApp, AppChanges
  <2>4. CASE UserDeletesApp
    BY <2>4 DEF UserDeletesApp, UserWritesApp, AppChanges
  <2> QED BY <1>5, <2>1, <2>2, <2>3, <2>4
<1>7. CASE HelmAppController
  BY <1>5, <1>7 DEF HelmAppController, AppIsHeld, AppIsReported, AppIsReleased, AppChanges
<1>8. CASE DeliverIop \/ DeliverApp \/ Resync \/ DelayExpires \/ Crash \/ UNCHANGED vars
  BY <1>5, <1>8 DEF DeliverIop, DeliverApp, Resync, DelayExpires, Crash, vars, appServer
<1>9. CASE Reconcile
  <2>1. \/ UNCHANGED appServer
        \/ pc = "create" /\ ~storedApp.present
           /\ StoresApp([NoHelmApp EXCEPT !.present = TRUE, !.managed = TRUE, !.spec = Wanted])
        \/ pc = "update" /\ existingFresh /\ StoresApp([existing EXCEPT !.spec = Wanted])
        \/ storedApp.present /\ StoresApp(AfterDelete(storedApp, NoHelmApp))
    BY <1>9
       DEF Reconcile, GetFindsNothing, GetFindsIop, Dequeue, AddsFinalizer, ConversionFails,
           FindsNoHelmApp, FindsHelmApp, KeepsHelmApp, CreatesHelmApp, UpdatesHelmApp,
           WriteAppFails, FindsAppToDelete, FindsNoAppToDelete, DeletesHelmApp,
           RemovesFinalizer, WriteIopFails
  <2>2. CASE UNCHANGED appServer
    BY <1>5, <2>2 DEF appServer
  <2>3. CASE pc = "update" /\ existingFresh /\ StoresApp([existing EXCEPT !.spec = Wanted])
    BY <1>2, <2>3 DEF StoresApp, CopiesInv, FreshCopies
  <2> QED BY <1>3, <2>1, <2>2, <2>3 DEF StoresApp
<1> QED BY <1>6, <1>7, <1>8, <1>9 DEF Next

LEMMA MarkedInit == Init => MarkedIsKept
BY DEF Init, MarkedIsKept, NoHelmApp

LEMMA MarkedStep ==
  ASSUME TypeInv, CopiesInv, MarkedIsKept, [Next]_vars
  PROVE  MarkedIsKept'
<1>1. storedApp \in HelmApp
  BY DEF TypeInv, TypeOK
<1>2. CASE SameLife
  BY <1>2 DEF MarkedIsKept, SameLife
<1>3. CASE storedApp'.present /\ ~storedApp'.deleting
  BY <1>3 DEF MarkedIsKept
<1>4. CASE storedApp' = NoHelmApp
  BY <1>4 DEF MarkedIsKept, NoHelmApp
<1>5. CASE storedApp' = AfterDelete(storedApp, NoHelmApp)
  <2>1. CASE ~storedApp.finalizer
    BY <1>4, <1>5, <2>1 DEF AfterDelete
  <2>2. CASE storedApp.finalizer
    BY <1>1, <1>5, <2>2 DEF MarkedIsKept, AfterDelete, HelmApp
  <2> QED BY <2>1, <2>2
<1>6. CASE storedApp' = [storedApp EXCEPT !.finalizer = TRUE]
  BY <1>1, <1>6 DEF MarkedIsKept, HelmApp
<1> QED BY <1>2, <1>3, <1>4, <1>5, <1>6, AppWrites

(* For any number of edits, stale copies, faults and restarts, what both   *)
(* controllers and users do to a HelmApp is a life of AppLifecycle: this   *)
(* controller creates and deletes it, and its updates keep the finalizer   *)
(* and the deletion mark as the HelmApp controller and the users set them. *)
THEOREM LifecycleImplemented == Spec => ImplementsLifecycle
<1>1. Init => Lifecycle!Init
  BY DEF Init, NoHelmApp, Lifecycle!Init, LifecyclePhase
<1>2. TypeInv /\ CopiesInv /\ MarkedIsKept /\ [Next]_vars => [Lifecycle!Next]_(Lifecycle!vars)
  <2> SUFFICES ASSUME TypeInv, CopiesInv, MarkedIsKept, [Next]_vars
               PROVE  Lifecycle!Next \/ UNCHANGED Lifecycle!vars
    OBVIOUS
  <2>1. storedApp \in HelmApp
    BY DEF TypeInv, TypeOK
  <2>2. ASSUME LifecyclePhase' = LifecyclePhase PROVE UNCHANGED Lifecycle!vars
    BY <2>2 DEF Lifecycle!vars
  <2>3. CASE SameLife
    BY <2>2, <2>3 DEF SameLife, LifecyclePhase
  <2>4. CASE ~storedApp.present /\ storedApp'.present /\ ~storedApp'.deleting /\ ~storedApp'.finalizer
    <3>1. LifecyclePhase = "absent" /\ LifecyclePhase' = "unheld"
      BY <2>4 DEF LifecyclePhase
    <3> QED BY <3>1 DEF Lifecycle!Next, Lifecycle!Create, Lifecycle!Moves
  <2>5. CASE storedApp.present /\ storedApp' = AfterDelete(storedApp, NoHelmApp)
    <3>1. CASE ~storedApp.finalizer
      <4>1. LifecyclePhase = "unheld" /\ LifecyclePhase' = "absent"
        BY <2>5, <3>1 DEF LifecyclePhase, AfterDelete, NoHelmApp
      <4> QED BY <4>1 DEF Lifecycle!Next, Lifecycle!Drop, Lifecycle!Moves
    <3>2. CASE storedApp.finalizer
      <4>1. /\ LifecyclePhase = IF storedApp.deleting THEN "terminating" ELSE "held"
            /\ LifecyclePhase' = "terminating"
        BY <2>1, <2>5, <3>2 DEF LifecyclePhase, AfterDelete, HelmApp
      <4> QED BY <2>2, <4>1 DEF Lifecycle!Next, Lifecycle!Delete, Lifecycle!Moves
    <3> QED BY <3>1, <3>2
  <2>6. CASE /\ storedApp.present /\ ~storedApp.finalizer
             /\ storedApp' = [storedApp EXCEPT !.finalizer = TRUE]
    <3>1. LifecyclePhase = "unheld" /\ LifecyclePhase' = "held"
      BY <2>1, <2>6 DEF LifecyclePhase, MarkedIsKept, HelmApp
    <3> QED BY <3>1 DEF Lifecycle!Next, Lifecycle!Hold, Lifecycle!Moves
  <2>7. CASE storedApp.present /\ storedApp.deleting /\ storedApp' = NoHelmApp
    <3>1. LifecyclePhase = "terminating" /\ LifecyclePhase' = "absent"
      BY <2>7 DEF LifecyclePhase, MarkedIsKept, NoHelmApp
    <3> QED BY <3>1 DEF Lifecycle!Next, Lifecycle!Release, Lifecycle!Moves
  <2> QED BY <2>3, <2>4, <2>5, <2>6, <2>7, AppWrites
<1> QED BY <1>1, <1>2, TypeInvInit, TypeInvStep, CopiesInvInit, CopiesInvStep, MarkedInit,
           MarkedStep, PTL DEF Spec, ImplementsLifecycle, Lifecycle!Spec

-----------------------------------------------------------------------------
(* The wake-ups.  What the controller leaves alone follows the             *)
(* IstioOperator.                                                          *)

(* Until users touch it, every copy of the HelmApp is the controller's.    *)
AppsAreOurs ==
  appEdits = 0 => \A a \in {storedApp, cachedApp, existing} : a.present => a.managed

(* Past the finalizer the worker's copy carries it.                        *)
CopyIsHeld == pc \in {"convert", "create", "update"} => iop.finalizer

(* The worker's copy is the stored object, unless the informer still has   *)
(* something to deliver or has queued the key again.                       *)
CopyIsCurrent == pc # "idle" /\ iopCacheFresh /\ ~queued => iopFresh

Processed ==
  storedIop.present =>
    /\ ~storedIop.deleting /\ storedIop.finalizer
    /\ appEdits = 0 /\ storedApp.present => storedApp.spec = Convert[storedIop.spec]

NobodyWaits == pc = "idle" /\ ~queued /\ ~delayed /\ iopCacheFresh => Processed

WakeInv == AppsAreOurs /\ CopyIsHeld /\ CopyIsCurrent /\ NobodyWaits

LEMMA WakeInvInit == Init => WakeInv
BY DEF Init, WakeInv, AppsAreOurs, CopyIsHeld, CopyIsCurrent, NobodyWaits, Processed, NoIop, NoHelmApp

LEMMA OursStep ==
  ASSUME TypeInv, CopiesInv, AppsAreOurs, [Next]_vars
  PROVE  AppsAreOurs'
<1>1. storedApp \in HelmApp /\ cachedApp \in HelmApp /\ existing \in HelmApp /\ appEdits \in Nat
  BY IopAssumption DEF TypeInv, TypeOK
<1> DEFINE new == [NoHelmApp EXCEPT !.present = TRUE, !.managed = TRUE, !.spec = Wanted]
           updated == [existing EXCEPT !.spec = Wanted]
           held == [storedApp EXCEPT !.finalizer = TRUE]
           gone == AfterDelete(storedApp, NoHelmApp)
<1>2. /\ new.managed /\ ~NoHelmApp.present
      /\ updated.present = existing.present /\ updated.managed = existing.managed
      /\ held.present = storedApp.present /\ held.managed = storedApp.managed
      /\ gone.present => storedApp.present /\ gone.managed = storedApp.managed
  BY <1>1 DEF NoHelmApp, HelmApp, AfterDelete
<1>3. \/ appEdits' = appEdits + 1
      \/ /\ appEdits' = appEdits
         /\ storedApp' \in {storedApp, NoHelmApp, new, updated, held, gone}
         /\ cachedApp' \in {cachedApp, storedApp}
         /\ existing' \in {existing, cachedApp, NoHelmApp}
  <2> HIDE DEF new, updated, held, gone
  <2>1. CASE User
    BY <2>1 DEF User, UserCreatesIop, UserUpdatesIop, UserDeletesIop, UserWritesIop,
                UserCreatesApp, UserUpdatesApp, UserDeletesApp, UserWritesApp, appServer
  <2>2. CASE HelmAppController
    BY <2>2 DEF HelmAppController, AppIsHeld, AppIsReported, AppIsReleased, AppChanges,
                counters, held
  <2>3. CASE DeliverIop \/ DeliverApp \/ Resync \/ DelayExpires \/ Crash \/ UNCHANGED vars
    BY <2>3 DEF DeliverIop, DeliverApp, Resync, DelayExpires, Crash, Leaves, Fault, vars,
                appServer, local, counters
  <2>4. CASE GetFindsNothing \/ GetFindsIop \/ AddsFinalizer \/ FindsNoHelmApp \/ FindsHelmApp
             \/ FindsAppToDelete \/ FindsNoAppToDelete \/ DeletesHelmApp
    BY <2>4 DEF GetFindsNothing, GetFindsIop, Dequeue, AddsFinalizer, FindsNoHelmApp,
                FindsHelmApp, FindsAppToDelete, FindsNoAppToDelete, DeletesHelmApp, StoresApp,
                Goes, appServer, counters, gone
  <2>5. CASE ConversionFails \/ KeepsHelmApp \/ CreatesHelmApp \/ UpdatesHelmApp \/ WriteAppFails
             \/ RemovesFinalizer \/ WriteIopFails
    BY <2>5 DEF ConversionFails, KeepsHelmApp, CreatesHelmApp, UpdatesHelmApp, WriteAppFails,
                RemovesFinalizer, WriteIopFails, Errs, Returns, Leaves, StoresApp, Fault,
                appServer, counters, new, updated, gone
  <2> QED BY <2>1, <2>2, <2>3, <2>4, <2>5 DEF Next, Reconcile
<1> HIDE DEF new, updated, held, gone
<1> QED BY <1>1, <1>2, <1>3 DEF AppsAreOurs

(* The steps that leave the worker where it is.                            *)
LEMMA OthersWake ==
  ASSUME TypeInv, CopiesInv, WakeInv,
         \/ User \/ HelmAppController \/ DeliverIop \/ DeliverApp \/ Resync \/ DelayExpires
         \/ Crash
  PROVE  CopyIsHeld' /\ CopyIsCurrent' /\ NobodyWaits'
<1> USE DEF WakeInv, CopyIsHeld, CopyIsCurrent, NobodyWaits
<1>1. ASSUME NEW new, UserWritesIop(new) PROVE CopyIsHeld' /\ CopyIsCurrent' /\ NobodyWaits'
  BY <1>1 DEF UserWritesIop
<1>2. ASSUME NEW new, UserWritesApp(new) PROVE CopyIsHeld' /\ CopyIsCurrent' /\ NobodyWaits'
  <2>1. appEdits' # 0
    BY <1>2, IopAssumption DEF UserWritesApp, TypeInv, TypeOK
  <2> QED BY <1>2, <2>1 DEF UserWritesApp, AppChanges, Processed, iopServer, queue
<1>3. CASE User
  BY <1>1, <1>2, <1>3 DEF User, UserCreatesIop, UserUpdatesIop, UserDeletesIop,
                          UserCreatesApp, UserUpdatesApp, UserDeletesApp
<1>4. CASE HelmAppController
  <2>1. [storedApp EXCEPT !.finalizer = TRUE].spec = storedApp.spec /\ ~NoHelmApp.present
    BY DEF TypeInv, TypeOK, HelmApp, NoHelmApp
  <2>2. storedApp'.present => storedApp.present /\ storedApp'.spec = storedApp.spec
    BY <1>4, <2>1 DEF HelmAppController, AppIsHeld, AppIsReported, AppIsReleased, AppChanges
  <2>3. UNCHANGED <<iopServer, queue, pc, iop, iopFresh, appEdits>>
    BY <1>4 DEF HelmAppController, AppIsHeld, AppIsReported, AppIsReleased, AppChanges, counters
  <2> QED BY <2>2, <2>3 DEF Processed, iopServer, queue
<1>5. CASE DeliverIop \/ Resync \/ DelayExpires
  BY <1>5 DEF DeliverIop, Resync, DelayExpires, iopServer, local
<1>6. CASE DeliverApp
  BY <1>6 DEF DeliverApp, Processed, iopServer, queue, local, counters
<1>7. CASE Crash
  BY <1>7 DEF Crash, Leaves, Processed
<1> QED BY <1>3, <1>4, <1>5, <1>6, <1>7

LEMMA WorkerWakes ==
  ASSUME TypeInv, CopiesInv, WakeInv, ~DeepEqualHolds, Reconcile
  PROVE  CopyIsHeld' /\ CopyIsCurrent' /\ NobodyWaits'
<1> USE DEF WakeInv, CopyIsHeld, CopyIsCurrent, NobodyWaits
<1>1. iop \in Iop /\ storedIop \in Iop
  BY DEF TypeInv, TypeOK
<1>2. CASE GetFindsNothing
  BY <1>2 DEF GetFindsNothing, Dequeue, Processed, CopiesInv, FreshCopies, iopServer
<1>3. CASE GetFindsIop
  BY <1>3 DEF GetFindsIop, Dequeue, FirstStep, iopServer
<1>4. CASE AddsFinalizer
  <2>1. [iop EXCEPT !.finalizer = TRUE].finalizer
    BY <1>1 DEF Iop
  <2> QED BY <1>4, <2>1 DEF AddsFinalizer, Goes
<1>5. CASE FindsNoHelmApp \/ FindsHelmApp \/ FindsAppToDelete \/ FindsNoAppToDelete \/ DeletesHelmApp
  BY <1>5 DEF FindsNoHelmApp, FindsHelmApp, Converted, FindsAppToDelete, FindsNoAppToDelete,
              DeletesHelmApp, Goes, iopServer, queue
<1>6. CASE ConversionFails \/ WriteAppFails \/ WriteIopFails
  BY <1>6 DEF ConversionFails, WriteAppFails, WriteIopFails, Errs, Leaves
<1>7. CASE KeepsHelmApp
  <2>1. cachedApp.present /\ ~cachedApp.managed
    BY <1>7 DEF KeepsHelmApp, NeedsUpdate, DeepEqual
  <2>2. appEdits # 0
    BY <2>1 DEF AppsAreOurs
  <2>3. pc = "convert" /\ Returns /\ UNCHANGED <<iopServer, appServer, counters>>
    BY <1>7 DEF KeepsHelmApp, Converted
  <2>4. iopCacheFresh /\ ~queued => iop = storedIop
    BY <2>3 DEF CopiesInv, FreshCopies
  <2> QED BY <2>2, <2>3, <2>4 DEF Returns, Leaves, Processed, CopiesInv, PathFollowsCopy,
                                  iopServer, counters, queue
<1>8. CASE CreatesHelmApp \/ UpdatesHelmApp
  <2>1. /\ pc \in {"create", "update"} /\ Returns /\ UNCHANGED <<iopServer, counters>>
    BY <1>8 DEF CreatesHelmApp, UpdatesHelmApp
  <2>2. storedApp'.spec = Wanted
    BY <1>8 DEF CreatesHelmApp, UpdatesHelmApp, StoresApp, NoHelmApp, TypeInv, TypeOK, HelmApp
  <2>3. iopCacheFresh /\ ~queued => iop = storedIop
    BY <2>1 DEF CopiesInv, FreshCopies
  <2> QED BY <2>1, <2>2, <2>3 DEF Returns, Leaves, Processed, Wanted, CopiesInv,
                                  PathFollowsCopy, iopServer, queue
<1>9. CASE RemovesFinalizer
  BY <1>9 DEF RemovesFinalizer, StoresIop, Returns, Leaves, Processed, NoIop
<1> QED BY <1>2, <1>3, <1>4, <1>5, <1>6, <1>7, <1>8, <1>9 DEF Reconcile

LEMMA WakeInvStep ==
  ASSUME ~DeepEqualHolds
  PROVE  TypeInv /\ CopiesInv /\ WakeInv /\ [Next]_vars => WakeInv'
<1> SUFFICES ASSUME TypeInv, CopiesInv, WakeInv, [Next]_vars PROVE WakeInv'
  OBVIOUS
<1>1. AppsAreOurs'
  BY OursStep DEF WakeInv
<1>2. CopyIsHeld' /\ CopyIsCurrent' /\ NobodyWaits'
  <2>1. CASE UNCHANGED vars
    BY <2>1 DEF WakeInv, CopyIsHeld, CopyIsCurrent, NobodyWaits, Processed, vars, iopServer,
                appServer, queue, local, counters
  <2> QED BY <2>1, OthersWake, WorkerWakes DEF Next
<1> QED BY <1>1, <1>2 DEF WakeInv

(* When nothing is queued, delayed, undelivered or running, the            *)
(* IstioOperator is held and its HelmApp shows its conversion, for any     *)
(* number of edits, reports, faults and restarts.  It rests on DeepEqual   *)
(* never finding a cached HelmApp up to date: were it to, a stale copy     *)
(* could keep an old spec in place for good.                               *)
THEOREM NoWakeUpIsLost ==
  ASSUME ~DeepEqualHolds
  PROVE  Spec => []QuiescentMeansProcessed
<1>1. TypeInv /\ WakeInv => QuiescentMeansProcessed
  BY DEF WakeInv, NobodyWaits, Processed, AppsAreOurs, QuiescentMeansProcessed, Quiescent
<1>2. TypeInv /\ CopiesInv /\ WakeInv /\ [Next]_vars => WakeInv'
  BY WakeInvStep
<1> QED BY <1>1, <1>2, TypeInvInit, TypeInvStep, CopiesInvInit, CopiesInvStep, WakeInvInit,
           PTL DEF Spec
=============================================================================
