--------------------------- MODULE HelmAppClientset ---------------------------
(***************************************************************************)
(* The generated clientset (apis/client/clientset) and the programs that   *)
(* use it on HelmApps.  Every call goes to the API server and, as in a     *)
(* test, to the object tracker of the fake clientset as well.              *)
(*                                                                         *)
(* A caller reads an object, changes its spec or its status in its own     *)
(* memory and writes it back; others may have written in between.  The     *)
(* data of an object is how often its spec and its status were changed.    *)
(* No controller is at work, so objects have no finalizers.                *)
(***************************************************************************)
EXTENDS Naturals, Sequences

CONSTANTS
  Names,       \* the names of HelmApps
  Callers,     \* the goroutines that call the clientset
  Missing,     \* in the place of an object that does not exist
  NoObject,    \* in the place of an object that a caller holds
  MaxEvents    \* bounds the versions the server gives and the mishaps, taken together

VARIABLES
  log,      \* log[v]: the server's objects at version v
  tracker,  \* the objects of the fake clientset
  refused,  \* whether the server has refused a write
  count,    \* count[n]: the changes that writes have made to n since it was created
  held,     \* held[u]: the object that u works on
  tampered, \* the versions of which a caller changed a read-only object in place (history)
  mishaps   \* how often that happened, or a watch broke

clientVars == <<log, tracker, refused, count, held>>
mishapVars == <<tampered, mishaps>>

Version == 1 .. MaxEvents
Field == {"spec", "status"}
Object == [version : Version, spec : Nat, status : Nat]

(* edited: the field that is changed, or "none".  shares: the messages     *)
(* whose memory is that of the entry that an informer's cache got with     *)
(* its list-th list, and the events after it.                              *)
Held == [name : Names, object : Object, edited : Field \cup {"none"},
         shares : SUBSET Field, list : Nat]

ASSUME ClientsetAssumption ==
  /\ MaxEvents \in Nat \ {0}
  /\ Missing \notin Object
  /\ NoObject \notin Held

Latest == Len(log)
store == log[Latest]

Exists(n) == store[n] # Missing

Zero == [spec |-> 0, status |-> 0]

Bump(data, field) ==
  IF field = "spec" THEN [data EXCEPT !.spec = @ + 1] ELSE [data EXCEPT !.status = @ + 1]

-----------------------------------------------------------------------------
(* What the API server does with a call (external).                        *)

Fresh == [version |-> Latest + 1, spec |-> 0, status |-> 0]

Commits(n, object) ==
  /\ Latest + mishaps < MaxEvents
  /\ log' = Append(log, [store EXCEPT ![n] = object])

(* A write to the object leaves the status alone, one to its status        *)
(* subresource everything else.                                            *)
Stored(n, object, subresource) ==
  [version |-> Latest + 1,
   spec    |-> IF subresource = "status" THEN store[n].spec ELSE object.spec,
   status  |-> IF subresource = "status" THEN object.status ELSE store[n].status]

Accepted(n, object) == Exists(n) /\ store[n].version = object.version

-----------------------------------------------------------------------------
(* The fake clientset.  Its tracker takes objects as they are, for a       *)
(* subresource too, and knows no versions.  A conflict ends the comparison *)
(* with the server.                                                        *)

Tracks(n, object) == tracker' = IF refused THEN tracker ELSE [tracker EXCEPT ![n] = object]

FakeCreate(n) == Tracks(n, IF tracker[n] = Missing THEN Fresh ELSE tracker[n])
FakeDelete(n) == Tracks(n, Missing)
FakeUpdate(n, object) == Tracks(n, IF tracker[n] = Missing THEN Missing ELSE object)
FakePatch(n) == Tracks(n, IF tracker[n] = Missing THEN Missing ELSE [tracker[n] EXCEPT !.spec = 0])

-----------------------------------------------------------------------------
(* The verbs.  One that fails changes nothing.                             *)

Create(n) ==
  /\ ~Exists(n)
  /\ Commits(n, Fresh)
  /\ FakeCreate(n)
  /\ UNCHANGED <<refused, count, held>>

Delete(n) ==
  /\ Exists(n)
  /\ Commits(n, Missing)
  /\ FakeDelete(n)
  /\ count' = [count EXCEPT ![n] = Zero]
  /\ UNCHANGED <<refused, held>>

(* A merge patch that sets the spec back, whatever the version is.         *)
Patch(n) ==
  /\ Exists(n)
  /\ Commits(n, [store[n] EXCEPT !.version = Latest + 1, !.spec = 0])
  /\ FakePatch(n)
  /\ count' = [count EXCEPT ![n].spec = 0]
  /\ UNCHANGED <<refused, held>>

Takes(u, n, object, shares, list) ==
  held' = [held EXCEPT ![u] = [name |-> n, object |-> object, edited |-> "none",
                               shares |-> shares, list |-> list]]

(* What a call answers is decoded into memory of the caller's own.         *)
Answers(u, n, object) == Takes(u, n, object, {}, 0)

Get(u, n) ==
  /\ held[u] = NoObject
  /\ Exists(n)
  /\ Answers(u, n, store[n])
  /\ UNCHANGED <<log, tracker, refused, count>>

(* The caller gets the new object, or no answer: then it has the one it    *)
(* sent and may send it again.                                             *)
Put(u, subresource) ==
  LET n == held[u].name
      object == held[u].object
  IN /\ Accepted(n, object)
     /\ Commits(n, Stored(n, object, subresource))
     /\ FakeUpdate(n, object)
     /\ count' = [count EXCEPT ![n] = Bump(@, held[u].edited)]
     /\ \/ Answers(u, n, Stored(n, object, subresource))
        \/ UNCHANGED held
     /\ UNCHANGED refused

UpdateOf(u, field) == held[u] # NoObject /\ held[u].edited = field

Update(u) == UpdateOf(u, "spec") /\ Put(u, "object")

UpdateStatusOfObject(u) == UpdateOf(u, "status") /\ Put(u, "object")   \* mistake
UpdateStatus(u) == UpdateOf(u, "status") /\ Put(u, "status")

(* The object is not there any more or has another version, and the caller *)
(* has to read it again.  The tracker would have written it.               *)
Conflict(u) ==
  /\ held[u] # NoObject /\ held[u].edited # "none"
  /\ ~Accepted(held[u].name, held[u].object)
  /\ refused' = TRUE
  /\ tracker' = [m \in Names |-> Missing]
  /\ held' = [held EXCEPT ![u] = NoObject]
  /\ UNCHANGED <<log, count>>

(* What a caller does to the object in its hands.                          *)
Edited(h, field) == [h EXCEPT !.object = Bump(h.object, field), !.edited = field]

Drops(u) ==
  /\ held[u] # NoObject
  /\ held' = [held EXCEPT ![u] = NoObject]
  /\ UNCHANGED <<log, tracker, refused, count>>

-----------------------------------------------------------------------------
ClientInit ==
  /\ log = <<[n \in Names |-> Missing]>>
  /\ tracker = [n \in Names |-> Missing]
  /\ refused = FALSE
  /\ count = [n \in Names |-> Zero]
  /\ held = [u \in Callers |-> NoObject]
  /\ tampered = {}
  /\ mishaps = 0

Verbs ==
  \/ \E n \in Names : Create(n) \/ Delete(n) \/ Patch(n)
  \/ \E u \in Callers : Update(u) \/ UpdateStatus(u) \/ Conflict(u) \/ Drops(u)
  \/ \E u \in Callers, n \in Names : Get(u, n)

-----------------------------------------------------------------------------
ObjectOrMissing == Object \cup {Missing}

ClientTypeOK ==
  /\ log \in Seq([Names -> ObjectOrMissing])
  /\ Latest \in Version
  /\ tracker \in [Names -> ObjectOrMissing]
  /\ refused \in BOOLEAN
  /\ count \in [Names -> [spec : Nat, status : Nat]]
  /\ held \in [Callers -> Held \cup {NoObject}]
  /\ tampered \subseteq Version
  /\ mishaps \in Nat

SameData(one, other) == one.spec = other.spec /\ one.status = other.status

(* Did a caller ever change a read-only object of this name in place?      *)
Tampered(n) ==
  \E v \in 1 .. Latest : log[v][n] # Missing /\ log[v][n].version \in tampered

(* Every change that a write has made to an object is in it, once: none is *)
(* lost to another caller's write, done twice by a write that is sent      *)
(* again, or brought in by one who worked on a copy of what a lister gave  *)
(* him (resourceVersion in Update and UpdateStatus, DeepCopy).  Only where *)
(* a caller changed a lister's object itself, nothing is said.             *)
IncrementsCount ==
  \A n \in Names : Exists(n) /\ ~Tampered(n) => SameData(store[n], count[n])

(* As long as the server has refused nothing, a test sees in the fake      *)
(* clientset the specs and statuses that it would see in the server,       *)
(* though the tracker lets every write replace the whole object; of an     *)
(* object that was changed in a lister's memory, that it is there.         *)
FakeAgrees ==
  ~refused =>
    \A n \in Names :
      IF Exists(n) THEN tracker[n] # Missing /\ (Tampered(n) \/ SameData(tracker[n], store[n]))
      ELSE tracker[n] = Missing
=============================================================================
