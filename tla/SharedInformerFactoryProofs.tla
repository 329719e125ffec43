--------------------- MODULE SharedInformerFactoryProofs ---------------------
(***************************************************************************)
(* Proofs about the generated clients: types, updates that are not lost,   *)
(* the agreement of the fake clientset and caches that hold past states.   *)
(***************************************************************************)
EXTENDS SharedInformerFactory, TLAPS

-----------------------------------------------------------------------------
(* The inductive invariant.                                                *)

(* A version is given once, to one object.                                 *)
VersionsIdentify ==
  \A v \in 1 .. Latest, n \in Names :
    log[v][n] # Missing =>
      /\ log[v][n].version <= v
      /\ \A w \in 1 .. Latest :
           log[w][n] # Missing /\ log[w][n].version = log[v][n].version => log[w][n] = log[v][n]

(* What a caller holds is an object of the past, with one change at most   *)
(* unless somebody changed that version in the memory of the cache.        *)
CopyOf(h, object) ==
  /\ object # Missing
  /\ h.object.version = object.version
  /\ SameData(h.object, IF h.edited = "none" THEN object ELSE Bump(object, h.edited))

PastCopy(h, past, spoilt) ==
  /\ h.shares \in {{}, Field}
  /\ \E v \in 1 .. Len(past) :
       /\ past[v][h.name] # Missing
       /\ h.object.version = past[v][h.name].version
       /\ h.object.version \in spoilt \/ CopyOf(h, past[v][h.name])

HeldIsPast ==
  \A u \in Callers : held[u] # NoObject => PastCopy(held[u], log, tampered)

(* An object that is created starts to count anew.                         *)
GoneCountsZero == \A n \in Names : store[n] = Missing => count[n] = Zero

(* A watch starts at the version of a list.                                *)
WatchHasListed == \A t \in Types : running[t] = "watching" => HasSynced(t)

IInv ==
  /\ TypeOK
  /\ VersionsIdentify
  /\ HeldIsPast
  /\ WatchHasListed
  /\ GoneCountsZero
  /\ IncrementsCount
  /\ FakeAgrees
  /\ CacheIsAPastState

-----------------------------------------------------------------------------
(* The data of objects.                                                    *)

LEMMA BumpType ==
  ASSUME NEW object \in Object, NEW field \in Field
  PROVE  /\ Bump(object, field) \in Object
         /\ Bump(object, field).version = object.version
  BY DEF Object, Field, Bump, Version

LEMMA StoredType ==
  ASSUME ClientTypeOK, Latest < MaxEvents, NEW n \in Names, Exists(n),
         NEW object \in Object, NEW subresource
  PROVE  Stored(n, object, subresource) \in Object
<1>1. store \in [Names -> ObjectOrMissing]
  BY DEF ClientTypeOK, Latest, store, Version
<1>2. store[n] \in Object
  BY <1>1 DEF Exists, ObjectOrMissing
<1> QED BY <1>2, ClientsetAssumption DEF Stored, Object, Version, ClientTypeOK, Latest

LEMMA FreshType ==
  ASSUME ClientTypeOK, Latest < MaxEvents
  PROVE  Fresh \in Object /\ Fresh.version = Latest + 1
  BY ClientsetAssumption DEF Fresh, Object, Version, ClientTypeOK, Latest

-----------------------------------------------------------------------------
(* How the server's log grows.                                             *)

(* One object is replaced or removed at a new version, or nothing changes. *)
Written(n, object) ==
  /\ object # Missing => object.version = Latest + 1
  /\ Commits(n, object)

Grows == log' = log \/ \E n \in Names, object \in ObjectOrMissing : Written(n, object)

LEMMA RoomLeft ==
  ASSUME ClientTypeOK, Latest + mishaps < MaxEvents
  PROVE  Latest < MaxEvents
<1>1. Latest \in Nat /\ mishaps \in Nat /\ MaxEvents \in Nat
  BY ClientsetAssumption DEF ClientTypeOK, Version
<1> QED BY <1>1

LEMMA CommitFacts ==
  ASSUME ClientTypeOK, NEW n \in Names, NEW object \in ObjectOrMissing, Commits(n, object)
  PROVE  /\ log' \in Seq([Names -> ObjectOrMissing])
         /\ Latest' = Latest + 1
         /\ Latest' \in Version
         /\ \A v \in 1 .. Latest : log'[v] = log[v]
         /\ store' = [store EXCEPT ![n] = object]
<1>1. store \in [Names -> ObjectOrMissing]
  BY DEF ClientTypeOK, Latest, store, Version
<1>2. [store EXCEPT ![n] = object] \in [Names -> ObjectOrMissing]
  BY <1>1
<1>3. log' = Append(log, [store EXCEPT ![n] = object])
  BY DEF Commits
<1>4. /\ log' \in Seq([Names -> ObjectOrMissing])
      /\ Len(log') = Len(log) + 1
      /\ \A v \in 1 .. Len(log) : log'[v] = log[v]
      /\ log'[Len(log) + 1] = [store EXCEPT ![n] = object]
  BY <1>2, <1>3 DEF ClientTypeOK
<1>5. Latest < MaxEvents
  BY RoomLeft DEF Commits
<1> QED BY <1>4, <1>5, ClientsetAssumption DEF ClientTypeOK, Latest, store, Version

LEMMA PastStays ==
  ASSUME ClientTypeOK, Grows
  PROVE  /\ Latest' \in Version
         /\ Latest <= Latest'
         /\ \A v \in 1 .. Latest : log'[v] = log[v]
<1>1. CASE log' = log
  BY <1>1 DEF ClientTypeOK, Latest, Version
<1>2. ASSUME NEW n \in Names, NEW object \in ObjectOrMissing, Written(n, object)
      PROVE  /\ Latest' \in Version
             /\ Latest <= Latest'
             /\ \A v \in 1 .. Latest : log'[v] = log[v]
  BY <1>2, CommitFacts DEF Written, ClientTypeOK, Latest, Version
<1> QED BY <1>1, <1>2 DEF Grows

-----------------------------------------------------------------------------
(* Types.                                                                  *)

LEMMA PutType ==
  ASSUME ClientTypeOK, NEW u \in Callers, NEW subresource, UNCHANGED mishapVars,
         held[u] # NoObject, held[u].edited \in Field, Put(u, subresource)
  PROVE  ClientTypeOK' /\ Grows
<1> DEFINE n == held[u].name
           object == held[u].object
           stored == Stored(n, object, subresource)
<1>1. n \in Names /\ object \in Object /\ held[u] \in Held
  BY DEF ClientTypeOK, Held
<1>2. Exists(n) /\ Commits(n, stored) /\ Latest < MaxEvents
  BY RoomLeft DEF Put, Accepted, Commits
<1>3. stored \in Object /\ stored.version = Latest + 1
  BY <1>1, <1>2, StoredType DEF Stored
<1>4. stored \in ObjectOrMissing /\ object \in ObjectOrMissing
  BY <1>1, <1>3 DEF ObjectOrMissing
<1>5. log' \in Seq([Names -> ObjectOrMissing]) /\ Latest' \in Version
  BY <1>1, <1>2, <1>4, CommitFacts
<1>6. tracker' \in [Names -> ObjectOrMissing]
  <2>1. FakeUpdate(n, object)
    BY DEF Put
  <2> QED BY <1>1, <1>4, <2>1 DEF FakeUpdate, Tracks, ClientTypeOK, ObjectOrMissing
<1>7. count' \in [Names -> [spec : Nat, status : Nat]]
  <2>1. count' = [count EXCEPT ![n] = Bump(@, held[u].edited)]
    BY DEF Put
  <2>2. Bump(count[n], held[u].edited) \in [spec : Nat, status : Nat]
    <3>1. n \in Names /\ count[n] \in [spec : Nat, status : Nat]
      BY <1>1 DEF ClientTypeOK
    <3> QED BY <3>1 DEF Bump
  <2> QED BY <2>1, <2>2, <1>1 DEF ClientTypeOK
<1>8. held' \in [Callers -> Held \cup {NoObject}]
  <2> DEFINE answer == [name |-> n, object |-> stored, edited |-> "none", shares |-> {}, list |-> 0]
  <2>1. held' = [held EXCEPT ![u] = answer] \/ held' = held
    BY DEF Put, Answers, Takes
  <2>2. answer \in Held
    BY <1>1, <1>3 DEF Held
  <2> QED BY <2>1, <2>2 DEF ClientTypeOK
<1>9. refused' \in BOOLEAN
  BY DEF Put, ClientTypeOK
<1>10. Grows
  BY <1>1, <1>2, <1>3, <1>4 DEF Grows, Written
<1> QED BY <1>5, <1>6, <1>7, <1>8, <1>9, <1>10 DEF ClientTypeOK, mishapVars

LEMMA VerbsType ==
  ASSUME ClientTypeOK, Verbs, UNCHANGED mishapVars
  PROVE  ClientTypeOK' /\ Grows
<1> USE DEF mishapVars
<1>1. ASSUME NEW n \in Names, Create(n) PROVE ClientTypeOK' /\ Grows
  <2>1. Commits(n, Fresh) /\ Fresh \in Object /\ Fresh.version = Latest + 1
    BY <1>1, FreshType, RoomLeft DEF Create, Commits
  <2>2. tracker' \in [Names -> ObjectOrMissing]
    BY <1>1, <2>1 DEF Create, FakeCreate, Tracks, ClientTypeOK, ObjectOrMissing
  <2>3. Fresh \in ObjectOrMissing
    BY <2>1 DEF ObjectOrMissing
  <2>4. log' \in Seq([Names -> ObjectOrMissing]) /\ Latest' \in Version
    BY <2>1, <2>3, CommitFacts
  <2>5. Grows
    BY <2>1, <2>3 DEF Grows, Written
  <2> QED BY <1>1, <2>2, <2>4, <2>5 DEF Create, ClientTypeOK
<1>2. ASSUME NEW n \in Names, Delete(n) PROVE ClientTypeOK' /\ Grows
  <2>1. Commits(n, Missing) /\ Missing \in ObjectOrMissing
    BY <1>2 DEF Delete, ObjectOrMissing
  <2>2. log' \in Seq([Names -> ObjectOrMissing]) /\ Latest' \in Version
    BY <2>1, CommitFacts
  <2>3. tracker' \in [Names -> ObjectOrMissing]
    BY <1>2, <2>1 DEF Delete, FakeDelete, Tracks, ClientTypeOK
  <2>4. count' \in [Names -> [spec : Nat, status : Nat]]
    BY <1>2 DEF Delete, Zero, ClientTypeOK
  <2>5. Grows
    BY <2>1 DEF Grows, Written
  <2> QED BY <1>2, <2>2, <2>3, <2>4, <2>5 DEF Delete, ClientTypeOK
<1>3. ASSUME NEW n \in Names, Patch(n) PROVE ClientTypeOK' /\ Grows
  <2> DEFINE patched == [store[n] EXCEPT !.version = Latest + 1, !.spec = 0]
  <2>1. Commits(n, patched) /\ Exists(n) /\ Latest < MaxEvents
    BY <1>3, RoomLeft DEF Patch, Commits
  <2>2. store \in [Names -> ObjectOrMissing]
    BY DEF ClientTypeOK, Latest, store, Version
  <2>3. store[n] \in Object
    BY <2>1, <2>2 DEF Exists, ObjectOrMissing
  <2>4. patched \in Object /\ patched.version = Latest + 1
    <3>1. Latest + 1 \in Version
      BY <2>1, ClientsetAssumption DEF Version, ClientTypeOK
    <3> QED BY <2>3, <3>1 DEF Object
  <2>5. patched \in ObjectOrMissing
    BY <2>4 DEF ObjectOrMissing
  <2>6. log' \in Seq([Names -> ObjectOrMissing]) /\ Latest' \in Version
    BY <2>1, <2>5, CommitFacts
  <2>7. tracker' \in [Names -> ObjectOrMissing]
    <3>1. FakePatch(n)
      BY <1>3 DEF Patch
    <3>2. tracker[n] # Missing => [tracker[n] EXCEPT !.spec = 0] \in Object
      BY DEF ClientTypeOK, ObjectOrMissing, Object
    <3> QED BY <3>1, <3>2 DEF FakePatch, Tracks, ClientTypeOK, ObjectOrMissing
  <2>8. count' \in [Names -> [spec : Nat, status : Nat]]
    BY <1>3 DEF Patch, ClientTypeOK
  <2>9. Grows
    BY <2>1, <2>4, <2>5 DEF Grows, Written
  <2> QED BY <1>3, <2>6, <2>7, <2>8, <2>9 DEF Patch, ClientTypeOK
<1>4. ASSUME NEW u \in Callers, Update(u) PROVE ClientTypeOK' /\ Grows
  BY <1>4, PutType DEF Update, UpdateOf, Field
<1>5. ASSUME NEW u \in Callers, UpdateStatus(u) PROVE ClientTypeOK' /\ Grows
  BY <1>5, PutType DEF UpdateStatus, UpdateOf, Field
<1>6. ASSUME NEW u \in Callers, Conflict(u) PROVE ClientTypeOK' /\ Grows
  BY <1>6 DEF Conflict, ClientTypeOK, Grows, Latest, ObjectOrMissing
<1>7. ASSUME NEW u \in Callers, Drops(u) PROVE ClientTypeOK' /\ Grows
  BY <1>7 DEF Drops, ClientTypeOK, Grows, Latest
<1>8. ASSUME NEW u \in Callers, NEW n \in Names, Get(u, n) PROVE ClientTypeOK' /\ Grows
  <2>1. store \in [Names -> ObjectOrMissing]
    BY DEF ClientTypeOK, Latest, store, Version
  <2>2. store[n] \in Object
    BY <1>8, <2>1 DEF Get, Exists, ObjectOrMissing
  <2>3. [name |-> n, object |-> store[n], edited |-> "none", shares |-> {}, list |-> 0] \in Held
    BY <2>2 DEF Held
  <2> QED BY <1>8, <2>3 DEF Get, Answers, Takes, ClientTypeOK, Grows, Latest
<1> QED BY <1>1, <1>2, <1>3, <1>4, <1>5, <1>6, <1>7, <1>8 DEF Verbs

LEMMA ViewType ==
  ASSUME ClientTypeOK, NEW t \in Types, NEW v \in 1 .. Latest
  PROVE  View(t, v) \in [Names -> ObjectOrMissing]
<1>1. log[v] \in [Names -> ObjectOrMissing]
  BY DEF ClientTypeOK, Latest
<1> QED BY <1>1 DEF View, ObjectOrMissing

LEMMA ReflectorType ==
  ASSUME TypeOK, NEW t \in Types, Lists(t) \/ Receives(t)
  PROVE  TypeOK'
<1>1. CASE Lists(t)
  <2>1. PICK v \in 1 .. Latest :
          /\ position' = [position EXCEPT ![t] = v]
          /\ cache' = [cache EXCEPT ![t] = View(t, v)]
    BY <1>1 DEF Lists
  <2>2. v \in 0 .. Latest /\ View(t, v) \in [Names -> ObjectOrMissing]
    BY ViewType DEF TypeOK, ClientTypeOK, Version
  <2>3. UNCHANGED <<clientVars, mishapVars, factoryVars, closed, waits>>
    BY <1>1 DEF Lists
  <2>4. /\ running' = [running EXCEPT ![t] = "watching"]
        /\ lists' = [lists EXCEPT ![t] = @ + 1]
    BY <1>1 DEF Lists
  <2> QED BY <2>1, <2>2, <2>3, <2>4
      DEF TypeOK, ClientTypeOK, Latest, clientVars, mishapVars, factoryVars
<1>2. CASE Receives(t)
  <2> DEFINE v == position[t] + 1
  <2>1. v \in 1 .. Latest /\ v \in 0 .. Latest
    BY <1>2 DEF Receives, TypeOK, ClientTypeOK, Version
  <2>2. log[v] \in [Names -> ObjectOrMissing] /\ cache[t] \in [Names -> ObjectOrMissing]
    BY <2>1 DEF TypeOK, ClientTypeOK, Latest
  <2>3. PICK f : /\ f \in [Names -> ObjectOrMissing]
                 /\ cache' = [cache EXCEPT ![t] = f]
    BY <1>2, <2>2 DEF Receives
  <2>4. position' = [position EXCEPT ![t] = v]
    BY <1>2 DEF Receives
  <2>5. UNCHANGED <<clientVars, mishapVars, factoryVars, running, lists, closed, waits>>
    BY <1>2 DEF Receives
  <2> QED BY <2>1, <2>3, <2>4, <2>5
      DEF TypeOK, ClientTypeOK, Latest, clientVars, mishapVars, factoryVars
<1> QED BY <1>1, <1>2

LEMMA TakenType ==
  ASSUME TypeOK, NEW u \in Callers, NEW n \in Names, ListerGet(u, n)
  PROVE  TypeOK'
<1> DEFINE object == cache[TypeOf[n]][n]
           pointer == [name |-> n, object |-> object, edited |-> "none", shares |-> Field,
                       list |-> lists[TypeOf[n]]]
<1>1. object \in Object /\ lists[TypeOf[n]] \in Nat
  BY FactoryAssumption DEF ListerGet, TypeOK, ObjectOrMissing
<1>2. pointer \in Held
  BY <1>1 DEF Held
<1>3. held' \in [Callers -> Held \cup {NoObject}]
  BY <1>2 DEF ListerGet, Takes, TypeOK, ClientTypeOK
<1> QED BY <1>3 DEF ListerGet, OnlyHeldChanges, TypeOK, ClientTypeOK, Latest, mishapVars,
                    factoryVars, reflectorVars

LEMMA CopiedType ==
  ASSUME TypeOK, NEW u \in Callers, Copies(u)
  PROVE  TypeOK'
<1>1. held[u] \in Held
  BY DEF Copies, TypeOK, ClientTypeOK
<1>2. DeepCopy(held[u]) \in Held
  BY <1>1 DEF DeepCopy, Held
<1>3. held' \in [Callers -> Held \cup {NoObject}]
  BY <1>2 DEF Copies, TypeOK, ClientTypeOK
<1> QED BY <1>3 DEF Copies, OnlyHeldChanges, TypeOK, ClientTypeOK, Latest, mishapVars,
                    factoryVars, reflectorVars

(* What a change in place does to another caller's object.                 *)
LEMMA SeenType ==
  ASSUME NEW g \in Held, NEW field \in Field
  PROVE  /\ [g EXCEPT !.object = Bump(@, field)] \in Held
         /\ [g EXCEPT !.object = Bump(@, field)].object.version = g.object.version
<1>1. g.object \in Object
  BY DEF Held
<1>2. /\ Bump(g.object, field) \in Object
      /\ Bump(g.object, field).version = g.object.version
  BY <1>1, BumpType
<1> QED BY <1>2 DEF Held

LEMMA EditedType ==
  ASSUME TypeOK, NEW u \in Callers, NEW field \in Field, EditsObject(u, field)
  PROVE  TypeOK'
<1> DEFINE h == held[u]
           Seen(g) == IF SameMemory(g, h, field) THEN [g EXCEPT !.object = Bump(@, field)] ELSE g
<1>1. h \in Held /\ h.name \in Names /\ h.object \in Object
  BY DEF EditsObject, TypeOK, ClientTypeOK, Held
<1>2. held' \in [Callers -> Held \cup {NoObject}]
  <2>1. Edited(h, field) \in Held
    <3>1. Bump(h.object, field) \in Object
      BY <1>1, BumpType
    <3> QED BY <1>1, <3>1 DEF Held, Edited
  <2>2. \A x \in Callers : Seen(held[x]) \in Held \cup {NoObject}
    <3> TAKE x \in Callers
    <3>1. held[x] \in Held \cup {NoObject}
      BY DEF TypeOK, ClientTypeOK
    <3>2. CASE SameMemory(held[x], h, field)
      <4>1. held[x] \in Held
        BY <3>1, <3>2 DEF SameMemory
      <4> QED BY <3>2, <4>1, SeenType
    <3> QED BY <3>1, <3>2
  <2>3. held' = [x \in Callers |-> IF x = u THEN Edited(h, field) ELSE Seen(held[x])]
    BY DEF EditsObject
  <2> HIDE DEF Seen
  <2> QED BY <2>1, <2>2, <2>3
<1>3. cache' \in [Types -> [Names -> ObjectOrMissing]]
  <2> DEFINE n == h.name
             t == TypeOf[n]
  <2>1. CASE ~InCache(h, field)
    BY <2>1 DEF EditsObject, TypeOK
  <2>2. CASE InCache(h, field)
    <3>1. t \in Types /\ cache[t] \in [Names -> ObjectOrMissing]
      BY <1>1, FactoryAssumption DEF TypeOK
    <3>2. cache[t][n] \in Object
      BY <1>1, <2>2, <3>1 DEF InCache, ObjectOrMissing
    <3>3. Bump(cache[t][n], field) \in ObjectOrMissing
      BY <3>2, BumpType DEF ObjectOrMissing
    <3>4. cache' = [cache EXCEPT ![t][n] = Bump(@, field)]
      BY <2>2 DEF EditsObject
    <3>5. [cache[t] EXCEPT ![n] = Bump(@, field)] \in [Names -> ObjectOrMissing]
      BY <3>1, <3>3
    <3> QED BY <3>1, <3>4, <3>5 DEF TypeOK
  <2> QED BY <2>1, <2>2
<1>4. tampered' \subseteq Version /\ mishaps' \in Nat
  <2>1. h.object.version \in Version
    BY <1>1 DEF Object
  <2> QED BY <2>1 DEF EditsObject, mishapVars, TypeOK, ClientTypeOK
<1> QED BY <1>2, <1>3, <1>4 DEF EditsObject, TypeOK, ClientTypeOK, Latest, factoryVars

LEMMA TypeInit == Init => TypeOK
<1> SUFFICES ASSUME Init PROVE TypeOK
  OBVIOUS
<1>1. ClientTypeOK
  <2>1. [n \in Names |-> Missing] \in [Names -> ObjectOrMissing]
    BY DEF ObjectOrMissing
  <2>2. log \in Seq([Names -> ObjectOrMissing]) /\ Len(log) = 1
    BY <2>1 DEF Init, ClientInit
  <2>3. Latest \in Version
    BY <2>2, ClientsetAssumption DEF Latest, Version
  <2> QED BY <2>1, <2>2, <2>3 DEF Init, ClientInit, ClientTypeOK, Zero
<1> QED BY <1>1, FactoryAssumption
    DEF Init, ClientInit, TypeOK, NoObjects, ObjectOrMissing, Latest

LEMMA TypeStep == TypeOK /\ [Next]_vars => TypeOK'
<1> SUFFICES ASSUME TypeOK, [Next]_vars PROVE TypeOK'
  OBVIOUS
<1> USE DEF TypeOK, mishapVars
<1>1. CASE CallsClientset
  <2>1. ClientTypeOK' /\ Latest <= Latest'
    BY <1>1, VerbsType, PastStays DEF CallsClientset
  <2>2. position' \in [Types -> 0 .. Latest']
    BY <1>1, <2>1 DEF CallsClientset, reflectorVars, ClientTypeOK, Version
  <2> QED BY <1>1, <2>1, <2>2 DEF CallsClientset, factoryVars, reflectorVars
<1>2. ASSUME NEW u \in Callers, NEW n \in Names, ListerGet(u, n) PROVE TypeOK'
  BY <1>2, TakenType
<1>13. ASSUME NEW u \in Callers, Copies(u) PROVE TypeOK'
  BY <1>13, CopiedType
<1>3. ASSUME NEW u \in Callers, NEW field \in Field, EditsObject(u, field) PROVE TypeOK'
  BY <1>3, EditedType
<1>4. ASSUME NEW t \in Types, InformerFor(t) PROVE TypeOK'
  BY <1>4 DEF InformerFor, ClientTypeOK, Latest, clientVars, reflectorVars
<1>5. ASSUME NEW t \in Types, Lists(t) \/ Receives(t) PROVE TypeOK'
  BY <1>5, ReflectorType
<1>6. ASSUME NEW t \in Types, WatchBreaks(t) PROVE TypeOK'
  BY <1>6 DEF WatchBreaks, ClientTypeOK, Latest, clientVars, factoryVars
<1>7. ASSUME NEW t \in Types, Stops(t) PROVE TypeOK'
  BY <1>7 DEF Stops, ClientTypeOK, Latest, clientVars, factoryVars
<1>8. ASSUME NEW c \in Channels, Start(c) PROVE TypeOK'
  <2>1. /\ channel' \in [Types -> Channels \cup {NoChannel}]
        /\ running' \in [Types -> {"no", "listing", "watching", "stopped"}]
        /\ startedInformers' \subseteq informers
    BY <1>8 DEF Start
  <2> QED BY <1>8, <2>1 DEF Start, ClientTypeOK, Latest, clientVars
<1>9. ASSUME NEW c \in Channels, Close(c) PROVE TypeOK'
  BY <1>9 DEF Close, ClientTypeOK, Latest, clientVars, factoryVars, reflectorVars
<1>10. ASSUME NEW w \in Waiters, NEW c \in Channels, WaitForCacheSync(w, c) PROVE TypeOK'
  <2>1. [on |-> c, pending |-> informers \cap startedInformers] \in Wait
    <3>1. informers \cap startedInformers \in (SUBSET Types) \ {{}}
      BY <1>10 DEF WaitForCacheSync
    <3> QED BY <3>1 DEF Wait
  <2> QED BY <1>10, <2>1
      DEF WaitForCacheSync, ClientTypeOK, Latest, clientVars, factoryVars, reflectorVars
<1>11. ASSUME NEW w \in Waiters, NEW t \in Types, WaitEndsFor(w, t) PROVE TypeOK'
  <2>1. waits[w] \in Wait
    BY <1>11 DEF WaitEndsFor
  <2> DEFINE left == [on |-> waits[w].on, pending |-> waits[w].pending \ {t}]
  <2>2. left.pending # {} => left \in Wait
    BY <2>1 DEF Wait
  <2>3. waits' \in [Waiters -> Wait \cup {NoWait}]
    BY <1>11, <2>2 DEF WaitEndsFor
  <2> QED BY <1>11, <2>3
      DEF WaitEndsFor, ClientTypeOK, Latest, clientVars, factoryVars, reflectorVars
<1>12. CASE UNCHANGED vars
  BY <1>12 DEF ClientTypeOK, Latest, vars, clientVars, factoryVars, reflectorVars
<1> QED BY <1>1, <1>2, <1>3, <1>4, <1>5, <1>6, <1>7, <1>8, <1>9, <1>10, <1>11, <1>12, <1>13
    DEF Next

(* Every variable keeps its type, whatever the number of objects, callers, *)
(* types, channels and waiters; in particular no cache is ahead of the     *)
(* server and every wait waits for something.                              *)
THEOREM TypeCorrect == Spec => []TypeOK
  BY TypeInit, TypeStep, PTL DEF Spec

-----------------------------------------------------------------------------
(* Versions and copies.                                                    *)

LEMMA PastObject ==
  ASSUME ClientTypeOK, NEW v \in 1 .. Latest, NEW n \in Names, log[v][n] # Missing
  PROVE  log[v][n] \in Object
<1>1. log[v] \in [Names -> ObjectOrMissing]
  BY DEF ClientTypeOK, Latest
<1> QED BY <1>1 DEF ObjectOrMissing

LEMMA VersionsStep ==
  ASSUME ClientTypeOK, VersionsIdentify, Grows
  PROVE  VersionsIdentify'
<1>1. CASE log' = log
  BY <1>1 DEF VersionsIdentify, Latest
<1>2. ASSUME NEW n \in Names, NEW object \in ObjectOrMissing, Written(n, object)
      PROVE  VersionsIdentify'
  <2> DEFINE new == Latest + 1
  <2>1. /\ Latest \in Nat /\ Latest >= 1
        /\ Latest' = new
        /\ \A v \in 1 .. Latest : log'[v] = log[v]
        /\ log'[new] = [log[Latest] EXCEPT ![n] = object]
    <3>1. Latest \in Nat /\ Latest >= 1
      BY DEF ClientTypeOK, Version
    <3>2. /\ Latest' = new
          /\ \A v \in 1 .. Latest : log'[v] = log[v]
          /\ store' = [store EXCEPT ![n] = object]
      BY <1>2, CommitFacts DEF Written
    <3> QED BY <3>1, <3>2 DEF store
  <2>2. log[Latest] \in [Names -> ObjectOrMissing]
    BY <2>1 DEF ClientTypeOK, Latest
  <2> DEFINE At(v, m) == log'[v][m]
  <2>3. \A m \in Names :
          At(new, m) = IF m = n THEN object ELSE log[Latest][m]
    BY <2>1, <2>2
  <2>4. object # Missing => object.version = new
    BY <1>2 DEF Written
  <2>5. \A v \in 1 .. Latest, m \in Names :
          /\ At(v, m) = log[v][m]
          /\ log[v][m] # Missing => log[v][m].version \in Nat /\ log[v][m].version <= v
    <3> TAKE v \in 1 .. Latest, m \in Names
    <3>1. log[v][m] # Missing => log[v][m].version \in Nat
      BY PastObject DEF Object, Version
    <3> QED BY <2>1, <3>1 DEF VersionsIdentify
  <2> SUFFICES ASSUME NEW v \in 1 .. new, NEW m \in Names, At(v, m) # Missing
               PROVE  /\ At(v, m).version <= v
                      /\ \A w \in 1 .. new :
                           At(w, m) # Missing /\ At(w, m).version = At(v, m).version
                             => At(w, m) = At(v, m)
    BY <2>1 DEF VersionsIdentify
  <2> HIDE DEF At
  <2>6. Latest \in 1 .. Latest
    BY <2>1
  <2>7. \A x, y \in 1 .. Latest :
          /\ log[x][m] # Missing /\ log[y][m] # Missing
          /\ log[x][m].version = log[y][m].version
          => log[x][m] = log[y][m]
    BY DEF VersionsIdentify
  <2>8. CASE m = n
    BY <2>1, <2>3, <2>4, <2>5, <2>7, <2>8
  <2>9. CASE m # n
    <3>1. At(new, m) = log[Latest][m]
      BY <2>3, <2>9
    <3> QED BY <2>1, <2>5, <2>6, <2>7, <3>1
  <2> QED BY <2>8, <2>9
<1> QED BY <1>1, <1>2 DEF Grows

(* The past stays, and so does what was changed in the caches' memory.     *)
TamperedStays == tampered \subseteq tampered'

LEMMA CopyStays ==
  ASSUME ClientTypeOK, Grows, TamperedStays, NEW h, PastCopy(h, log, tampered)
  PROVE  PastCopy(h, log', tampered')
<1>1. PICK v \in 1 .. Len(log) :
        /\ log[v][h.name] # Missing
        /\ h.object.version = log[v][h.name].version
        /\ h.object.version \in tampered \/ CopyOf(h, log[v][h.name])
  BY DEF PastCopy
<1>2. v \in 1 .. Len(log') /\ log'[v] = log[v]
  BY PastStays DEF ClientTypeOK, Version, Latest
<1> QED BY <1>1, <1>2 DEF PastCopy, TamperedStays

(* It is enough to look at one caller where the others have what they had. *)
LEMMA HeldByOne ==
  ASSUME ClientTypeOK, HeldIsPast, Grows, TamperedStays, NEW u \in Callers,
         \A x \in Callers : x # u => held'[x] = held[x],
         held'[u] # NoObject => PastCopy(held'[u], log', tampered')
  PROVE  HeldIsPast'
<1> SUFFICES ASSUME NEW x \in Callers, held'[x] # NoObject
             PROVE  PastCopy(held'[x], log', tampered')
  BY DEF HeldIsPast
<1>1. CASE x = u
  BY <1>1
<1>2. CASE x # u
  <2>1. held'[x] = held[x] /\ PastCopy(held[x], log, tampered)
    BY <1>2 DEF HeldIsPast
  <2> QED BY <2>1, CopyStays
<1> QED BY <1>1, <1>2

LEMMA HeldStays ==
  ASSUME ClientTypeOK, HeldIsPast, Grows, TamperedStays,
         \A x \in Callers : held'[x] = held[x] \/ held'[x] = NoObject
  PROVE  HeldIsPast'
<1> SUFFICES ASSUME NEW x \in Callers, held'[x] # NoObject
             PROVE  PastCopy(held'[x], log', tampered')
  BY DEF HeldIsPast
<1>1. held'[x] = held[x] /\ PastCopy(held[x], log, tampered)
  BY DEF HeldIsPast
<1> QED BY <1>1, CopyStays

(* A write that is accepted was made on the object the server has.         *)
LEMMA AcceptedIsCurrent ==
  ASSUME ClientTypeOK, VersionsIdentify, HeldIsPast, NEW u \in Callers,
         held[u] # NoObject, Accepted(held[u].name, held[u].object)
  PROVE  /\ held[u] \in Held
         /\ store[held[u].name] \in Object
         /\ ~Tampered(held[u].name) => CopyOf(held[u], store[held[u].name])
<1> DEFINE n == held[u].name
<1>1. held[u] \in Held /\ n \in Names
  BY DEF ClientTypeOK, Held
<1>2. PICK v \in 1 .. Latest :
        /\ log[v][n] # Missing
        /\ held[u].object.version = log[v][n].version
        /\ held[u].object.version \in tampered \/ CopyOf(held[u], log[v][n])
  BY DEF HeldIsPast, PastCopy, Latest
<1>3. Latest \in 1 .. Latest
  BY DEF ClientTypeOK, Version
<1>4. /\ log[Latest][n] # Missing
      /\ log[Latest][n].version = held[u].object.version
  BY DEF Accepted, Exists, store
<1>5. log[v][n] = log[Latest][n]
  BY <1>1, <1>2, <1>3, <1>4 DEF VersionsIdentify
<1>6. log[Latest][n] \in Object
  BY <1>1, <1>3, <1>4, PastObject
<1>7. ~Tampered(n) => CopyOf(held[u], log[v][n])
  BY <1>2 DEF Tampered
<1> QED BY <1>1, <1>5, <1>6, <1>7 DEF store

LEMMA PutHeld ==
  ASSUME ClientTypeOK, HeldIsPast, UNCHANGED mishapVars, NEW u \in Callers, NEW subresource,
         held[u] # NoObject, held[u].edited \in Field, Put(u, subresource)
  PROVE  HeldIsPast'
<1> DEFINE n == held[u].name
           object == held[u].object
           stored == Stored(n, object, subresource)
           answer == [name |-> n, object |-> stored, edited |-> "none", shares |-> {}, list |-> 0]
<1>1. n \in Names /\ object \in Object
  BY DEF ClientTypeOK, Held
<1>2. Exists(n) /\ Commits(n, stored) /\ Latest < MaxEvents
  BY RoomLeft DEF Put, Accepted, Commits
<1>3. stored \in Object /\ stored \in ObjectOrMissing /\ stored # Missing
  BY <1>1, <1>2, StoredType, ClientsetAssumption DEF ObjectOrMissing
<1>4. Grows /\ TamperedStays
  BY PutType DEF mishapVars, TamperedStays
<1>5. Len(log') \in 1 .. Len(log') /\ log'[Len(log')][n] = stored
  <2>1. store' = [store EXCEPT ![n] = stored] /\ Latest' \in Version
    BY <1>1, <1>2, <1>3, CommitFacts
  <2>2. store \in [Names -> ObjectOrMissing]
    BY DEF ClientTypeOK, Latest, store, Version
  <2> QED BY <1>1, <2>1, <2>2 DEF store, Version, Latest
<1>6. CASE held' = held
  BY <1>4, <1>6, HeldStays
<1>7. CASE Answers(u, n, stored)
  <2>1. held'[u] = answer /\ \A x \in Callers : x # u => held'[x] = held[x]
    BY <1>7 DEF Answers, Takes, ClientTypeOK
  <2>2. CopyOf(answer, stored)
    BY <1>3 DEF CopyOf, SameData
  <2>3. PastCopy(answer, log', tampered')
    BY <1>3, <1>5, <2>2 DEF PastCopy
  <2> QED BY <1>4, <2>1, <2>3, HeldByOne
<1> QED BY <1>6, <1>7 DEF Put

(* Reading: from the server (Get) and from a cache (ListerGet).            *)
LEMMA TakenHeld ==
  ASSUME ClientTypeOK, HeldIsPast, UNCHANGED <<log, tampered>>, NEW u \in Callers,
         NEW n \in Names, NEW v \in 1 .. Latest, log[v][n] # Missing,
         NEW object, object.version = log[v][n].version,
         object = log[v][n] \/ object.version \in tampered,
         NEW shares \in {{}, Field}, NEW list, Takes(u, n, object, shares, list)
  PROVE  HeldIsPast'
<1> DEFINE h == [name |-> n, object |-> object, edited |-> "none", shares |-> shares,
                 list |-> list]
<1>1. held'[u] = h /\ \A x \in Callers : x # u => held'[x] = held[x]
  BY DEF Takes, ClientTypeOK
<1>2. object.version \in tampered \/ CopyOf(h, log[v][n])
  BY DEF CopyOf, SameData
<1>3. PastCopy(h, log, tampered)
  BY <1>2 DEF PastCopy, Latest
<1>4. Grows /\ TamperedStays
  BY DEF Grows, TamperedStays
<1> QED BY <1>1, <1>3, <1>4, HeldByOne

LEMMA CopiedHeld ==
  ASSUME ClientTypeOK, HeldIsPast, UNCHANGED <<log, tampered>>, NEW u \in Callers, Copies(u)
  PROVE  HeldIsPast'
<1> DEFINE h == held[u]
<1>1. h \in Held /\ PastCopy(h, log, tampered)
  BY DEF Copies, HeldIsPast, ClientTypeOK
<1>2. held'[u] = DeepCopy(h) /\ \A x \in Callers : x # u => held'[x] = held[x]
  BY DEF Copies, ClientTypeOK
<1>3. /\ DeepCopy(h).name = h.name /\ DeepCopy(h).object = h.object
      /\ DeepCopy(h).edited = h.edited /\ DeepCopy(h).shares = {}
  BY <1>1 DEF DeepCopy, Held
<1>4. PastCopy(DeepCopy(h), log, tampered)
  BY <1>1, <1>3 DEF PastCopy, CopyOf
<1>5. Grows /\ TamperedStays
  BY DEF Grows, TamperedStays
<1> QED BY <1>2, <1>4, <1>5, HeldByOne

(* The caller's own copy, changed once.                                    *)
LEMMA EditedCopy ==
  ASSUME ClientTypeOK, NEW h \in Held, PastCopy(h, log, tampered), h.edited = "none",
         h.object.version \notin tampered, NEW field \in Field
  PROVE  PastCopy(Edited(h, field), log, tampered)
<1>1. PICK v \in 1 .. Len(log) : log[v][h.name] # Missing /\ CopyOf(h, log[v][h.name])
  BY DEF PastCopy
<1> DEFINE object == log[v][h.name]
<1>2. object # Missing /\ object \in Object /\ h.object \in Object
  BY <1>1, PastObject DEF Held, Latest
<1>3. SameData(h.object, object) /\ h.object.version = object.version
  BY <1>1 DEF CopyOf
<1>4. /\ Edited(h, field).name = h.name
      /\ Edited(h, field).shares = h.shares
      /\ Edited(h, field).edited = field
      /\ Edited(h, field).object = Bump(h.object, field)
  BY DEF Edited, Held
<1>5. /\ SameData(Bump(h.object, field), Bump(object, field))
      /\ Bump(h.object, field).version = object.version
  BY <1>2, <1>3 DEF SameData, Bump, Object, Field
<1>6. CopyOf(Edited(h, field), object)
  BY <1>2, <1>4, <1>5 DEF CopyOf, Field
<1>7. h.shares \in {{}, Field}
  BY DEF PastCopy
<1> QED BY <1>1, <1>2, <1>4, <1>5, <1>6, <1>7 DEF PastCopy

(* Where the version is spoilt the contents do not matter.                 *)
LEMMA SpoiltCopy ==
  ASSUME NEW h, NEW g, NEW past, NEW spoilt, NEW more, spoilt \subseteq more,
         PastCopy(h, past, spoilt), h.object.version \in more,
         g.name = h.name, g.shares = h.shares, g.object.version = h.object.version
  PROVE  PastCopy(g, past, more)
  BY DEF PastCopy

LEMMA EditedHeld ==
  ASSUME ClientTypeOK, HeldIsPast, NEW u \in Callers, NEW field \in Field,
         EditsObject(u, field)
  PROVE  HeldIsPast'
<1> DEFINE h == held[u]
<1>1. log' = log /\ Grows /\ TamperedStays
  BY DEF EditsObject, Grows, mishapVars, TamperedStays
<1>2. h \in Held /\ PastCopy(h, log, tampered) /\ h.edited = "none"
  BY DEF EditsObject, HeldIsPast, ClientTypeOK
<1>3. h.shares = {} \/ h.object.version \in tampered'
  BY <1>2 DEF EditsObject, ReadOnly, PastCopy
<1>4. PastCopy(Edited(h, field), log', tampered')
  <2>1. Edited(h, field).name = h.name /\ Edited(h, field).shares = h.shares
        /\ Edited(h, field).object.version = h.object.version
    BY <1>2, BumpType DEF Edited, Held
  <2>2. CASE h.object.version \in tampered'
    BY <1>1, <1>2, <2>1, <2>2, SpoiltCopy DEF TamperedStays
  <2>3. CASE h.object.version \notin tampered'
    <3>1. h.object.version \notin tampered
      BY <1>1, <2>3 DEF TamperedStays
    <3>2. PastCopy(Edited(h, field), log, tampered)
      BY <1>2, <3>1, EditedCopy
    <3> QED BY <1>1, <3>2, CopyStays
  <2> QED BY <2>2, <2>3
<1> SUFFICES ASSUME NEW x \in Callers, held'[x] # NoObject
             PROVE  PastCopy(held'[x], log', tampered')
  BY DEF HeldIsPast
<1>5. CASE x = u
  BY <1>4, <1>5 DEF EditsObject
<1>6. CASE x # u /\ SameMemory(held[x], h, field)
  <2> DEFINE g == held[x]
  <2>1. g \in Held /\ PastCopy(g, log, tampered) /\ h.object.version \in tampered'
        /\ g.object.version = h.object.version
    BY <1>3, <1>6 DEF SameMemory, HeldIsPast, ClientTypeOK
  <2>2. held'[x] = [g EXCEPT !.object = Bump(@, field)]
    BY <1>6 DEF EditsObject
  <2>3. held'[x].name = g.name /\ held'[x].shares = g.shares
        /\ held'[x].object.version = g.object.version
    BY <2>1, <2>2, SeenType DEF Held
  <2> QED BY <1>1, <2>1, <2>3, SpoiltCopy DEF TamperedStays
<1>7. CASE x # u /\ ~SameMemory(held[x], h, field)
  <2>1. held'[x] = held[x]
    BY <1>7 DEF EditsObject
  <2>2. PastCopy(held[x], log, tampered)
    BY <2>1 DEF HeldIsPast
  <2> QED BY <1>1, <2>1, <2>2, CopyStays
<1> QED BY <1>5, <1>6, <1>7

(* What a cache shows of an object: the object of the past, or that        *)
(* version of it with other contents.                                      *)
LEMMA ShownPast ==
  ASSUME TypeOK, CacheIsAPastState, NEW n \in Names, cache[TypeOf[n]][n] # Missing
  PROVE  LET object == cache[TypeOf[n]][n]
             v == position[TypeOf[n]]
         IN /\ v \in 1 .. Latest
            /\ log[v][n] # Missing
            /\ object.version = log[v][n].version
            /\ object = log[v][n] \/ object.version \in tampered
<1> DEFINE t == TypeOf[n]
           v == position[t]
<1>1. t \in Types
  BY FactoryAssumption
<1>2. HasSynced(t)
  BY <1>1 DEF CacheIsAPastState, NoObjects
<1>3. v \in 1 .. Latest
  BY <1>1, <1>2 DEF HasSynced, TypeOK, ClientTypeOK, Version
<1>4. View(t, v)[n] = log[v][n]
  BY DEF View
<1>5. Shows(t, v)
  BY <1>1, <1>2 DEF CacheIsAPastState
<1> QED BY <1>3, <1>4, <1>5 DEF Shows

LEMMA HeldStep == IInv /\ [Next]_vars => HeldIsPast'
<1> SUFFICES ASSUME IInv, [Next]_vars PROVE HeldIsPast'
  OBVIOUS
<1>1. ClientTypeOK /\ HeldIsPast
  BY DEF IInv, TypeOK
<1>2. ASSUME Grows, TamperedStays, \A u \in Callers : held'[u] = held[u] \/ held'[u] = NoObject
      PROVE  HeldIsPast'
  BY <1>1, <1>2, HeldStays
<1>3. CASE CallsClientset
  <2>1. Verbs /\ UNCHANGED mishapVars /\ TamperedStays
    BY <1>3 DEF CallsClientset, mishapVars, TamperedStays
  <2>2. Grows
    BY <1>1, <2>1, VerbsType
  <2>3. ASSUME NEW n \in Names, Create(n) \/ Delete(n) \/ Patch(n) PROVE HeldIsPast'
    BY <1>2, <2>1, <2>2, <2>3 DEF Create, Delete, Patch
  <2>4. ASSUME NEW u \in Callers, Update(u) \/ UpdateStatus(u) PROVE HeldIsPast'
    BY <1>1, <2>1, <2>4, PutHeld DEF Update, UpdateStatus, UpdateOf, Field
  <2>5. ASSUME NEW u \in Callers, Conflict(u) \/ Drops(u) PROVE HeldIsPast'
    BY <1>1, <1>2, <2>1, <2>2, <2>5 DEF Conflict, Drops, ClientTypeOK
  <2>6. ASSUME NEW u \in Callers, NEW n \in Names, Get(u, n) PROVE HeldIsPast'
    <3>1. Latest \in 1 .. Latest
      BY <1>1 DEF ClientTypeOK, Version
    <3>2. /\ log[Latest][n] # Missing /\ UNCHANGED <<log, tampered>>
          /\ Takes(u, n, log[Latest][n], {}, 0)
      BY <2>1, <2>6 DEF Get, Exists, Answers, store, mishapVars
    <3> QED BY <1>1, <3>1, <3>2, TakenHeld
  <2> QED BY <2>1, <2>3, <2>4, <2>5, <2>6 DEF Verbs
<1>4. ASSUME NEW u \in Callers, NEW n \in Names, ListerGet(u, n) PROVE HeldIsPast'
  <2> DEFINE object == cache[TypeOf[n]][n]
             v == position[TypeOf[n]]
  <2>1. object # Missing /\ Takes(u, n, object, Field, lists[TypeOf[n]])
        /\ UNCHANGED <<log, tampered>>
    BY <1>4 DEF ListerGet, OnlyHeldChanges, mishapVars
  <2>2. /\ v \in 1 .. Latest
        /\ log[v][n] # Missing
        /\ object.version = log[v][n].version
        /\ object = log[v][n] \/ object.version \in tampered
    BY <2>1, ShownPast DEF IInv
  <2> HIDE DEF object, v
  <2> QED BY <1>1, <2>1, <2>2, TakenHeld
<1>5. ASSUME NEW u \in Callers, Copies(u) PROVE HeldIsPast'
  BY <1>1, <1>5, CopiedHeld DEF Copies, OnlyHeldChanges, mishapVars
<1>6. ASSUME NEW u \in Callers, NEW field \in Field, EditsObject(u, field) PROVE HeldIsPast'
  BY <1>1, <1>6, EditedHeld
<1>7. CASE UNCHANGED <<clientVars, tampered>>
  BY <1>2, <1>7 DEF clientVars, Grows, TamperedStays
<1> QED BY <1>3, <1>4, <1>5, <1>6, <1>7
    DEF Next, InformerFor, Lists, Receives, WatchBreaks, Stops, Start, Close,
        WaitForCacheSync, WaitEndsFor, vars, mishapVars

-----------------------------------------------------------------------------
(* The changes in the objects of the server and of the fake clientset.     *)

Counted == IncrementsCount /\ FakeAgrees /\ GoneCountsZero

LEMMA StoreAfter ==
  ASSUME ClientTypeOK, NEW n \in Names, NEW object \in ObjectOrMissing, Commits(n, object)
  PROVE  /\ store'[n] = object
         /\ \A m \in Names : m # n => store'[m] = store[m]
<1>1. store \in [Names -> ObjectOrMissing]
  BY DEF ClientTypeOK, Latest, store, Version
<1> QED BY <1>1, CommitFacts

(* One object is replaced: the others are as they were.                    *)
LEMMA TamperedNames ==
  ASSUME ClientTypeOK, Grows, TamperedStays, NEW n \in Names
  PROVE  Tampered(n) => Tampered(n)'
<1> SUFFICES ASSUME NEW v \in 1 .. Latest, log[v][n] # Missing, log[v][n].version \in tampered
             PROVE  Tampered(n)'
  BY DEF Tampered
<1>1. v \in 1 .. Latest' /\ log'[v] = log[v]
  BY PastStays DEF ClientTypeOK, Version
<1> QED BY <1>1 DEF Tampered, TamperedStays

(* One object is replaced: the others are as they were.                    *)
LEMMA CountedAt ==
  ASSUME Counted, NEW n \in Names,
         \A m \in Names : Tampered(m) => Tampered(m)',
         \A m \in Names : m # n => /\ store'[m] = store[m] /\ count'[m] = count[m]
                                   /\ tracker'[m] = tracker[m],
         refused' = refused,
         IF store'[n] # Missing THEN Tampered(n)' \/ SameData(store'[n], count'[n])
         ELSE count'[n] = Zero,
         ~refused => IF store'[n] # Missing
                       THEN /\ tracker'[n] # Missing
                            /\ Tampered(n)' \/ SameData(tracker'[n], store'[n])
                       ELSE tracker'[n] = Missing
  PROVE  Counted'
<1>1. IncrementsCount'
  <2> SUFFICES ASSUME NEW m \in Names, store'[m] # Missing, ~Tampered(m)'
               PROVE  SameData(store'[m], count'[m])
    BY DEF IncrementsCount, Exists, SameData
  <2> QED BY DEF Counted, IncrementsCount, Exists
<1>2. FakeAgrees'
  <2> SUFFICES ASSUME ~refused, NEW m \in Names
               PROVE  IF store'[m] # Missing
                        THEN /\ tracker'[m] # Missing
                             /\ Tampered(m)' \/ SameData(tracker'[m], store'[m])
                        ELSE tracker'[m] = Missing
    BY DEF FakeAgrees, Exists, SameData
  <2> QED BY DEF Counted, FakeAgrees, Exists
<1>3. GoneCountsZero'
  <2> SUFFICES ASSUME NEW m \in Names, store'[m] = Missing PROVE count'[m] = Zero
    BY DEF GoneCountsZero, Zero
  <2> QED BY DEF Counted, GoneCountsZero
<1> QED BY <1>1, <1>2, <1>3 DEF Counted

LEMMA TrackedAt ==
  ASSUME ClientTypeOK, NEW n \in Names, NEW object, Tracks(n, object)
  PROVE  /\ ~refused => tracker'[n] = object
         /\ \A m \in Names : m # n => tracker'[m] = tracker[m]
  BY DEF Tracks, ClientTypeOK

LEMMA PutCounts ==
  ASSUME ClientTypeOK, VersionsIdentify, HeldIsPast, Counted, NEW u \in Callers,
         \A m \in Names : Tampered(m) => Tampered(m)', Update(u) \/ UpdateStatus(u)
  PROVE  Counted'
<1> DEFINE n == held[u].name
           object == held[u].object
           field == held[u].edited
<1>1. PICK subresource \in {"object", "status"} :
        /\ Put(u, subresource)
        /\ field = IF subresource = "status" THEN "status" ELSE "spec"
  BY DEF Update, UpdateStatus, UpdateOf
<1> DEFINE stored == Stored(n, object, subresource)
<1>2. held[u] # NoObject /\ Accepted(n, object)
  BY <1>1 DEF Update, UpdateStatus, UpdateOf, Put
<1>3. held[u] \in Held /\ n \in Names /\ object \in Object
      /\ store[n] \in Object /\ (~Tampered(n) => CopyOf(held[u], store[n]))
  BY <1>2, AcceptedIsCurrent DEF Held
<1>4. ~Tampered(n) => object.spec = stored.spec /\ object.status = stored.status
  BY <1>1, <1>3 DEF CopyOf, SameData, Bump, Stored, Object
<1>5. ~Tampered(n) => SameData(stored, Bump(store[n], field))
  BY <1>1, <1>3, <1>4 DEF CopyOf, SameData
<1>6. stored \in ObjectOrMissing /\ stored # Missing /\ Commits(n, stored)
  <2>1. Commits(n, stored) /\ Exists(n) /\ Latest < MaxEvents
    BY <1>1, <1>2, RoomLeft DEF Put, Commits, Accepted
  <2> QED BY <1>3, <2>1, StoredType, ClientsetAssumption DEF ObjectOrMissing
<1>7. store'[n] = stored /\ \A m \in Names : m # n => store'[m] = store[m]
  BY <1>3, <1>6, StoreAfter
<1>8. /\ ~Tampered(n) => SameData(store[n], count[n])
      /\ count[n] \in [spec : Nat, status : Nat]
  BY <1>2, <1>3 DEF Counted, IncrementsCount, Accepted, ClientTypeOK
<1>9. count'[n] = Bump(count[n], field) /\ \A m \in Names : m # n => count'[m] = count[m]
  <2>1. count' = [count EXCEPT ![n] = Bump(@, held[u].edited)]
    BY <1>1 DEF Put
  <2> QED BY <1>3, <2>1 DEF ClientTypeOK
<1>10. ~Tampered(n) => SameData(stored, count'[n])
  BY <1>3, <1>5, <1>8, <1>9, <1>1 DEF SameData, Bump, Object
<1>11. /\ ~refused => tracker'[n] = object
       /\ \A m \in Names : m # n => tracker'[m] = tracker[m]
  <2>1. FakeUpdate(n, object)
    BY <1>1 DEF Put
  <2>2. Tracks(n, IF tracker[n] = Missing THEN Missing ELSE object)
    BY <2>1 DEF FakeUpdate
  <2>3. ~refused => tracker[n] # Missing
    BY <1>2, <1>3 DEF Counted, FakeAgrees, Accepted
  <2> QED BY <1>3, <2>2, <2>3, TrackedAt
<1>12. object # Missing
  BY <1>3, ClientsetAssumption
<1>13. refused' = refused
  BY <1>1 DEF Put
<1> QED BY <1>3, <1>4, <1>6, <1>7, <1>9, <1>10, <1>11, <1>12, <1>13, CountedAt DEF SameData

(* Nothing is written, or a write is refused.                              *)
LEMMA CountedSame ==
  ASSUME Counted, UNCHANGED <<log, count>>, refused' \/ UNCHANGED <<tracker, refused>>,
         \A m \in Names : Tampered(m) => Tampered(m)'
  PROVE  Counted'
<1>1. store' = store /\ \A m \in Names : Exists(m)' <=> Exists(m)
  BY DEF store, Latest, Exists
<1>2. IncrementsCount' /\ GoneCountsZero'
  BY <1>1 DEF Counted, IncrementsCount, GoneCountsZero
<1>3. FakeAgrees'
  BY <1>1 DEF Counted, FakeAgrees
<1> QED BY <1>2, <1>3 DEF Counted

LEMMA VerbsCount ==
  ASSUME ClientTypeOK, VersionsIdentify, HeldIsPast, Counted, Verbs, UNCHANGED mishapVars
  PROVE  Counted'
<1>0. Grows /\ TamperedStays /\ \A m \in Names : Tampered(m) => Tampered(m)'
  BY VerbsType, TamperedNames DEF TamperedStays, mishapVars
<1>1. ASSUME NEW n \in Names, Create(n) PROVE Counted'
  <2>1. Commits(n, Fresh) /\ Fresh \in Object /\ Fresh.spec = 0 /\ Fresh.status = 0
    BY <1>1, FreshType, RoomLeft DEF Create, Commits, Fresh
  <2>2. Fresh \in ObjectOrMissing /\ Fresh # Missing
    BY <2>1, ClientsetAssumption DEF ObjectOrMissing
  <2>3. store'[n] = Fresh /\ \A m \in Names : m # n => store'[m] = store[m]
    BY <2>1, <2>2, StoreAfter
  <2>4. ~refused => tracker[n] = Missing
    BY <1>1 DEF Counted, FakeAgrees, Create
  <2>5. /\ ~refused => tracker'[n] = Fresh
        /\ \A m \in Names : m # n => tracker'[m] = tracker[m]
    BY <1>1, <2>4, TrackedAt DEF Create, FakeCreate
  <2>6. SameData(Fresh, count[n])
    BY <1>1, <2>1 DEF Counted, GoneCountsZero, Create, Exists, Zero, SameData
  <2> QED BY <1>1, <2>2, <2>3, <2>5, <2>6, <1>0, CountedAt DEF Create, SameData
<1>2. ASSUME NEW n \in Names, Delete(n) PROVE Counted'
  <2>1. Commits(n, Missing) /\ Missing \in ObjectOrMissing
    BY <1>2 DEF Delete, ObjectOrMissing
  <2>2. store'[n] = Missing /\ \A m \in Names : m # n => store'[m] = store[m]
    BY <2>1, StoreAfter
  <2>3. /\ ~refused => tracker'[n] = Missing
        /\ \A m \in Names : m # n => tracker'[m] = tracker[m]
    BY <1>2, TrackedAt DEF Delete, FakeDelete
  <2>4. count'[n] = Zero /\ \A m \in Names : m # n => count'[m] = count[m]
    BY <1>2 DEF Delete, ClientTypeOK
  <2> QED BY <1>2, <2>2, <2>3, <2>4, <1>0, CountedAt DEF Delete
<1>3. ASSUME NEW n \in Names, Patch(n) PROVE Counted'
  <2> DEFINE patched == [store[n] EXCEPT !.version = Latest + 1, !.spec = 0]
  <2>1. Commits(n, patched) /\ Exists(n) /\ Latest < MaxEvents
    BY <1>3, RoomLeft DEF Patch, Commits
  <2>2. store[n] \in Object
    <3>1. store \in [Names -> ObjectOrMissing]
      BY DEF ClientTypeOK, Latest, store, Version
    <3> QED BY <2>1, <3>1 DEF Exists, ObjectOrMissing
  <2>3. patched \in Object /\ patched.spec = 0 /\ patched.status = store[n].status
    <3>1. Latest + 1 \in Version
      BY <2>1, ClientsetAssumption DEF Version, ClientTypeOK
    <3> QED BY <2>2, <3>1 DEF Object
  <2>4. patched \in ObjectOrMissing /\ patched # Missing
    BY <2>3, ClientsetAssumption DEF ObjectOrMissing
  <2>5. store'[n] = patched /\ \A m \in Names : m # n => store'[m] = store[m]
    BY <2>1, <2>4, StoreAfter
  <2>6. (~Tampered(n) => SameData(store[n], count[n])) /\ count[n] \in [spec : Nat, status : Nat]
    BY <2>1 DEF Counted, IncrementsCount, ClientTypeOK
  <2>7. count'[n] = [count[n] EXCEPT !.spec = 0] /\ \A m \in Names : m # n => count'[m] = count[m]
    BY <1>3 DEF Patch, ClientTypeOK
  <2>8. ~Tampered(n) => SameData(patched, count'[n])
    BY <2>3, <2>6, <2>7 DEF SameData
  <2>9. ~refused => /\ tracker[n] \in Object /\ tracker[n] # Missing
                    /\ ~Tampered(n) => SameData(tracker[n], store[n])
    BY <2>1 DEF Counted, FakeAgrees, ClientTypeOK, ObjectOrMissing
  <2>10. /\ ~refused => tracker'[n] = [tracker[n] EXCEPT !.spec = 0]
         /\ \A m \in Names : m # n => tracker'[m] = tracker[m]
    <3>1. Tracks(n, IF tracker[n] = Missing THEN Missing ELSE [tracker[n] EXCEPT !.spec = 0])
      BY <1>3 DEF Patch, FakePatch
    <3> QED BY <2>9, <3>1, TrackedAt
  <2>11. ~refused => /\ [tracker[n] EXCEPT !.spec = 0] \in Object
                     /\ ~Tampered(n) => SameData([tracker[n] EXCEPT !.spec = 0], patched)
    BY <2>3, <2>9 DEF SameData, Object
  <2>12. ~refused => /\ tracker'[n] # Missing
                     /\ ~Tampered(n) => SameData(tracker'[n], store'[n])
    BY <2>5, <2>10, <2>11, ClientsetAssumption
  <2>13. refused' = refused
    BY <1>3 DEF Patch
  <2> QED BY <2>4, <2>5, <2>7, <2>8, <2>10, <2>12, <2>13, <1>0, CountedAt
<1>4. ASSUME NEW u \in Callers, Update(u) \/ UpdateStatus(u) PROVE Counted'
  BY <1>0, <1>4, PutCounts
<1>5. ASSUME UNCHANGED <<log, count>>, refused' \/ UNCHANGED <<tracker, refused>>
      PROVE  Counted'
  BY <1>0, <1>5, CountedSame
<1>6. ASSUME NEW u \in Callers, Conflict(u) \/ Drops(u) PROVE Counted'
  BY <1>5, <1>6 DEF Conflict, Drops
<1>7. ASSUME NEW u \in Callers, NEW n \in Names, Get(u, n) PROVE Counted'
  BY <1>5, <1>7 DEF Get
<1> QED BY <1>1, <1>2, <1>3, <1>4, <1>6, <1>7 DEF Verbs

LEMMA CountStep == IInv /\ [Next]_vars => Counted'
<1> SUFFICES ASSUME IInv, [Next]_vars PROVE Counted'
  OBVIOUS
<1>1. ClientTypeOK /\ VersionsIdentify /\ HeldIsPast /\ Counted
  BY DEF IInv, TypeOK, Counted
<1>2. CASE CallsClientset
  BY <1>1, <1>2, VerbsCount DEF CallsClientset
<1>3. CASE UNCHANGED <<log, tracker, refused, count>> /\ TamperedStays
  BY <1>1, <1>3, TamperedNames, CountedSame DEF Grows
<1>4. ASSUME NEW u \in Callers, NEW field \in Field, EditsObject(u, field) PROVE Counted'
  BY <1>3, <1>4 DEF EditsObject, mishapVars, TamperedStays
<1> QED BY <1>2, <1>3, <1>4
    DEF Next, ListerGet, Copies, OnlyHeldChanges, InformerFor, Lists, Receives, WatchBreaks,
        Stops, Start, Close, WaitForCacheSync, WaitEndsFor, vars, clientVars, mishapVars,
        TamperedStays

-----------------------------------------------------------------------------
(* The caches.                                                             *)

(* One entry of a cache and the object it stands for.                      *)
Stands(object, past, spoilt) ==
  \/ object = past
  \/ /\ object # Missing /\ past # Missing /\ object.version = past.version
     /\ past.version \in spoilt

CacheOfTypeIsPast(t) == IF HasSynced(t) THEN Shows(t, position[t]) ELSE cache[t] = NoObjects

LEMMA ShowsStands ==
  ASSUME NEW t, NEW v
  PROVE  Shows(t, v) <=> \A n \in Names : Stands(cache[t][n], View(t, v)[n], tampered)
  BY DEF Shows, Stands

LEMMA OneCacheStays ==
  ASSUME TypeOK, CacheIsAPastState, Grows, TamperedStays, NEW t \in Types,
         position'[t] = position[t], cache'[t] = cache[t]
  PROVE  CacheOfTypeIsPast(t)'
<1>1. CASE HasSynced(t)
  <2>1. position[t] \in 1 .. Latest
    BY <1>1 DEF HasSynced, TypeOK, ClientTypeOK, Version
  <2>2. log'[position[t]] = log[position[t]]
    BY <2>1, PastStays DEF TypeOK
  <2>3. \A n \in Names : Stands(cache[t][n], View(t, position[t])[n], tampered)
    BY <1>1, ShowsStands DEF CacheIsAPastState
  <2>4. \A n \in Names : Stands(cache'[t][n], View(t, position[t])[n], tampered')
    BY <2>3 DEF Stands, TamperedStays
  <2>5. View(t, position[t])' = View(t, position[t])
    BY <2>2 DEF View
  <2>6. HasSynced(t)'
    BY <1>1 DEF HasSynced
  <2> QED BY <2>4, <2>5, <2>6 DEF CacheOfTypeIsPast, Shows, Stands
<1>2. CASE ~HasSynced(t)
  BY <1>2 DEF CacheIsAPastState, CacheOfTypeIsPast, HasSynced, NoObjects
<1> QED BY <1>1, <1>2

(* A change in place is a change of an object that is marked as spoilt.    *)
LEMMA CacheEdited ==
  ASSUME TypeOK, HeldIsPast, CacheIsAPastState, NEW u \in Callers, NEW field \in Field,
         EditsObject(u, field)
  PROVE  CacheIsAPastState'
<1> DEFINE h == held[u]
<1>1. log' = log /\ position' = position /\ Grows /\ TamperedStays
  BY DEF EditsObject, Grows, mishapVars, TamperedStays
<1>2. CASE ~InCache(h, field)
  <2>1. cache' = cache
    BY <1>2 DEF EditsObject
  <2> QED BY <1>1, <2>1, OneCacheStays DEF CacheIsAPastState, CacheOfTypeIsPast
<1>3. CASE InCache(h, field)
  <2>0. h \in Held /\ h.name \in Names /\ PastCopy(h, log, tampered)
    BY DEF EditsObject, HeldIsPast, TypeOK, ClientTypeOK, Held
  <2>1. PICK t \in Types : t = TypeOf[h.name]
    BY <2>0, FactoryAssumption
  <2> DEFINE entry == cache[t][h.name]
  <2>2. entry \in Object /\ entry # Missing /\ entry.version = h.object.version
    <3>1. entry \in ObjectOrMissing
      BY <2>0, <2>1 DEF TypeOK
    <3>2. entry # Missing /\ entry.version = h.object.version
      BY <1>3, <2>1 DEF InCache
    <3> QED BY <3>1, <3>2 DEF ObjectOrMissing
  <2>3. h.object.version \in tampered'
    BY <1>3, <2>0 DEF InCache, PastCopy, EditsObject, ReadOnly
  <2>4. cache' = [cache EXCEPT ![t][h.name] = Bump(@, field)]
    BY <1>3, <2>1 DEF EditsObject
  <2>5. /\ cache'[t][h.name] = Bump(entry, field)
        /\ \A n \in Names : n # h.name => cache'[t][n] = cache[t][n]
        /\ \A s \in Types : s # t => cache'[s] = cache[s]
    BY <2>0, <2>4 DEF TypeOK
  <2>6. Bump(entry, field) # Missing /\ Bump(entry, field).version = entry.version
    BY <2>2, BumpType, ClientsetAssumption
  <2>7. HasSynced(t) /\ Shows(t, position[t])
    BY <2>0, <2>2 DEF CacheIsAPastState, NoObjects
  <2>8. HasSynced(t)' /\ View(t, position[t])' = View(t, position[t])
    BY <1>1, <2>7 DEF HasSynced, View
  <2>9. ASSUME NEW n \in Names
        PROVE  Stands(cache'[t][n], View(t, position[t])[n], tampered')
    <3>1. Stands(cache[t][n], View(t, position[t])[n], tampered)
      BY <2>7, ShowsStands
    <3>2. CASE n = h.name
      BY <2>2, <2>3, <2>5, <2>6, <3>1, <3>2 DEF Stands
    <3>3. CASE n # h.name
      BY <1>1, <2>5, <3>1, <3>3 DEF Stands, TamperedStays
    <3> QED BY <3>2, <3>3
  <2>10. CacheOfTypeIsPast(t)'
    BY <1>1, <2>8, <2>9 DEF CacheOfTypeIsPast, Shows, Stands
  <2>11. \A s \in Types : s # t => CacheOfTypeIsPast(s)'
    BY <1>1, <2>5, OneCacheStays
  <2> QED BY <2>10, <2>11 DEF CacheIsAPastState, CacheOfTypeIsPast
<1> QED BY <1>2, <1>3

(* A list, or an event of the watch, brings the next state.                *)
LEMMA CacheMoves ==
  ASSUME TypeOK, CacheIsAPastState, NEW t \in Types, NEW v \in 1 .. Latest,
         UNCHANGED <<log, tampered>>, position' = [position EXCEPT ![t] = v],
         \A n \in Names : Stands(cache'[t][n], View(t, v)[n], tampered),
         \A s \in Types : s # t => cache'[s] = cache[s]
  PROVE  CacheIsAPastState'
<1>1. position'[t] = v /\ v > 0 /\ \A s \in Types : s # t => position'[s] = position[s]
  BY DEF TypeOK
<1>2. Grows /\ TamperedStays
  BY DEF Grows, TamperedStays
<1>3. CacheOfTypeIsPast(t)'
  <2>1. HasSynced(t)' /\ View(t, position[t])' = View(t, v)
    BY <1>1 DEF HasSynced, View
  <2> QED BY <2>1 DEF CacheOfTypeIsPast, Shows, Stands
<1>4. \A s \in Types : s # t => CacheOfTypeIsPast(s)'
  BY <1>1, <1>2, OneCacheStays
<1> QED BY <1>3, <1>4 DEF CacheIsAPastState, CacheOfTypeIsPast

LEMMA CacheStep == IInv /\ [Next]_vars => CacheIsAPastState'
<1> SUFFICES ASSUME IInv, [Next]_vars PROVE CacheIsAPastState'
  OBVIOUS
<1>1. TypeOK /\ CacheIsAPastState /\ HeldIsPast
  BY DEF IInv
<1>2. ASSUME Grows, TamperedStays, UNCHANGED <<position, cache>> PROVE CacheIsAPastState'
  BY <1>1, <1>2, OneCacheStays DEF CacheIsAPastState, CacheOfTypeIsPast
<1>3. CASE CallsClientset
  BY <1>1, <1>2, <1>3, VerbsType DEF CallsClientset, reflectorVars, mishapVars, TypeOK, TamperedStays
<1>4. ASSUME NEW u \in Callers, NEW field \in Field, EditsObject(u, field)
      PROVE  CacheIsAPastState'
  BY <1>1, <1>4, CacheEdited
<1>5. ASSUME NEW t \in Types, Lists(t) PROVE CacheIsAPastState'
  <2>1. PICK v \in 1 .. Latest :
          /\ position' = [position EXCEPT ![t] = v]
          /\ cache' = [cache EXCEPT ![t] = View(t, v)]
    BY <1>5 DEF Lists
  <2>2. UNCHANGED <<log, tampered>>
    BY <1>5 DEF Lists, clientVars, mishapVars
  <2>3. cache'[t] = View(t, v) /\ \A s \in Types : s # t => cache'[s] = cache[s]
    BY <1>1, <2>1 DEF TypeOK
  <2> QED BY <1>1, <2>1, <2>2, <2>3, CacheMoves DEF Stands
<1>6. ASSUME NEW t \in Types, Receives(t) PROVE CacheIsAPastState'
  <2> DEFINE v == position[t] + 1
             Changed(n) == TypeOf[n] = t /\ log[v][n] # log[v - 1][n]
  <2>1. position[t] \in Nat /\ HasSynced(t) /\ v - 1 = position[t] /\ v \in 1 .. Latest
    <3>1. position[t] \in Nat /\ Latest \in Nat
      BY <1>1 DEF TypeOK, ClientTypeOK, Version
    <3>2. HasSynced(t) /\ v <= Latest
      BY <1>6 DEF Receives, IInv, WatchHasListed
    <3> QED BY <3>1, <3>2
  <2>2. position' = [position EXCEPT ![t] = v] /\ UNCHANGED <<log, tampered>>
    BY <1>6 DEF Receives, clientVars, mishapVars
  <2>3. /\ \A n \in Names : cache'[t][n] = IF Changed(n) THEN log[v][n] ELSE cache[t][n]
        /\ \A s \in Types : s # t => cache'[s] = cache[s]
    <3>1. cache' = [cache EXCEPT ![t] = [n \in Names |-> IF Changed(n) THEN log[v][n] ELSE @[n]]]
      BY <1>6 DEF Receives
    <3> HIDE DEF Changed, v
    <3> QED BY <1>1, <3>1 DEF TypeOK
  <2>4. ASSUME NEW n \in Names PROVE Stands(cache'[t][n], View(t, v)[n], tampered)
    <3>1. Stands(cache[t][n], View(t, position[t])[n], tampered)
      BY <1>1, <2>1, ShowsStands DEF CacheIsAPastState
    <3>2. CASE Changed(n)
      BY <2>3, <3>2 DEF View, Stands
    <3>3. CASE ~Changed(n)
      <4>1. View(t, v)[n] = View(t, position[t])[n]
        BY <2>1, <3>3 DEF View
      <4> QED BY <2>3, <3>1, <3>3, <4>1
    <3> QED BY <3>2, <3>3
  <2> QED BY <1>1, <2>1, <2>2, <2>3, <2>4, CacheMoves
<1>7. CASE UNCHANGED <<log, position, cache>> /\ TamperedStays
  BY <1>2, <1>7 DEF Grows
<1> QED BY <1>3, <1>4, <1>5, <1>6, <1>7
    DEF Next, ListerGet, Copies, OnlyHeldChanges, InformerFor, WatchBreaks, Stops, Start, Close,
        WaitForCacheSync, WaitEndsFor, vars, clientVars, mishapVars, reflectorVars, TamperedStays

LEMMA WatchStep == IInv /\ [Next]_vars => WatchHasListed'
<1> SUFFICES ASSUME IInv, [Next]_vars, NEW t \in Types, running'[t] = "watching"
             PROVE  position'[t] > 0
  BY DEF WatchHasListed, HasSynced
<1>1. TypeOK /\ (running[t] = "watching" => position[t] > 0)
  BY DEF IInv, WatchHasListed, HasSynced
<1>2. ASSUME NEW s \in Types, Lists(s) PROVE position'[t] > 0
  BY <1>1, <1>2 DEF Lists, TypeOK
<1>3. ASSUME NEW s \in Types, Receives(s) PROVE position'[t] > 0
  BY <1>1, <1>3 DEF Receives, TypeOK, ClientTypeOK
<1>4. ASSUME NEW s \in Types, WatchBreaks(s) \/ Stops(s) PROVE position'[t] > 0
  BY <1>1, <1>4 DEF WatchBreaks, Stops, TypeOK
<1>5. ASSUME NEW c \in Channels, Start(c) PROVE position'[t] > 0
  BY <1>1, <1>5 DEF Start
<1>6. CASE UNCHANGED <<running, position>>
  BY <1>1, <1>6
<1> QED BY <1>2, <1>3, <1>4, <1>5, <1>6
    DEF Next, CallsClientset, ListerGet, Copies, OnlyHeldChanges, EditsObject, InformerFor,
        Close, WaitForCacheSync, WaitEndsFor, vars, reflectorVars

-----------------------------------------------------------------------------
LEMMA InvInit == Init => IInv
<1> SUFFICES ASSUME Init PROVE IInv
  OBVIOUS
<1>1. Latest = 1 /\ \A n \in Names : store[n] = Missing /\ log[1][n] = Missing
  BY DEF Init, ClientInit, Latest, store
<1>2. VersionsIdentify /\ HeldIsPast
  BY <1>1 DEF Init, ClientInit, VersionsIdentify, HeldIsPast
<1>3. IncrementsCount /\ FakeAgrees /\ GoneCountsZero
  BY <1>1 DEF Init, ClientInit, IncrementsCount, FakeAgrees, GoneCountsZero, Exists
<1>4. WatchHasListed /\ CacheIsAPastState
  BY DEF Init, WatchHasListed, CacheIsAPastState, HasSynced
<1> QED BY <1>2, <1>3, <1>4, TypeInit DEF IInv

LEMMA InvStep == IInv /\ [Next]_vars => IInv'
<1> SUFFICES ASSUME IInv, [Next]_vars PROVE IInv'
  OBVIOUS
<1>1. TypeOK'
  BY TypeStep DEF IInv
<1>2. VersionsIdentify'
  <2>1. CASE CallsClientset
    BY <2>1, VerbsType, VersionsStep DEF CallsClientset, IInv, TypeOK
  <2>2. CASE log' = log
    BY <2>2 DEF IInv, VersionsIdentify, Latest
  <2> QED BY <2>1, <2>2
      DEF Next, ListerGet, Copies, OnlyHeldChanges, EditsObject, InformerFor, Lists, Receives,
          WatchBreaks, Stops, Start, Close, WaitForCacheSync, WaitEndsFor, vars, clientVars
<1> QED BY <1>1, <1>2, HeldStep, CountStep, CacheStep, WatchStep DEF IInv, Counted

LEMMA Inductive == Spec => []IInv
  BY InvInit, InvStep, PTL DEF Spec

(* No change that a write has made is lost or made twice, for any number   *)
(* of callers that read from the server or from caches, change copies of   *)
(* what they read, meet conflicts, get no answer and try again: of every   *)
(* object that nobody changed in the memory of a cache.                    *)
THEOREM NoChangeIsLost == Spec => []IncrementsCount
<1>1. IInv => IncrementsCount
  BY DEF IInv
<1> QED BY <1>1, Inductive, PTL

(* Until the server refuses a write, the tracker of the fake clientset has *)
(* the objects of the server, and the specs and statuses of those that     *)
(* nobody changed in the memory of a cache, for any number of callers.     *)
THEOREM FakeIsFaithful == Spec => []FakeAgrees
<1>1. IInv => FakeAgrees
  BY DEF IInv
<1> QED BY <1>1, Inductive, PTL

(* Although listers return the indexer's own pointers: however often       *)
(* watches break, lists answer late and callers change deep copies of what *)
(* they got, a cache holds one past state of the server.  A caller who     *)
(* changes a lister's object itself spoils the contents of that version    *)
(* of that object, and nothing else in any cache.                          *)
THEOREM CachesArePast == Spec => []CacheIsAPastState
<1>1. IInv => CacheIsAPastState
  BY DEF IInv
<1> QED BY <1>1, Inductive, PTL
=============================================================================
