------------------------ MODULE SharedInformerFactory ------------------------
(***************************************************************************)
(* The generated shared informer factory and lister (apis/client/informers *)
(* and listers), on top of the clientset.  Goroutines of a program ask the *)
(* factory for informers, start them, wait for them and read their caches; *)
(* the reflector of each informer lists and watches the API server.        *)
(***************************************************************************)
EXTENDS HelmAppClientset

CONSTANTS
  Types,     \* the types of objects that informers can be asked for
  TypeOf,    \* the type of each object
  Channels,  \* the stop channels of the program
  NoChannel,
  Waiters,   \* the goroutines that wait
  NoWait     \* in the place of a wait

ASSUME FactoryAssumption ==
  /\ TypeOf \in [Names -> Types]
  /\ NoChannel \notin Channels

VARIABLES
  informers,         \* the types that have an informer
  startedInformers,  \* those that were started
  channel,           \* channel[t]: what stops the informer of t
  running,           \* running[t]: "no", "listing", "watching" or "stopped"
  position,          \* position[t]: the version the cache of t is at, 0 before the first list
  cache,             \* cache[t]: the objects in the informer's indexer
  lists,             \* lists[t]: how often the reflector has listed
  closed,            \* the channels that are closed
  waits              \* waits[w]: the channel and what w still waits for

factoryVars == <<informers, startedInformers, channel>>
reflectorVars == <<running, position, cache, lists>>
vars == <<clientVars, mishapVars, factoryVars, reflectorVars, closed, waits>>

NoObjects == [n \in Names |-> Missing]

View(t, v) == [n \in Names |-> IF TypeOf[n] = t THEN log[v][n] ELSE Missing]

HasSynced(t) == position[t] > 0

Stopped(t) == channel[t] \in closed

-----------------------------------------------------------------------------
(* The factory, each operation under its lock.                             *)

(* An informer that exists is returned as it is.                           *)
InformerForAnew(t) ==   \* mistake: a new one each time
  /\ informers' = informers \cup {t}
  /\ running' = [running EXCEPT ![t] = "no"]
  /\ position' = [position EXCEPT ![t] = 0]
  /\ cache' = [cache EXCEPT ![t] = NoObjects]
  /\ UNCHANGED <<clientVars, mishapVars, startedInformers, channel, lists, closed, waits>>
InformerFor(t) ==
  /\ t \notin informers
  /\ informers' = informers \cup {t}
  /\ UNCHANGED <<clientVars, mishapVars, startedInformers, channel, reflectorVars, closed, waits>>

(* Only informers that were not started before get this channel.  That is  *)
(* for good: neither a stopped informer nor the factory starts again.      *)
Start(c) ==
  LET starting == informers \ startedInformers IN
  /\ starting # {}
  /\ startedInformers' = startedInformers \cup starting
  /\ channel' = [t \in Types |-> IF t \in starting THEN c ELSE channel[t]]
  /\ running' = [t \in Types |-> IF t \in starting THEN "listing" ELSE running[t]]
  /\ UNCHANGED <<clientVars, mishapVars, informers, position, cache, lists, closed, waits>>

(* Waits for the informers that are started now, one after the other; in   *)
(* which order makes no difference.                                        *)
WaitForAll(w, c) ==   \* mistake: for those that were never started, too
  /\ waits[w] = NoWait
  /\ informers # {}
  /\ waits' = [waits EXCEPT ![w] = [on |-> c, pending |-> informers]]
  /\ UNCHANGED <<clientVars, mishapVars, factoryVars, reflectorVars, closed>>
WaitForCacheSync(w, c) ==
  /\ waits[w] = NoWait
  /\ informers \cap startedInformers # {}
  /\ waits' = [waits EXCEPT ![w] = [on |-> c, pending |-> informers \cap startedInformers]]
  /\ UNCHANGED <<clientVars, mishapVars, factoryVars, reflectorVars, closed>>

(* One of them has synced, or the waiter's own channel is closed.          *)
WaitEndsFor(w, t) ==
  LET left == [on |-> waits[w].on, pending |-> waits[w].pending \ {t}] IN
  /\ waits[w] # NoWait /\ t \in waits[w].pending
  /\ HasSynced(t) \/ waits[w].on \in closed
  /\ waits' = [waits EXCEPT ![w] = IF left.pending = {} THEN NoWait ELSE left]
  /\ UNCHANGED <<clientVars, mishapVars, factoryVars, reflectorVars, closed>>

Close(c) ==
  /\ c \notin closed
  /\ closed' = closed \cup {c}
  /\ UNCHANGED <<clientVars, mishapVars, factoryVars, reflectorVars, waits>>

-----------------------------------------------------------------------------
(* The reflector of an informer (external), with the ListFunc and the      *)
(* WatchFunc that the factory's informers have.                            *)

(* The server may answer with an older version, but with none that is      *)
(* older than what the reflector has seen.  The indexer gets new objects.   *)
Lists(t) ==
  /\ running[t] = "listing"
  /\ \E v \in 1 .. Latest :
       /\ v >= position[t]
       /\ position' = [position EXCEPT ![t] = v]
       /\ cache' = [cache EXCEPT ![t] = View(t, v)]
  /\ lists' = [lists EXCEPT ![t] = @ + 1]
  /\ running' = [running EXCEPT ![t] = "watching"]
  /\ UNCHANGED <<clientVars, mishapVars, factoryVars, closed, waits>>

(* The watch goes on from the version of the list and skips nothing.       *)
Receives(t) ==
  LET v == position[t] + 1
      Changed(n) == TypeOf[n] = t /\ log[v][n] # log[v - 1][n]
  IN /\ running[t] = "watching"
     /\ v <= Latest
     /\ cache' = [cache EXCEPT ![t] = [n \in Names |-> IF Changed(n) THEN log[v][n] ELSE @[n]]]
     /\ position' = [position EXCEPT ![t] = v]
     /\ UNCHANGED <<clientVars, mishapVars, factoryVars, running, lists, closed, waits>>

WatchBreaks(t) ==
  /\ running[t] = "watching"
  /\ Latest + mishaps < MaxEvents
  /\ mishaps' = mishaps + 1
  /\ running' = [running EXCEPT ![t] = "listing"]
  /\ UNCHANGED <<clientVars, tampered, factoryVars, position, cache, lists, closed, waits>>

Stops(t) ==
  /\ running[t] \in {"listing", "watching"} /\ Stopped(t)
  /\ running' = [running EXCEPT ![t] = "stopped"]
  /\ UNCHANGED <<clientVars, mishapVars, factoryVars, position, cache, lists, closed, waits>>

-----------------------------------------------------------------------------
(* The lister returns the pointer that the indexer holds.  Its objects     *)
(* must be treated as read-only; a caller who wants to change one takes a  *)
(* DeepCopy first.                                                         *)

OnlyHeldChanges ==
  UNCHANGED <<log, tracker, refused, count, mishapVars, factoryVars, reflectorVars, closed, waits>>

ListerGetAnything(u, n) ==   \* mistake: whether it exists is not asked
  /\ TypeOf[n] \in informers
  /\ held[u] = NoObject
  /\ Takes(u, n, cache[TypeOf[n]][n], Field, lists[TypeOf[n]])
  /\ OnlyHeldChanges
ListerGet(u, n) ==
  /\ TypeOf[n] \in informers
  /\ held[u] = NoObject
  /\ cache[TypeOf[n]][n] # Missing
  /\ Takes(u, n, cache[TypeOf[n]][n], Field, lists[TypeOf[n]])
  /\ OnlyHeldChanges

(* The indexer's own object, which no copy is, however shallow.            *)
ReadOnly(h) == h.shares = Field

ShallowCopy(h) == [h EXCEPT !.shares = {"status"}]   \* mistake: the status is not cloned
DeepCopy(h) == [h EXCEPT !.shares = {}, !.list = 0]

Copies(u) ==
  /\ held[u] # NoObject /\ held[u].shares # {}
  /\ held' = [held EXCEPT ![u] = DeepCopy(@)]
  /\ OnlyHeldChanges

(* Do g and h point to the same message?                                   *)
SameMemory(g, h, field) ==
  /\ g # NoObject /\ field \in g.shares \cap h.shares
  /\ g.name = h.name /\ g.object.version = h.object.version /\ g.list = h.list

(* Is h's message the one that the cache has?                              *)
InCache(h, field) ==
  LET entry == cache[TypeOf[h.name]][h.name] IN
  /\ field \in h.shares /\ h.list = lists[TypeOf[h.name]]
  /\ entry # Missing /\ entry.version = h.object.version

(* A change in place shows wherever the memory is shared.                  *)
EditsObject(u, field) ==
  LET h == held[u]
      Seen(g) == IF SameMemory(g, h, field) THEN [g EXCEPT !.object = Bump(@, field)] ELSE g
  IN /\ h # NoObject /\ h.edited = "none"
     /\ held' = [x \in Callers |-> IF x = u THEN Edited(h, field) ELSE Seen(held[x])]
     /\ cache' = IF ~InCache(h, field) THEN cache
                 ELSE [cache EXCEPT ![TypeOf[h.name]][h.name] = Bump(@, field)]
     /\ IF ReadOnly(h)
          THEN /\ Latest + mishaps < MaxEvents
               /\ mishaps' = mishaps + 1
               /\ tampered' = tampered \cup {h.object.version}
          ELSE UNCHANGED mishapVars
     /\ UNCHANGED <<log, tracker, refused, count, factoryVars, running, position, lists,
                    closed, waits>>

-----------------------------------------------------------------------------
Init ==
  /\ ClientInit
  /\ informers = {} /\ startedInformers = {}
  /\ channel = [t \in Types |-> NoChannel]
  /\ running = [t \in Types |-> "no"]
  /\ position = [t \in Types |-> 0]
  /\ cache = [t \in Types |-> NoObjects]
  /\ lists = [t \in Types |-> 0]
  /\ closed = {}
  /\ waits = [w \in Waiters |-> NoWait]

CallsClientset == Verbs /\ UNCHANGED <<mishapVars, factoryVars, reflectorVars, closed, waits>>

Next ==
  \/ CallsClientset
  \/ \E u \in Callers, n \in Names : ListerGet(u, n)
  \/ \E u \in Callers : Copies(u)
  \/ \E u \in Callers, field \in Field : EditsObject(u, field)
  \/ \E t \in Types : InformerFor(t) \/ Lists(t) \/ Receives(t) \/ WatchBreaks(t) \/ Stops(t)
  \/ \E c \in Channels : Start(c) \/ Close(c)
  \/ \E w \in Waiters, c \in Channels : WaitForCacheSync(w, c)
  \/ \E w \in Waiters, t \in Types : WaitEndsFor(w, t)

Spec == Init /\ [][Next]_vars

(* Reflectors go on listing and watching until they are stopped, and the   *)
(* poll of a wait sees what it waits for.  Programs may do nothing.        *)
FairSpec ==
  /\ Spec
  /\ \A t \in Types : WF_vars(Lists(t)) /\ WF_vars(Receives(t))
  /\ \A w \in Waiters, t \in Types : WF_vars(WaitEndsFor(w, t))

-----------------------------------------------------------------------------
Wait == [on : Channels, pending : (SUBSET Types) \ {{}}]

TypeOK ==
  /\ ClientTypeOK
  /\ informers \subseteq Types
  /\ startedInformers \subseteq informers
  /\ channel \in [Types -> Channels \cup {NoChannel}]
  /\ running \in [Types -> {"no", "listing", "watching", "stopped"}]
  /\ position \in [Types -> 0 .. Latest]
  /\ cache \in [Types -> [Names -> ObjectOrMissing]]
  /\ lists \in [Types -> Nat]
  /\ closed \subseteq Channels
  /\ waits \in [Waiters -> Wait \cup {NoWait}]

(* The objects of version v, but for the contents of those that a caller   *)
(* has changed in the lister's memory.                                     *)
Shows(t, v) ==
  \A n \in Names :
    LET object == cache[t][n]
        past   == View(t, v)[n]
    IN \/ object = past
       \/ /\ object # Missing /\ past # Missing /\ object.version = past.version
          /\ past.version \in tampered

(* What a lister returns is one state that the server was in: no event is  *)
(* missed between list and watch or after a break, and callers who work on *)
(* copies never change what others read, in no field and at no time after  *)
(* the copy.  One who changes a lister's object itself, against the        *)
(* lister's comment, spoils that version of that object and no other.      *)
CacheIsAPastState ==
  \A t \in Types : IF HasSynced(t) THEN Shows(t, position[t]) ELSE cache[t] = NoObjects

(* Every informer that was started is the one that callers read, and comes *)
(* to show what the server holds, unless its channel is closed.            *)
CacheCatchesUp ==
  \A t \in Types :
    t \in startedInformers ~> (Stopped(t) \/ (HasSynced(t) /\ Shows(t, Latest)))

(* A wait ends, unless it waits for an informer that was stopped before it *)
(* had synced.                                                             *)
WaitEnds ==
  \A w \in Waiters, t \in Types :
    (waits[w] # NoWait /\ t \in waits[w].pending)
      ~> \/ waits[w] = NoWait \/ t \notin waits[w].pending
         \/ running[t] = "stopped" /\ ~HasSynced(t)
=============================================================================
