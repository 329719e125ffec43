---------------------------- MODULE AppLifecycle ----------------------------
(***************************************************************************)
(* What the HelmApp controller promises to everybody else, without caches, *)
(* queues or a worker: the life of one HelmApp object and of the releases  *)
(* it stands for.                                                          *)
(***************************************************************************)
CONSTANT Names     \* release names

VARIABLES
  phase,           \* of the object: absent, unheld, held or terminating
  recorded,        \* names in the object's status
  installed        \* names with a release

vars == <<phase, recorded, installed>>

(* The finalizer keeps the object in the API server.                       *)
Kept == phase \in {"held", "terminating"}

Init == phase = "absent" /\ recorded = {} /\ installed = {}

Moves(from, to) == phase = from /\ phase' = to /\ UNCHANGED <<recorded, installed>>

Create == Moves("absent", "unheld")
Drop   == Moves("unheld", "absent")
Hold   == Moves("unheld", "held")
Delete == Moves("held", "terminating")

(* The finalizer is given up only when nothing is recorded any more.       *)
Release == recorded = {} /\ Moves("terminating", "absent")

(* A status never forgets an installed name, and that of a terminating     *)
(* object learns no new one.                                               *)
Report ==
  /\ Kept
  /\ recorded' \in SUBSET Names
  /\ \A n \in recorded \ recorded' : n \notin installed
  /\ phase = "terminating" => recorded' \subseteq recorded
  /\ UNCHANGED <<phase, installed>>

(* Helm works only for an object that is kept.                             *)
Install ==
  /\ Kept
  /\ \E n \in Names \ installed : installed' = installed \cup {n}
  /\ UNCHANGED <<phase, recorded>>

Uninstall ==
  /\ Kept
  /\ \E n \in installed : installed' = installed \ {n}
  /\ UNCHANGED <<phase, recorded>>

Next == Create \/ Drop \/ Hold \/ Delete \/ Release \/ Report \/ Install \/ Uninstall

Spec == Init /\ [][Next]_vars
=============================================================================
