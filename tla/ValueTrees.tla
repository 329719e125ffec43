------------------------------ MODULE ValueTrees ------------------------------
(***************************************************************************)
(* Nested values, as Helm, IstioOperators and profiles have them: a tree   *)
(* is a leaf with a scalar or list, or a node whose fields are a function  *)
(* from keys to trees.                                                     *)
(***************************************************************************)
EXTENDS Naturals, SequencesExt

CONSTANTS
  Empty,           \* the scalars that are Go's zero values: FALSE, "", 0, no list
  MaxDepth         \* how deep trees may be nested

ASSUME DepthAssumption == MaxDepth \in Nat /\ MaxDepth >= 2

Leaf(scalar) == [scalar |-> scalar]
Node(fields) == [fields |-> fields]

IsLeaf(tree) == DOMAIN tree = {"scalar"}
IsNode(tree) == DOMAIN tree = {"fields"}

Nothing == [absent |-> TRUE]
NoFields == [k \in {} |-> Nothing]

(* Go's maps as they are built: one key, and the entries of one map over   *)
(* those of another (:> and @@ of TLC, which TLAPS does not expand).       *)
Entry(key, tree) == [k \in {key} |-> tree]
Over(fields, others) ==
  [k \in DOMAIN fields \cup DOMAIN others |-> IF k \in DOMAIN fields THEN fields[k] ELSE others[k]]

(* Fields and At are as safe as protobuf's getters: of what is not there   *)
(* they make an empty map, or Nothing.                                     *)
Fields(tree) == IF IsNode(tree) THEN tree.fields ELSE NoFields

Child(tree, key) == IF key \in DOMAIN Fields(tree) THEN tree.fields[key] ELSE Nothing

(* What a path leads to from a tree, key by key.                           *)
Follow(tree, path) ==
  LET at[n \in 0 .. Len(path)] == IF n = 0 THEN tree ELSE Child(at[n - 1], path[n])
  IN  at[Len(path)]

At(fields, path) == Follow(Node(fields), path)

Has(fields, path) == At(fields, path) # Nothing

(* What mergo takes for set: it is there, and not one of the zero values.  *)
Given(fields, path) ==
  Has(fields, path) /\ ~(IsLeaf(At(fields, path)) /\ At(fields, path).scalar \in Empty)
(* Every path of a tree, with those that end at inner nodes, level by      *)
(* level.                                                                  *)
Paths(fields) ==
  LET level[n \in 0 .. MaxDepth] ==
        IF n = 0 THEN {<<>>}
        ELSE UNION {{Append(p, k) : k \in DOMAIN Fields(At(fields, p))} : p \in level[n - 1]}
  IN  UNION {level[n] : n \in 1 .. MaxDepth}

(* A tree has values everywhere and no nil, strings as keys, and an end.   *)
IsTree(fields) ==
  \A p \in {<<>>} \cup Paths(fields) :
    LET tree == At(fields, p) IN
    /\ IsLeaf(tree) \/ IsNode(tree)
    /\ \A k \in DOMAIN Fields(tree) : k \in STRING /\ Len(p) < MaxDepth

(* The merge of nested maps: at each place where both are nodes, the keys  *)
(* of both.  What above has under a key replaces what below has, unless it *)
(* is a leaf that gives way, or both have nodes, which are merged in turn. *)
Overlay(below, above, giveWay) ==
  LET merged[p \in Seq(STRING)] ==
        LET b == Fields(At(below, p))
            a == Fields(At(above, p))
            Below(k) == k \in DOMAIN b
                        /\ (k \in DOMAIN a => IsLeaf(a[k]) /\ a[k].scalar \in giveWay)
            Both(k) == k \in DOMAIN a \cap DOMAIN b /\ IsNode(a[k]) /\ IsNode(b[k])
        IN [k \in DOMAIN a \cup DOMAIN b |->
              IF Both(k) THEN Node(merged[Append(p, k)]) ELSE IF Below(k) THEN b[k] ELSE a[k]]
  IN  merged[<<>>]
=============================================================================
