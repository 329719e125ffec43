--------------------------- MODULE ComponentValues ---------------------------
(***************************************************************************)
(* The values a component is installed with: what IopConversion has put    *)
(* into the HelmApp, merged by the HelmApp controller (reconcileComponent).*)
(***************************************************************************)
EXTENDS IopConversion

-----------------------------------------------------------------------------
ShallowMerge(a, b) == [k \in DOMAIN a \cup DOMAIN b |-> IF k \in DOMAIN b THEN b[k] ELSE a[k]]  \* mistake

MergeValues(a, b) == Overlay(a, b, {})

(* reconcileComponent, for any component of the HelmApp.                   *)
Values(component) ==
  IF component.ignoreGlobalValues THEN component.values
  ELSE MergeValues(globalValues, component.values)

-----------------------------------------------------------------------------
(* Whether a tree is at this path what another one is: the same leaf, or   *)
(* an inner node as well.                                                  *)
SameHere(tree, other) == IsNode(tree) = IsNode(other) /\ (IsLeaf(tree) => tree = other)

(* What a chart should find at a path: the component's value; the global   *)
(* one where the component has none and no leaf above replaces it.         *)
Winner(globals, values, p) ==
  IF Has(values, p) THEN At(values, p)
  ELSE IF \E n \in 1 .. Len(p) - 1 : IsLeaf(At(values, SubSeq(p, 1, n))) THEN Nothing
  ELSE At(globals, p)

(* The values a component is installed with, path by path, are the ones of *)
(* the component over the global ones, at every depth, and nothing else    *)
(* (MergeValues in reconcileComponent); a component that ignores global    *)
(* values has its own only.                                                *)
ComponentValuesWin ==
  step = "converted" =>
    \A k \in DOMAIN components :
      LET component == components[k]
          effective == Values(component)
          globals == IF component.ignoreGlobalValues THEN NoFields ELSE globalValues
          Wanted(p) == Winner(globals, component.values, p)
      IN /\ Paths(effective) =
              {p \in Paths(globals) \cup Paths(component.values) : Wanted(p) # Nothing}
         /\ \A p \in Paths(effective) : SameHere(At(effective, p), Wanted(p))

(* The merged IstioOperator has, at every path, what the user wrote there, *)
(* if that is not empty, and what the profile has otherwise: the profile   *)
(* adds to the user's trees at every depth and overwrites nothing.         *)
UserWins ==
  step = "base" =>
    LET profile == Profiles[ProfileName(user)]
        Wanted(p) == IF Given(user, p) \/ ~Has(profile, p) THEN At(user, p) ELSE At(profile, p)
    IN /\ Paths(iop) = Paths(user) \cup Paths(profile)
       /\ \A p \in Paths(iop) : SameHere(At(iop, p), Wanted(p))

(* What the user wrote into the six parts of the IstioOperator that the    *)
(* conversion copies for istiod, and that is not empty, is what the chart  *)
(* is installed with, through the profile, the conversion and the global   *)
(* values: values.meshConfig, and of meshConfig the keys that              *)
(* values.meshConfig has not, values.sidecarInjectorWebhook, values.pilot, *)
(* with components.pilot's resources in place of its own, and the affinity.*)
CopiesReach(component) ==
  LET effective == Values(component)
      profile == Profiles[ProfileName(user)]
      Keys(path) == DOMAIN Fields(At(user, path)) \cup DOMAIN Fields(At(profile, path))
      Reaches(from, to, replaced) ==
        \A p \in Paths(Fields(At(user, from))) :
          LET value == At(user, from \o p) IN
          IsLeaf(value) /\ value.scalar \notin Empty /\ Head(p) \notin replaced =>
            At(effective, to \o p) = value
      k8s == <<"components", "pilot", "k8s">>
  IN /\ Reaches(<<"values", "meshConfig">>, <<"meshConfig">>, {})
     /\ Reaches(<<"meshConfig">>, <<"meshConfig">>, Keys(<<"values", "meshConfig">>))
     /\ Reaches(<<"values", "sidecarInjectorWebhook">>, <<"sidecarInjectorWebhook">>, {})
     /\ Reaches(<<"values", "pilot">>, <<"pilot">>, Keys(k8s) \cap {"resources"})
     /\ Reaches(Append(k8s, "resources"), <<"pilot", "resources">>, {})
     /\ Reaches(Append(k8s, "affinity"), <<"affinity">>, {})

(* Nothing else does: not spec.hub, not components.pilot.k8s.env and its   *)
(* replicas, no other key of values.  The keys of values.global arrive     *)
(* beside these parts, not under a key "global".                           *)
NothingElseReaches(component) ==
  LET global == <<"values", "global">>
      profile == Profiles[ProfileName(user)]
  IN DOMAIN Values(component) \subseteq
       {"meshConfig", "sidecarInjectorWebhook", "pilot", "affinity"}
         \cup DOMAIN Fields(At(user, global)) \cup DOMAIN Fields(At(profile, global))

(* istiod's chart gets the values of the user that the conversion copies,  *)
(* none of them overwritten by another of its steps, by the profile or by  *)
(* the global values, and otherwise global values only                     *)
(* (convertIopToHelmApp, reconcileComponent).                              *)
CopiedValuesReachIstiod ==
  (step = "converted" /\ user # NilSpec) =>
    \A k \in DOMAIN components : components[k].chart = "istiod" =>
      CopiesReach(components[k]) /\ NothingElseReaches(components[k])
=============================================================================
