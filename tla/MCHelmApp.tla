------------------------------ MODULE MCHelmApp ------------------------------
(* Instances of HelmAppController for TLC.                                 *)
EXTENDS HelmAppController

CONSTANTS base, istiod, v1, v2, missing, x, y

(* The chart served for a version carries that version.                    *)
MCResolve == [v \in Versions |-> IF v = missing THEN NoChart ELSE v]

Comp(name, version, values) == [name |-> name, version |-> version, values |-> values]
Helm(components) == [set |-> TRUE, repo |-> TRUE, components |-> components]

(* Pinned versions and non-empty values: an install, an upgrade that adds  *)
(* a component, and one that drops a component and changes the values of   *)
(* the other.                                                              *)
PinnedSpecs ==
  {Helm(<<Comp(base, v1, x)>>),
   Helm(<<Comp(base, v2, x), Comp(istiod, v1, x)>>),
   Helm(<<Comp(istiod, v1, y)>>)}

(* With these the reconciliation of a component or of the whole object     *)
(* cannot succeed: no spec, no repository, no chart, no name.              *)
BrokenSpecs ==
  {NilSpec,
   [Helm(<<Comp(base, v1, x)>>) EXCEPT !.repo = FALSE],
   Helm(<<Comp(NoName, v1, x), Comp(istiod, missing, x)>>)}

(* A component without values of its own, as the operator gives one to     *)
(* istio-cni and ztunnel.                                                  *)
DefaultValueSpecs == {Helm(<<Comp(base, v1, EmptyValues)>>)}

EverySpec == PinnedSpecs \cup BrokenSpecs
=============================================================================
