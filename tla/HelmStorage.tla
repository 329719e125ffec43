----------------------------- MODULE HelmStorage -----------------------------
(***************************************************************************)
(* The part of Helm (v3.15.4, see go.mod) that the operator relies on: the *)
(* revisions Helm keeps of one release, one Secret per revision.  Helm is  *)
(* not part of the repository; this module says what the calls made in     *)
(* internal/controller/helmapp.go (NewHistory, NewInstall, NewUpgrade,     *)
(* NewGet, NewUninstall) find and leave behind.                            *)
(*                                                                         *)
(* A history is a sequence of revisions: h[k] is revision k, and <<>> is a *)
(* release Helm does not know (driver.ErrReleaseNotFound).                 *)
(***************************************************************************)
EXTENDS Naturals, FiniteSets, SequencesExt

CONSTANTS
  Names,        \* release names: the non-empty component names
  NoName,       \* the empty component name
  Versions,     \* what a component's version field may ask for
  NoChart,      \* "no such chart in the repository"
  Resolve,      \* Resolve[v]: version of the chart served for the request v
  Values,       \* merged chart values a component may carry
  EmptyValues,  \* the empty, non-nil Go map
  NilValues     \* the nil Go map

StoredValues == (Values \ {EmptyValues}) \cup {NilValues}

ASSUME HelmAssumption ==
  /\ NoName \notin Names
  /\ NilValues \notin Values
  /\ Resolve \in [Versions -> Versions \cup {NoChart}]

PendingStatus == {"pending-install", "pending-upgrade"}

ReleaseStatus ==
  PendingStatus \cup {"unknown", "deployed", "superseded", "failed", "uninstalling"}

Revision ==
  [version : Versions \cup {NoChart}, config : StoredValues, status : ReleaseStatus]

-----------------------------------------------------------------------------
(* What Helm stores.  A release is saved as JSON and its config carries    *)
(* "omitempty": an empty map comes back as nil.                            *)
Encode(vals) == IF vals = EmptyValues THEN NilValues ELSE vals

NewRevision(version, config, status) ==
  [version |-> version, config |-> config, status |-> status]

WithStatus(h, k, status) ==
  [j \in DOMAIN h |-> IF j = k THEN [h[j] EXCEPT !.status = status] ELSE h[j]]

-----------------------------------------------------------------------------
(* History lists the Secrets sh.helm.release.v1.<name>.v<k> in the order   *)
(* of their names, so v10 comes before v2.  ListOrder is that order on     *)
(* revision numbers of at most two digits.                                 *)
ListOrder(k) == IF k < 10 THEN 11 * k ELSE 11 * (k \div 10) + (k % 10) + 1

ListedFirst(h) ==
  CHOOSE k \in DOMAIN h : \A j \in DOMAIN h : ListOrder(k) <= ListOrder(j)

ListedLast(h) ==
  CHOOSE k \in DOMAIN h : \A j \in DOMAIN h : ListOrder(j) <= ListOrder(k)

-----------------------------------------------------------------------------
(* Upgrade works on the latest revision.  It refuses while that one is     *)
(* pending, replaces the latest deployed revision, and without one accepts *)
(* only a failed or superseded latest revision.                            *)
DeployedRevisions(h) == {k \in DOMAIN h : h[k].status = "deployed"}

Upgradable(h) ==
  /\ Last(h).status \notin PendingStatus
  /\ \/ DeployedRevisions(h) # {}
     \/ Last(h).status \in {"failed", "superseded"}

UpgradeBase(h) ==
  IF DeployedRevisions(h) = {} THEN Len(h)
  ELSE CHOOSE k \in DeployedRevisions(h) : \A j \in DeployedRevisions(h) : j <= k

(* Without values of its own an upgrade copies those of the revision it    *)
(* replaces (action.Upgrade.reuseValues).                                  *)
UpgradeConfig(h, vals) ==
  IF vals = EmptyValues THEN h[UpgradeBase(h)].config ELSE vals
=============================================================================
