---------------------------- MODULE IopConversion ----------------------------
(***************************************************************************)
(* From an IstioOperator to its HelmApp: the profile is merged into the    *)
(* spec (mergeIOPWithProfile), and the list of components is built by      *)
(* appending, one part of the spec after the other (convertIopToHelmApp).  *)
(* A HelmApp may also be the user's own.                                   *)
(*                                                                         *)
(* The spec of an IstioOperator is a tree.  Lists of gateways are leaves   *)
(* with sequences of gateways.  All names of one HelmApp have the prefix   *)
(* iop-<name of the IstioOperator>-, which is left out.                    *)
(***************************************************************************)
EXTENDS ValueTrees

CONSTANTS
  Yes, No, Zero,    \* the booleans and the number 0
  Numbers, Strings, \* the numbers and the non-empty strings
  Profiles,         \* Profiles[p]: the spec in the file p.yaml
  DefaultVersion,   \* the version without a tag
  NoName,           \* the empty name and chart of a component
  IopSpecs,         \* the specs of IstioOperators, NilSpec among them
  NilSpec,
  UserHelmApps      \* HelmApps that users write

GatewayLists == {"ingressGateways", "egressGateways"}

SwitchPath(component) == <<"components", component, "enabled">>
ListPath(key) == <<"components", key>>

IsSequence(value) == value \in Seq(Range(value))

(* The zero values, and the charts that are named in the code.             *)
ASSUME ConversionAssumption ==
  /\ {No, Zero} \subseteq Empty /\ Yes \notin Empty
  /\ NoName \notin {"base", "istiod", "gateway"}

(* The names of fields are strings, which TLAPS knows of no literal.       *)
FieldNames ==
  {"components", "enabled", "base", "pilot", "cni", "ztunnel", "k8s", "resources", "affinity",
   "values", "global", "meshConfig", "sidecarInjectorWebhook", "gateways", "istio-ingressgateway",
   "autoscaleEnabled", "autoscaleMin", "autoscaling", "minReplicas"} \cup GatewayLists

ASSUME NamesAssumption == FieldNames \subseteq STRING

(* The types that the protobuf messages give to what the conversion        *)
(* branches on, and those of HelmApps.                                     *)
ASSUME TypeAssumption ==
  /\ \A spec \in (IopSpecs \ {NilSpec}) \cup Range(Profiles) :
       /\ IsTree(spec)
       /\ \A c \in {"base", "pilot", "cni", "ztunnel"} :
            At(spec, SwitchPath(c)) \in {Nothing, Leaf(Yes), Leaf(No)}
       /\ \A key \in GatewayLists :
            LET list == At(spec, ListPath(key)) IN
            IsLeaf(list) /\ list.scalar \notin Empty =>
              IsSequence(list.scalar) /\ \A k \in DOMAIN list.scalar : IsTree(list.scalar[k].k8s)
  /\ \A app \in UserHelmApps :
       /\ IsTree(app.globalValues)
       /\ IsSequence(app.components)
       /\ \A k \in DOMAIN app.components : IsTree(app.components[k].values)

(* A profile and an IstioOperator have a node at the same places, or mergo *)
(* fails or panics.                                                        *)
ASSUME MergoAssumption ==
  \A dst \in IopSpecs \ {NilSpec}, src \in Range(Profiles) :
    \A p \in Paths(dst) \cap Paths(src) : IsNode(At(dst, p)) = IsNode(At(src, p))

VARIABLES
  step,         \* what convertIopToHelmApp looks at next, or how it has ended
  iop,          \* the spec of the IstioOperator
  user,         \* what it was before the profile was merged into it
  version,      \* the version of all charts
  next,         \* the loop index within a list of gateways
  components,   \* the components of the HelmApp
  globalValues  \* its global values

vars == <<step, iop, user, version, next, components, globalValues>>

-----------------------------------------------------------------------------
(* mergeIOPWithProfile                                                     *)

(* mergo.Merge(dst, src) without options: src fills what is missing or     *)
(* empty in dst.  A list is one value.                                     *)
Merge(dst, src) == Overlay(src, dst, Empty)

ProfileName(spec) ==
  LET profile == At(spec, <<"profile">>) IN
  IF profile = Nothing \/ profile.scalar \in Empty THEN "default" ELSE profile.scalar

-----------------------------------------------------------------------------
(* convertIopToHelmApp.  The helpers are named for what they make.         *)

Enabled(spec, component) == At(spec, SwitchPath(component)) = Leaf(Yes)

(* Only a tag that is a string counts.                                     *)
Version(spec) ==
  LET tag == At(spec, <<"tag">>) IN
  IF IsLeaf(tag) /\ tag.scalar \in Strings THEN tag.scalar ELSE DefaultVersion

Component(name, chart, values) ==
  [name |-> name, chart |-> chart, version |-> version, values |-> values,
   ignoreGlobalValues |-> FALSE]

Blank == [name |-> NoName, chart |-> NoName, version |-> NoName, values |-> NoFields,
          ignoreGlobalValues |-> FALSE]

(* The field, if the tree is there, with what AsMap makes of it.           *)
FieldAnyway(key, tree) == Entry(key, tree)   \* mistake: whether it is there is not asked
Field(key, tree) == IF tree = Nothing THEN NoFields ELSE Entry(key, Node(Fields(tree)))

(* Both mesh configs, values.meshConfig key by key over spec.meshConfig.   *)
OwnMeshConfig(spec) ==   \* mistake: the other way round
  LET own    == At(spec, <<"meshConfig">>)
      values == At(spec, <<"values", "meshConfig">>)
  IN IF own = Nothing THEN Field("meshConfig", values)
     ELSE Entry("meshConfig", Node(Over(Fields(own), Fields(values))))
MeshConfig(spec) ==
  LET own    == At(spec, <<"meshConfig">>)
      values == At(spec, <<"values", "meshConfig">>)
  IN IF own = Nothing THEN Field("meshConfig", values)
     ELSE Entry("meshConfig", Node(Over(Fields(values), Fields(own))))

PilotResources(spec) == At(spec, <<"components", "pilot", "k8s", "resources">>)

Pilot(spec) ==
  LET values == At(spec, <<"values", "pilot">>) IN
  IF PilotResources(spec) = Nothing THEN Field("pilot", values)
  ELSE Entry("pilot", Node(Over(Entry("resources", PilotResources(spec)), Fields(values))))

(* Without values.pilot the resources stay a Go struct, which structpb     *)
(* cannot take.                                                            *)
NoStruct(spec) == Enabled(spec, "pilot") /\ PilotResources(spec) # Nothing
                  /\ ~Has(spec, <<"values", "pilot">>)

IstiodAllValues(spec) ==   \* mistake: with all other values of the user
  Over(MeshConfig(spec), Over(Pilot(spec), Fields(At(spec, <<"values">>))))
IstiodValues(spec) ==
  LET webhook  == Field("sidecarInjectorWebhook", At(spec, <<"values", "sidecarInjectorWebhook">>))
      affinity == Field("affinity", At(spec, <<"components", "pilot", "k8s", "affinity">>))
  IN Over(MeshConfig(spec), Over(webhook, Over(Pilot(spec), affinity)))

AsBool(tree)   == IF tree = Leaf(Yes) THEN tree ELSE Leaf(No)
AsNumber(tree) == IF IsLeaf(tree) /\ tree.scalar \in Numbers THEN tree ELSE Leaf(Zero)

Autoscaling(spec) ==
  LET Of(key) == At(spec, <<"values", "gateways", "istio-ingressgateway", key>>) IN
  IF Of("autoscaleEnabled") = Nothing THEN NoFields
  ELSE LET enabled == Entry("enabled", AsBool(Of("autoscaleEnabled")))
           least   == IF Of("autoscaleMin") = Nothing THEN NoFields
                      ELSE Entry("minReplicas", AsNumber(Of("autoscaleMin")))
       IN Entry("autoscaling", Node(Over(enabled, least)))

GatewayValues(gw, spec) ==
  Over(Field("affinity", At(gw.k8s, <<"affinity">>)),
       Over(Field("resources", At(gw.k8s, <<"resources">>)), Autoscaling(spec)))

Switched(gw) == gw.enabled = Leaf(Yes)   \* mistake: one without a name, too
Installable(gw) == gw.enabled = Leaf(Yes) /\ gw.name # NoName

GatewaySpecs(spec, key) ==
  LET list == At(spec, ListPath(key)) IN
  IF IsLeaf(list) /\ list.scalar \notin Empty THEN list.scalar ELSE <<>>

-----------------------------------------------------------------------------
Init ==
  /\ version = DefaultVersion /\ next = 1
  /\ \/ /\ step = "new"
        /\ iop \in IopSpecs /\ user = iop
        /\ components = <<>> /\ globalValues = NoFields
     \/ /\ step = "converted"
        /\ iop = NilSpec /\ user = NilSpec
        /\ \E app \in UserHelmApps :
             components = app.components /\ globalValues = app.globalValues

Fails == step' = "failed" /\ UNCHANGED <<iop, user, version, next, components, globalValues>>

SpecMissing == step = "new" /\ iop = NilSpec /\ Fails

ProfileMissing ==
  /\ step = "new" /\ iop # NilSpec
  /\ ProfileName(iop) \notin DOMAIN Profiles
  /\ Fails

MergesFirst ==   \* mistake: the tag is read after the merge
  /\ step = "new" /\ iop # NilSpec
  /\ ProfileName(iop) \in DOMAIN Profiles
  /\ iop' = Merge(iop, Profiles[ProfileName(iop)])
  /\ version' = Version(iop')
  /\ globalValues' = Fields(At(iop', <<"values", "global">>))
  /\ step' = "base"
  /\ UNCHANGED <<user, next, components>>
MergesIntoProfile ==   \* mistake: the profile is the destination
  /\ step = "new" /\ iop # NilSpec
  /\ ProfileName(iop) \in DOMAIN Profiles
  /\ version' = Version(iop)
  /\ iop' = Merge(Profiles[ProfileName(iop)], iop)
  /\ globalValues' = Fields(At(iop', <<"values", "global">>))
  /\ step' = "base"
  /\ UNCHANGED <<user, next, components>>
(* The tag is read before the merge, which changes the spec of the user in *)
(* place.                                                                  *)
MergesProfile ==
  /\ step = "new" /\ iop # NilSpec
  /\ ProfileName(iop) \in DOMAIN Profiles
  /\ version' = Version(iop)
  /\ iop' = Merge(iop, Profiles[ProfileName(iop)])
  /\ globalValues' = Fields(At(iop', <<"values", "global">>))
  /\ step' = "base"
  /\ UNCHANGED <<user, next, components>>

Pushes(condition, component) ==   \* mistake: at the front
  /\ components' = IF condition THEN <<component>> \o components ELSE components
  /\ UNCHANGED <<iop, user, version, globalValues>>
Adds(condition, component) ==
  /\ components' = IF condition THEN Append(components, component) ELSE components
  /\ UNCHANGED <<iop, user, version, globalValues>>

ConvertsBase ==
  /\ step = "base"
  /\ Adds(Enabled(iop, "base"), Component("base", "base", NoFields))
  /\ step' = "pilot"
  /\ UNCHANGED next

ConversionFails == step = "pilot" /\ NoStruct(iop) /\ Fails

ConvertsPilot ==
  /\ step = "pilot" /\ ~NoStruct(iop)
  /\ Adds(Enabled(iop, "pilot"), Component("istiod", "istiod", IstiodValues(iop)))
  /\ step' = "ingressGateways"
  /\ UNCHANGED next

(* buildGw, for the gateways of one list after the other.                  *)
ConvertsGateway ==
  /\ step \in GatewayLists
  /\ next \in DOMAIN GatewaySpecs(iop, step)
  /\ LET gw == GatewaySpecs(iop, step)[next] IN
     Adds(Installable(gw), Component(gw.name, "gateway", GatewayValues(gw, iop)))
  /\ next' = next + 1
  /\ UNCHANGED step

GatewaysDone ==
  /\ step \in GatewayLists
  /\ next \notin DOMAIN GatewaySpecs(iop, step)
  /\ step' = IF step = "ingressGateways" THEN "egressGateways" ELSE "cni"
  /\ next' = 1
  /\ UNCHANGED <<iop, user, version, components, globalValues>>

ConvertsAmbient ==
  /\ step \in {"cni", "ztunnel"}
  /\ Adds(Enabled(iop, step), Blank)
  /\ step' = IF step = "cni" THEN "ztunnel" ELSE "converted"
  /\ UNCHANGED next

Next ==
  \/ SpecMissing \/ ProfileMissing \/ MergesProfile
  \/ ConvertsBase \/ ConvertsPilot \/ ConversionFails
  \/ ConvertsGateway \/ GatewaysDone
  \/ ConvertsAmbient

Spec == Init /\ [][Next]_vars

-----------------------------------------------------------------------------
(* The steps, the index of the loop over a list, and that all values are   *)
(* trees without a nil, as structpb demands.                               *)
TypeOK ==
  /\ step \in GatewayLists \cup {"new", "base", "pilot", "cni", "ztunnel", "converted", "failed"}
  /\ IF step \in GatewayLists THEN next \in 1 .. Len(GatewaySpecs(iop, step)) + 1 ELSE next = 1
  /\ IsSequence(components)
  /\ \A k \in DOMAIN components : IsTree(components[k].values)
  /\ IsTree(globalValues)

Rank(component) ==
  CASE component.chart = "base"    -> 1
    [] component.chart = "istiod"  -> 2
    [] component.chart = "gateway" -> 3
    [] OTHER                       -> 4

(* Charts are listed in the order in which each finds what it needs: the   *)
(* CRDs of base, then istiod, then gateways, the first two once at most.   *)
(* All have the version the user's tag asks for, whatever tag the profile  *)
(* has.  This holds while the list grows, too (the appends of              *)
(* convertIopToHelmApp).                                                   *)
ChartsInOrder ==
  user # NilSpec =>
    /\ \A i, j \in DOMAIN components : i < j =>
         \/ Rank(components[i]) < Rank(components[j])
         \/ Rank(components[i]) = Rank(components[j]) /\ Rank(components[i]) \in 3 .. 4
    /\ \A i \in DOMAIN components :
         components[i].chart # NoName => components[i].version = Version(user)

Names(chart) ==
  {components[k].name : k \in {i \in DOMAIN components : components[i].chart = chart}}

(* What is installed is what the user's IstioOperator or the profile has   *)
(* switched on; of gateways, the user's list if it has any, without what   *)
(* the profile lists; in no case a gateway without a name, for its release *)
(* would have none (buildGw).                                              *)
InstalledAsAsked ==
  step = "converted" /\ user # NilSpec =>
    LET profile == Profiles[ProfileName(user)]
        Asked(component) == Enabled(user, component) \/ Enabled(profile, component)
        Listed(key) == GatewaySpecs(IF Given(user, ListPath(key)) THEN user ELSE profile, key)
        Wanted(list) ==
          {list[k].name : k \in {j \in DOMAIN list : list[j].enabled = Leaf(Yes) /\ list[j].name # NoName}}
    IN /\ Asked("base") <=> Names("base") # {}
       /\ Asked("pilot") <=> Names("istiod") # {}
       /\ Names("gateway") = UNION {Wanted(Listed(key)) : key \in GatewayLists}
       /\ (Asked("cni") \/ Asked("ztunnel")) <=> Names(NoName) # {}

(* An IstioOperator that has a spec and names a profile that exists is     *)
(* converted: the test of the controller creates one with resources for    *)
(* the pilot and without values.pilot.                                     *)
ResourcesAreConverted ==
  step = "failed" => user = NilSpec \/ ProfileName(user) \notin DOMAIN Profiles
=============================================================================
