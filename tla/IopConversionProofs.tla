------------------------- MODULE IopConversionProofs -------------------------
(***************************************************************************)
(* Proofs about IopConversion and ComponentValues: type correctness, the   *)
(* order and version of the charts, that what is installed is what was     *)
(* asked for, and that it is installed with the values that were given.    *)
(***************************************************************************)
EXTENDS ComponentValues, ValueTreesProofs

-----------------------------------------------------------------------------
(* Sequences of any elements.                                              *)

LEMMA SequenceShape ==
  ASSUME NEW s, IsSequence(s)
  PROVE  Len(s) \in Nat /\ DOMAIN s = 1 .. Len(s)
BY LenProperties DEF IsSequence

LEMMA SequenceOver ==
  ASSUME NEW S, NEW s \in Seq(S)
  PROVE  IsSequence(s)
<1>1. Len(s) \in Nat /\ s \in [1 .. Len(s) -> S]
  BY LenProperties
<1>2. s \in [1 .. Len(s) -> Range(s)]
  BY <1>1 DEF Range
<1> QED BY <1>1, <1>2, SeqDef DEF IsSequence

LEMMA Appended ==
  ASSUME NEW s, IsSequence(s), NEW e
  PROVE  LET t == Append(s, e) IN
         /\ IsSequence(t)
         /\ DOMAIN t = DOMAIN s \cup {Len(s) + 1}
         /\ \A k \in DOMAIN s : t[k] = s[k] /\ k < Len(s) + 1
         /\ t[Len(s) + 1] = e
<1>1. s \in Seq(Range(s) \cup {e})
  BY SequenceShape, SeqDef DEF IsSequence, Range
<1>2. Len(s) \in Nat /\ DOMAIN s = 1 .. Len(s)
  BY SequenceShape
<1> DEFINE t == Append(s, e)
<1>3. /\ t \in Seq(Range(s) \cup {e})
      /\ Len(t) = Len(s) + 1
      /\ \A k \in 1 .. Len(s) : t[k] = s[k]
      /\ t[Len(s) + 1] = e
  BY <1>1, AppendProperties
<1>4. DOMAIN t = 1 .. Len(s) + 1
  BY <1>3, LenProperties
<1>5. IsSequence(t)
  BY <1>3, SequenceOver
<1> QED BY <1>2, <1>3, <1>4, <1>5

(* The list after a component that may be added: the old one, and the      *)
(* component at its end if there is more.                                  *)
LEMMA AddsAtEnd ==
  ASSUME IsSequence(components), NEW condition, NEW component, Adds(condition, component)
  PROVE  /\ IsSequence(components')
         /\ DOMAIN components \subseteq DOMAIN components'
         /\ \A k \in DOMAIN components : components'[k] = components[k]
         /\ \A k \in DOMAIN components' \ DOMAIN components :
              condition /\ components'[k] = component /\ \A i \in DOMAIN components' : i <= k
         /\ condition => \E k \in DOMAIN components' \ DOMAIN components : TRUE
         /\ UNCHANGED <<iop, user, version, globalValues>>
<1>1. CASE condition
  <2>1. components' = Append(components, component)
    BY <1>1 DEF Adds
  <2>2. Len(components) \in Nat /\ DOMAIN components = 1 .. Len(components)
    BY SequenceShape
  <2> QED BY <1>1, <2>1, <2>2, Appended DEF Adds
<1>2. CASE ~condition
  BY <1>2 DEF Adds
<1> QED BY <1>1, <1>2

LEMMA AddsName ==
  ASSUME IsSequence(components), NEW condition, NEW component, Adds(condition, component),
         NEW chart
  PROVE  Names(chart)' =
           Names(chart) \cup (IF condition /\ component.chart = chart THEN {component.name} ELSE {})
<1> DEFINE now == Names(chart)'
           new == IF condition /\ component.chart = chart THEN {component.name} ELSE {}
<1>1. ASSUME NEW n \in now PROVE n \in Names(chart) \cup new
  <2>1. PICK k \in DOMAIN components' : components'[k].chart = chart /\ n = components'[k].name
    BY <1>1 DEF Names
  <2> QED BY <2>1, AddsAtEnd DEF Names
<1>2. ASSUME NEW n \in Names(chart) PROVE n \in now
  <2>1. PICK k \in DOMAIN components : components[k].chart = chart /\ n = components[k].name
    BY <1>2 DEF Names
  <2>2. k \in DOMAIN components' /\ components'[k].chart = chart /\ n = components'[k].name
    BY <2>1, AddsAtEnd
  <2> QED BY <2>2 DEF Names
<1>3. ASSUME NEW n \in new PROVE n \in now
  <2>1. condition /\ component.chart = chart /\ n = component.name
    BY <1>3
  <2>2. PICK k \in DOMAIN components' : components'[k] = component
    BY <2>1, AddsAtEnd
  <2> QED BY <2>1, <2>2 DEF Names
<1> QED BY <1>1, <1>2, <1>3

LEMMA AddsNoOther ==
  ASSUME IsSequence(components), NEW condition, NEW component, Adds(condition, component),
         NEW chart, chart # component.chart
  PROVE  Names(chart)' = Names(chart)
<1>1. Names(chart)' =
        Names(chart) \cup (IF condition /\ component.chart = chart THEN {component.name} ELSE {})
  BY AddsName
<1> QED BY <1>1

-----------------------------------------------------------------------------
(* What the conversion reads of the merged spec, from MergoAssumption.     *)

Switchable == {"base", "pilot", "cni", "ztunnel"}

LEMMA NamesAreKeys == FieldNames \subseteq Key
BY NamesAssumption DEF Key

LEMMA KeysArePaths ==
  /\ \A k \in Key : <<k>> \in Path /\ <<k>> # <<>>
  /\ \A k, l \in Key : <<k, l>> \in Path /\ <<k, l>> # <<>>
  /\ \A k, l, m \in Key : <<k, l, m>> \in Path /\ <<k, l, m>> # <<>>
  /\ \A k, l, m, n \in Key : <<k, l, m, n>> \in Path /\ <<k, l, m, n>> # <<>>
BY DEF Path

LEMMA FourthKey ==
  ASSUME NEW k \in Key, NEW l \in Key, NEW m \in Key, NEW n \in Key
  PROVE  Append(<<k, l, m>>, n) = <<k, l, m, n>>
<1> DEFINE short == <<k, l, m>>
           long  == <<k, l, m, n>>
           all   == Append(short, n)
<1>1. /\ short \in Path /\ Len(short) = 3 /\ short[1] = k /\ short[2] = l /\ short[3] = m
      /\ long \in Path /\ Len(long) = 4
      /\ long[1] = k /\ long[2] = l /\ long[3] = m /\ long[4] = n
  BY KeysArePaths
<1> HIDE DEF short, long
<1>2. /\ all \in Path /\ Len(all) = 4 /\ all[4] = n
      /\ \A i \in 1 .. 3 : all[i] = short[i]
  <2>1. /\ all \in Path /\ Len(all) = Len(short) + 1 /\ all[Len(short) + 1] = n
        /\ \A i \in 1 .. Len(short) : all[i] = short[i]
    BY <1>1, Extended
  <2> HIDE DEF all
  <2>2. Len(short) = 3 /\ Len(short) + 1 = 4
    BY <1>1
  <2> QED BY <2>1, <2>2
<1> HIDE DEF all
<1>3. \A i \in 1 .. Len(all) : all[i] = long[i]
  <2>1. \A i \in 1 .. 4 : i \in 1 .. 3 \/ i = 4
    OBVIOUS
  <2>2. \A i \in 1 .. 3 : i = 1 \/ i = 2 \/ i = 3
    OBVIOUS
  <2> QED BY <1>1, <1>2, <2>1, <2>2
<1>4. all = long
  BY <1>1, <1>2, <1>3, SeqEqual DEF Path
<1> QED BY <1>4 DEF all, short, long

LEMMA SecondKey ==
  ASSUME NEW k \in Key, NEW l \in Key
  PROVE  <<k>> \o <<l>> = <<k, l>>
<1> DEFINE one  == <<k>>
           two  == <<l>>
           both == <<k, l>>
           all  == one \o two
<1>1. /\ one \in Path /\ Len(one) = 1 /\ one[1] = k
      /\ two \in Path /\ Len(two) = 1 /\ two[1] = l
      /\ both \in Path /\ Len(both) = 2 /\ both[1] = k /\ both[2] = l
  BY KeysArePaths
<1> HIDE DEF one, two, both
<1>2. /\ all \in Path /\ Len(all) = 2
      /\ \A i \in 1 .. 2 : all[i] = IF i <= 1 THEN one[i] ELSE two[i - 1]
  BY <1>1, ConcatProperties DEF Path
<1> HIDE DEF all
<1>3. all[1] = k /\ all[2] = l
  BY <1>1, <1>2
<1>4. \A i \in 1 .. Len(all) : all[i] = both[i]
  <2>1. \A i \in 1 .. 2 : i = 1 \/ i = 2
    OBVIOUS
  <2> QED BY <1>1, <1>2, <1>3, <2>1
<1>5. all = both
  BY <1>1, <1>2, <1>4, SeqEqual DEF Path
<1> QED BY <1>5 DEF all, one, two, both

LEMMA ReadPathsArePaths ==
  /\ \A c \in Switchable : SwitchPath(c) \in Path
  /\ \A key \in GatewayLists : ListPath(key) \in Path
<1>1. \A c \in Switchable : c \in Key
  BY NamesAreKeys DEF Switchable, FieldNames
<1>2. \A key \in GatewayLists : key \in Key
  BY NamesAreKeys DEF GatewayLists, FieldNames
<1>3. "components" \in Key /\ "enabled" \in Key
  BY NamesAreKeys DEF FieldNames
<1> QED BY <1>1, <1>2, <1>3, KeysArePaths DEF SwitchPath, ListPath

LEMMA SpecsHaveOneShape ==
  ASSUME NEW spec \in IopSpecs \ {NilSpec}, NEW profile \in Range(Profiles)
  PROVE  IsTree(spec) /\ IsTree(profile) /\ SameShape(profile, spec)
<1>1. IsTree(spec) /\ IsTree(profile)
  BY TypeAssumption
<1>2. ASSUME NEW p \in Path, Has(spec, p), Has(profile, p)
      PROVE  IsNode(At(spec, p)) = IsNode(At(profile, p))
  <2>1. CASE p = <<>>
    <3>1. \A fields : IsNode(At(fields, p)) = TRUE
      BY <2>1, FollowEmpty, NodeIsNode DEF At, IsNode
    <3> QED BY <3>1
  <2>2. CASE p # <<>>
    <3>1. p \in Paths(spec) \cap Paths(profile)
      BY <1>1, <1>2, <2>2, PathsOfTree
    <3> QED BY <3>1, MergoAssumption
  <2> QED BY <2>1, <2>2
<1> QED BY <1>1, <1>2 DEF SameShape

(* What a merged spec has at a path: the user's, unless that is empty and  *)
(* the profile has something.                                              *)
LEMMA MergedSpec ==
  ASSUME NEW spec \in IopSpecs \ {NilSpec}, NEW profile \in Range(Profiles), NEW p \in Path
  PROVE  LET m == At(Merge(spec, profile), p)
             wanted == IF Given(spec, p) \/ ~Has(profile, p) THEN At(spec, p) ELSE At(profile, p)
         IN /\ m = wanted \/ (IsNode(m) /\ IsNode(wanted))
            /\ m = Nothing <=> At(spec, p) = Nothing /\ At(profile, p) = Nothing
BY SpecsHaveOneShape, BelowFills DEF Merge

LEMMA MergedIsTree ==
  ASSUME NEW spec \in IopSpecs \ {NilSpec}, NEW profile \in Range(Profiles)
  PROVE  IsTree(Merge(spec, profile))
BY SpecsHaveOneShape, OverlayIsTree DEF Merge

(* A component is switched on by the user or by the profile: an explicit   *)
(* false of the user does not count.                                       *)
LEMMA MergedSwitch ==
  ASSUME NEW spec \in IopSpecs \ {NilSpec}, NEW p \in DOMAIN Profiles, NEW c \in Switchable
  PROVE  Enabled(Merge(spec, Profiles[p]), c) <=> Enabled(spec, c) \/ Enabled(Profiles[p], c)
<1> DEFINE path == SwitchPath(c)
           mine == At(spec, path)
           theirs == At(Profiles[p], path)
<1>1. path \in Path
  BY ReadPathsArePaths
<1>2. Profiles[p] \in Range(Profiles)
  BY DEF Range
<1>3. mine \in {Nothing, Leaf(Yes), Leaf(No)} /\ theirs \in {Nothing, Leaf(Yes), Leaf(No)}
  BY <1>2, TypeAssumption DEF Switchable
<1>4. /\ Leaf(Yes).scalar = Yes /\ Leaf(No).scalar = No
      /\ IsLeaf(Leaf(Yes)) /\ IsLeaf(Leaf(No))
      /\ Nothing # Leaf(Yes) /\ Nothing # Leaf(No) /\ Yes # No
  BY ConversionAssumption DEF Leaf, IsLeaf, Nothing
<1>5. Given(spec, path) <=> mine = Leaf(Yes)
  BY <1>3, <1>4, ConversionAssumption DEF Given, Has
<1>6. Has(Profiles[p], path) <=> theirs # Nothing
  BY DEF Has
<1>7. At(Merge(spec, Profiles[p]), path) =
        IF mine = Leaf(Yes) \/ theirs = Nothing THEN mine ELSE theirs
  <2>1. ~IsNode(mine) /\ ~IsNode(theirs)
    BY <1>3, NothingThere DEF Leaf, IsNode
  <2> QED BY <1>1, <1>2, <1>5, <1>6, <2>1, MergedSpec
<1>8. Leaf(Yes) # Leaf(No)
  BY <1>4
<1> QED BY <1>3, <1>4, <1>7, <1>8 DEF Enabled

LEMMA ListsAreSequences ==
  ASSUME NEW spec \in (IopSpecs \ {NilSpec}) \cup Range(Profiles), NEW key \in GatewayLists
  PROVE  LET list == GatewaySpecs(spec, key) IN
         IsSequence(list) /\ \A k \in DOMAIN list : IsTree(list[k].k8s)
<1> DEFINE none == <<>>
<1>1. IsSequence(none) /\ DOMAIN none = {}
  <2>1. IsSequence(none) /\ Len(none) = 0
    BY SequenceOver, EmptySeq
  <2> HIDE DEF none
  <2>2. DOMAIN none = 1 .. 0
    BY <2>1, SequenceShape
  <2> QED BY <2>1, <2>2
<1> HIDE DEF none
<1>2. GatewaySpecs(spec, key) = IF IsLeaf(At(spec, ListPath(key))) /\ At(spec, ListPath(key)).scalar \notin Empty
                                THEN At(spec, ListPath(key)).scalar ELSE none
  BY DEF GatewaySpecs, none
<1> QED BY <1>1, <1>2, TypeAssumption

(* The list of gateways is the user's if there is any gateway in it, and   *)
(* the profile's otherwise.                                                *)
LEMMA MergedList ==
  ASSUME NEW spec \in IopSpecs \ {NilSpec}, NEW p \in DOMAIN Profiles, NEW key \in GatewayLists
  PROVE  GatewaySpecs(Merge(spec, Profiles[p]), key) =
           GatewaySpecs(IF Given(spec, ListPath(key)) THEN spec ELSE Profiles[p], key)
<1> DEFINE path == ListPath(key)
           mine == At(spec, path)
           theirs == At(Profiles[p], path)
           merged == At(Merge(spec, Profiles[p]), path)
           List(tree) == IF IsLeaf(tree) /\ tree.scalar \notin Empty THEN tree.scalar ELSE <<>>
<1>1. path \in Path /\ Profiles[p] \in Range(Profiles)
  BY ReadPathsArePaths DEF Range
<1>2. List(merged) = List(IF Given(spec, path) \/ ~Has(Profiles[p], path) THEN mine ELSE theirs)
  <2> DEFINE wanted == IF Given(spec, path) \/ ~Has(Profiles[p], path) THEN mine ELSE theirs
  <2>1. merged = wanted \/ (IsNode(merged) /\ IsNode(wanted))
    BY <1>1, MergedSpec
  <2>2. \A tree : IsNode(tree) => ~IsLeaf(tree)
    BY DEF IsNode, IsLeaf
  <2> HIDE DEF merged, wanted
  <2> QED BY <2>1, <2>2 DEF wanted
<1>3. ~Given(spec, path) => List(mine) = <<>>
  BY NothingThere DEF Given, Has
<1>4. ~Has(Profiles[p], path) => List(theirs) = <<>>
  BY NothingThere DEF Has
<1>5. List(merged) = List(IF Given(spec, path) THEN mine ELSE theirs)
  BY <1>2, <1>3, <1>4
<1> QED BY <1>5 DEF GatewaySpecs

-----------------------------------------------------------------------------
(* The values that are put together for a component are a tree.            *)

LEMMA PartIsSound ==
  ASSUME NEW fields, IsTree(fields), NEW path \in Path, path # <<>>
  PROVE  Sound(At(fields, path), MaxDepth - 1) /\ MaxDepth - 1 \in Nat /\ 0 < MaxDepth
BY TreeIsSound, SubtreeIsSound, DepthAssumption DEF At

LEMMA NoFieldsIsTree == IsTree(NoFields)
BY NoFieldsAreSound, TreeIsSound, DepthAssumption

LEMMA OverIsTree ==
  ASSUME NEW fields, IsTree(fields), NEW others, IsTree(others)
  PROVE  IsTree(Over(fields, others))
BY OverIsSound, TreeIsSound, DepthAssumption

LEMMA EntryIsTree ==
  ASSUME NEW key \in Key, NEW tree, tree # Nothing, Sound(tree, MaxDepth - 1)
  PROVE  IsTree(Entry(key, tree))
BY EntryIsSound, TreeIsSound, DepthAssumption

LEMMA FieldIsTree ==
  ASSUME NEW key \in Key, NEW tree, Sound(tree, MaxDepth - 1)
  PROVE  IsTree(Field(key, tree))
<1>1. MaxDepth - 1 \in Nat
  BY DepthAssumption
<1>2. Sound(Node(Fields(tree)), MaxDepth - 1)
  BY <1>1, FieldsAreSound
<1>3. IsTree(Entry(key, Node(Fields(tree))))
  BY <1>2, EntryIsTree, NodeIsNode
<1> QED BY <1>3, NoFieldsIsTree DEF Field

LEMMA PartIsTree ==
  ASSUME NEW fields, IsTree(fields), NEW path \in Path, path # <<>>
  PROVE  IsTree(Fields(At(fields, path)))
<1>1. Sound(At(fields, path), MaxDepth - 1) /\ MaxDepth - 1 \in Nat
  BY PartIsSound
<1>2. Sound(Node(Fields(At(fields, path))), MaxDepth - 1)
  BY <1>1, FieldsAreSound
<1>3. Sound(Node(Fields(At(fields, path))), MaxDepth)
  BY <1>2, DeeperIsSound, DepthAssumption
<1> QED BY <1>3, TreeIsSound

(* The entry of two maps, one over the other.                              *)
LEMMA EntryOfBoth ==
  ASSUME NEW key \in Key, NEW fields, NEW others,
         Sound(Node(fields), MaxDepth - 1), Sound(Node(others), MaxDepth - 1)
  PROVE  IsTree(Entry(key, Node(Over(fields, others))))
<1>1. Sound(Node(Over(fields, others)), MaxDepth - 1)
  BY OverIsSound, DepthAssumption
<1> QED BY <1>1, EntryIsTree, NodeIsNode

LEMMA IstiodIsTree ==
  ASSUME NEW spec, IsTree(spec)
  PROVE  IsTree(IstiodValues(spec))
<1> DEFINE Part(path) == Sound(At(spec, path), MaxDepth - 1)
<1>1. /\ Part(<<"meshConfig">>) /\ Part(<<"values", "meshConfig">>)
      /\ Part(<<"values", "sidecarInjectorWebhook">>) /\ Part(<<"values", "pilot">>)
      /\ Part(<<"components", "pilot", "k8s", "resources">>)
      /\ Part(<<"components", "pilot", "k8s", "affinity">>)
  BY NamesAreKeys, KeysArePaths, PartIsSound DEF FieldNames
<1>2. /\ "meshConfig" \in Key /\ "sidecarInjectorWebhook" \in Key /\ "pilot" \in Key
      /\ "resources" \in Key /\ "affinity" \in Key
  BY NamesAreKeys DEF FieldNames
<1>3. \A tree : Sound(tree, MaxDepth - 1) => Sound(Node(Fields(tree)), MaxDepth - 1)
  BY FieldsAreSound, DepthAssumption
<1>4. IsTree(MeshConfig(spec))
  BY <1>1, <1>2, <1>3, FieldIsTree, EntryOfBoth DEF MeshConfig
<1>5. IsTree(Pilot(spec))
  <2>1. Sound(PilotResources(spec), (MaxDepth - 1) - 1)
    <3> DEFINE path == <<"components", "pilot", "k8s", "resources">>
    <3>1. path \in Path /\ path # <<>> /\ Len(path) = 4
      BY NamesAreKeys, KeysArePaths DEF FieldNames
    <3>2. MaxDepth - 4 <= (MaxDepth - 1) - 1 /\ MaxDepth - 4 \in Int /\ (MaxDepth - 1) - 1 \in Int
      BY DepthAssumption
    <3> HIDE DEF path
    <3>3. Sound(At(spec, path), MaxDepth - 4)
      BY <3>1, TreeIsSound, SubtreeIsSound, DepthAssumption DEF At
    <3>4. Sound(At(spec, path), (MaxDepth - 1) - 1)
      BY <3>2, <3>3, DeeperIsSound
    <3> QED BY <3>4 DEF PilotResources, path
  <2>2. PilotResources(spec) # Nothing =>
          Sound(Node(Entry("resources", PilotResources(spec))), MaxDepth - 1)
    BY <1>2, <2>1, EntryIsSound, DepthAssumption
  <2> QED BY <1>1, <1>2, <1>3, <2>2, FieldIsTree, EntryOfBoth DEF Pilot
<1> QED BY <1>1, <1>2, <1>4, <1>5, FieldIsTree, OverIsTree DEF IstiodValues

LEMMA AutoscalingIsTree ==
  ASSUME NEW spec
  PROVE  IsTree(Autoscaling(spec))
<1> DEFINE one == MaxDepth - 1
<1>1. one \in Nat /\ 0 < one /\ one - 1 \in Nat
  BY DepthAssumption
<1>2. /\ "autoscaling" \in Key /\ "enabled" \in Key /\ "minReplicas" \in Key
  BY NamesAreKeys DEF FieldNames
<1> HIDE DEF one
<1>3. ASSUME NEW key \in Key, NEW tree, IsLeaf(tree) PROVE Sound(Node(Entry(key, tree)), one)
  BY <1>1, <1>3, LeafIsSound, EntryIsSound, NothingThere
<1>4. \A tree : IsLeaf(AsBool(tree)) /\ IsLeaf(AsNumber(tree))
  BY DEF AsBool, AsNumber, Leaf, IsLeaf
<1>5. Sound(Node(NoFields), one)
  BY <1>1, NoFieldsAreSound
<1> QED BY <1>2, <1>3, <1>4, <1>5, NoFieldsIsTree, EntryOfBoth DEF Autoscaling, one

LEMMA GatewayIsTree ==
  ASSUME NEW gw, IsTree(gw.k8s), NEW spec
  PROVE  IsTree(GatewayValues(gw, spec))
<1>1. "affinity" \in Key /\ "resources" \in Key
  BY NamesAreKeys DEF FieldNames
<1>2. \A k \in Key : Sound(At(gw.k8s, <<k>>), MaxDepth - 1)
  BY KeysArePaths, PartIsSound
<1>3. IsTree(Field("affinity", At(gw.k8s, <<"affinity">>)))
      /\ IsTree(Field("resources", At(gw.k8s, <<"resources">>)))
  BY <1>1, <1>2, FieldIsTree
<1> QED BY <1>3, AutoscalingIsTree, OverIsTree DEF GatewayValues

-----------------------------------------------------------------------------
(* Types.  Beyond the types: once the profile is merged, the spec is the   *)
(* user's filled by it, and the version the one the user's tag asks for.   *)
MergedInv ==
  \/ step = "new" /\ iop \in IopSpecs /\ user = iop /\ components = <<>>
  \/ step = "failed"
  \/ step = "converted" /\ user = NilSpec
  \/ /\ step \notin {"new", "failed"}
     /\ user \in IopSpecs \ {NilSpec} /\ ProfileName(user) \in DOMAIN Profiles
     /\ iop = Merge(user, Profiles[ProfileName(user)])
     /\ version = Version(user)

TypeInv == TypeOK /\ MergedInv

LEMMA ListsAreTyped ==
  ASSUME MergedInv, step \notin {"new", "failed", "converted"}, NEW key \in GatewayLists
  PROVE  /\ IsSequence(GatewaySpecs(iop, key))
         /\ \A k \in DOMAIN GatewaySpecs(iop, key) : IsTree(GatewaySpecs(iop, key)[k].k8s)
         /\ IsTree(iop)
<1>1. /\ user \in IopSpecs \ {NilSpec} /\ ProfileName(user) \in DOMAIN Profiles
      /\ iop = Merge(user, Profiles[ProfileName(user)])
  BY DEF MergedInv
<1>2. Profiles[ProfileName(user)] \in Range(Profiles)
  BY <1>1 DEF Range
<1> QED BY <1>1, <1>2, MergedList, ListsAreSequences, MergedIsTree

LEMMA TypeInvInit == Init => TypeInv
<1> SUFFICES ASSUME Init PROVE TypeInv
  OBVIOUS
<1>1. CASE step = "new"
  <2>1. IsSequence(<<>>)
    BY SequenceOver, EmptySeq
  <2> QED BY <1>1, <2>1, NoFieldsIsTree DEF Init, TypeInv, TypeOK, MergedInv, GatewayLists
<1>2. CASE step = "converted"
  <2>1. PICK app \in UserHelmApps : components = app.components /\ globalValues = app.globalValues
    BY <1>2 DEF Init
  <2> QED BY <1>2, <2>1, TypeAssumption DEF Init, TypeInv, TypeOK, MergedInv, GatewayLists
<1> QED BY <1>1, <1>2 DEF Init

(* A component with such values keeps the type of the list.                *)
LEMMA AddsKeepsType ==
  ASSUME TypeOK, NEW condition, NEW component, Adds(condition, component),
         IsTree(component.values)
  PROVE  /\ IsSequence(components')
         /\ \A k \in DOMAIN components' : IsTree(components'[k].values)
<1>1. \A k \in DOMAIN components : IsTree(components[k].values)
  BY DEF TypeOK
<1> QED BY <1>1, AddsAtEnd DEF TypeOK

LEMMA TypeInvStep == TypeInv /\ [Next]_vars => TypeInv'
<1> SUFFICES ASSUME TypeInv, [Next]_vars PROVE TypeInv'
  OBVIOUS
<1>0. TypeOK /\ MergedInv
  BY DEF TypeInv
<1>1. CASE step \in {"new", "pilot"} /\ Fails
  BY <1>0, <1>1 DEF Fails, TypeInv, TypeOK, MergedInv, GatewayLists
<1>2. CASE MergesProfile
  <2>1. /\ iop' = Merge(iop, Profiles[ProfileName(iop)]) /\ iop \in IopSpecs \ {NilSpec}
        /\ ProfileName(iop) \in DOMAIN Profiles /\ Profiles[ProfileName(iop)] \in Range(Profiles)
        /\ globalValues' = Fields(At(iop', <<"values", "global">>))
    BY <1>0, <1>2 DEF MergesProfile, MergedInv, Range
  <2>2. IsTree(globalValues')
    <3>1. <<"values", "global">> \in Path /\ <<"values", "global">> # <<>>
      BY NamesAreKeys, KeysArePaths DEF FieldNames
    <3>2. IsTree(iop')
      BY <2>1, MergedIsTree
    <3> QED BY <2>1, <3>1, <3>2, PartIsTree
  <2> QED BY <1>0, <1>2, <2>1, <2>2 DEF MergesProfile, TypeInv, TypeOK, MergedInv, GatewayLists
<1>3. CASE ConvertsBase
  <2>1. IsTree(Component("base", "base", NoFields).values)
    BY NoFieldsIsTree DEF Component
  <2>2. /\ IsSequence(components')
        /\ \A k \in DOMAIN components' : IsTree(components'[k].values)
    BY <1>0, <1>3, <2>1, AddsKeepsType DEF ConvertsBase
  <2> QED BY <1>0, <1>3, <2>2
          DEF ConvertsBase, Adds, TypeInv, TypeOK, MergedInv, GatewayLists
<1>4. CASE ConvertsPilot
  <2>1. IsTree(Component("istiod", "istiod", IstiodValues(iop)).values)
    BY <1>0, <1>4, ListsAreTyped, IstiodIsTree DEF ConvertsPilot, Component, GatewayLists
  <2>2. /\ IsSequence(components')
        /\ \A k \in DOMAIN components' : IsTree(components'[k].values)
    BY <1>0, <1>4, <2>1, AddsKeepsType DEF ConvertsPilot
  <2>3. MergedInv'
    BY <1>0, <1>4 DEF ConvertsPilot, Adds, MergedInv
  <2>4. IsSequence(GatewaySpecs(iop, "ingressGateways"))
    BY <1>0, <1>4, ListsAreTyped DEF ConvertsPilot, GatewayLists
  <2>5. /\ iop' = iop /\ step' = "ingressGateways" /\ next' = 1
        /\ globalValues' = globalValues /\ IsTree(globalValues)
    BY <1>0, <1>4 DEF ConvertsPilot, Adds, TypeOK, GatewayLists
  <2>6. step' \in GatewayLists /\ next' \in 1 .. Len(GatewaySpecs(iop', step')) + 1
    BY <2>4, <2>5, SequenceShape DEF GatewayLists
  <2> QED BY <2>2, <2>3, <2>5, <2>6 DEF TypeInv, TypeOK
<1>5. CASE ConvertsGateway
  <2> DEFINE gw == GatewaySpecs(iop, step)[next]
  <2>1. /\ step \in GatewayLists /\ next \in DOMAIN GatewaySpecs(iop, step)
        /\ Adds(Installable(gw), Component(gw.name, "gateway", GatewayValues(gw, iop)))
        /\ next' = next + 1 /\ step' = step
    BY <1>5 DEF ConvertsGateway
  <2>2. IsTree(Component(gw.name, "gateway", GatewayValues(gw, iop)).values)
    BY <1>0, <2>1, ListsAreTyped, GatewayIsTree DEF Component, GatewayLists
  <2>3. /\ IsSequence(components')
        /\ \A k \in DOMAIN components' : IsTree(components'[k].values)
    BY <1>0, <2>1, <2>2, AddsKeepsType
  <2>4. iop' = iop /\ UNCHANGED <<user, version, globalValues>>
    BY <2>1 DEF Adds
  <2>5. IsSequence(GatewaySpecs(iop, step))
    BY <1>0, <2>1, ListsAreTyped DEF GatewayLists
  <2>6. next' \in 1 .. Len(GatewaySpecs(iop, step)) + 1 /\ next' \in Nat
    BY <2>1, <2>5, SequenceShape
  <2>7. MergedInv'
    BY <1>0, <2>1, <2>4 DEF MergedInv, GatewayLists
  <2> QED BY <1>0, <2>1, <2>3, <2>4, <2>6, <2>7 DEF TypeInv, TypeOK
<1>6. CASE GatewaysDone
  <2>1. /\ step \in GatewayLists /\ next' = 1
        /\ step' = IF step = "ingressGateways" THEN "egressGateways" ELSE "cni"
        /\ UNCHANGED <<iop, user, version, components, globalValues>>
    BY <1>6 DEF GatewaysDone
  <2>2. IsSequence(GatewaySpecs(iop, "egressGateways"))
    BY <1>0, <2>1, ListsAreTyped DEF GatewayLists
  <2>3. MergedInv'
    BY <1>0, <2>1 DEF MergedInv, GatewayLists
  <2>4. step' \in GatewayLists => step' = "egressGateways"
    BY <2>1 DEF GatewayLists
  <2> QED BY <1>0, <2>1, <2>2, <2>3, <2>4, SequenceShape DEF TypeInv, TypeOK, GatewayLists
<1>7. CASE ConvertsAmbient
  <2>1. /\ step \in {"cni", "ztunnel"} /\ next' = next
        /\ step' = IF step = "cni" THEN "ztunnel" ELSE "converted"
        /\ Adds(Enabled(iop, step), Blank)
    BY <1>7 DEF ConvertsAmbient
  <2>2. IsTree(Blank.values)
    BY NoFieldsIsTree DEF Blank
  <2>3. /\ IsSequence(components')
        /\ \A k \in DOMAIN components' : IsTree(components'[k].values)
    BY <1>0, <2>1, <2>2, AddsKeepsType
  <2>4. MergedInv' /\ globalValues' = globalValues
    BY <1>0, <2>1 DEF Adds, MergedInv
  <2> QED BY <1>0, <2>1, <2>3, <2>4 DEF TypeInv, TypeOK, GatewayLists
<1>8. CASE UNCHANGED vars
  BY <1>0, <1>8 DEF vars, TypeInv, TypeOK, MergedInv
<1> QED BY <1>1, <1>2, <1>3, <1>4, <1>5, <1>6, <1>7, <1>8
        DEF Next, SpecMissing, ProfileMissing, ConversionFails

(* The conversion keeps its types: no gateway is read outside its list,    *)
(* and no nil is put among the values of a component.                      *)
THEOREM TypeCorrect == Spec => []TypeOK
<1>1. TypeInv => TypeOK
  BY DEF TypeInv
<1> QED BY <1>1, TypeInvInit, TypeInvStep, PTL DEF Spec

-----------------------------------------------------------------------------
(* Order and versions.  The place in the code bounds the ranks of what is  *)
(* listed so far.                                                          *)
Reached ==
  CASE step \in {"new", "base"} -> 0
    [] step = "pilot"           -> 1
    [] step \in GatewayLists    -> 3
    [] OTHER                    -> 4

OrderInv ==
  /\ ChartsInOrder
  /\ user # NilSpec => \A k \in DOMAIN components : Rank(components[k]) <= Reached

LEMMA RankIsSmall ==
  ASSUME NEW component
  PROVE  Rank(component) \in 1 .. 4
BY DEF Rank

LEMMA AddsInOrder ==
  ASSUME IsSequence(components), ChartsInOrder, user # NilSpec,
         NEW condition, NEW component, Adds(condition, component),
         \A k \in DOMAIN components :
           \/ Rank(components[k]) < Rank(component)
           \/ Rank(components[k]) = Rank(component) /\ Rank(component) \in 3 .. 4,
         component.chart # NoName => component.version = Version(user)
  PROVE  /\ ChartsInOrder'
         /\ \A k \in DOMAIN components' :
              (k \in DOMAIN components /\ components'[k] = components[k]) \/ components'[k] = component
<1>1. /\ IsSequence(components')
      /\ DOMAIN components \subseteq DOMAIN components'
      /\ \A k \in DOMAIN components : components'[k] = components[k]
      /\ \A k \in DOMAIN components' \ DOMAIN components :
           components'[k] = component /\ \A i \in DOMAIN components' : i <= k
      /\ user' = user
  BY AddsAtEnd
<1>2. DOMAIN components' \subseteq Nat
  BY <1>1, SequenceShape
<1>3. ASSUME NEW i \in DOMAIN components', NEW j \in DOMAIN components', i < j
      PROVE  \/ Rank(components'[i]) < Rank(components'[j])
             \/ Rank(components'[i]) = Rank(components'[j]) /\ Rank(components'[i]) \in 3 .. 4
  <2>1. i \in DOMAIN components
    BY <1>1, <1>2, <1>3
  <2>2. CASE j \in DOMAIN components
    BY <1>1, <1>3, <2>1, <2>2 DEF ChartsInOrder
  <2>3. CASE j \notin DOMAIN components
    BY <1>1, <2>1, <2>3
  <2> QED BY <2>2, <2>3
<1>4. ASSUME NEW i \in DOMAIN components', components'[i].chart # NoName
      PROVE  components'[i].version = Version(user)
  BY <1>1, <1>4 DEF ChartsInOrder
<1>5. ChartsInOrder'
  BY <1>1, <1>3, <1>4 DEF ChartsInOrder, Rank
<1> QED BY <1>1, <1>5

LEMMA OrderInvInit == Init => OrderInv
BY DEF Init, OrderInv, ChartsInOrder

LEMMA OrderInvStep == TypeInv /\ OrderInv /\ [Next]_vars => OrderInv'
<1> SUFFICES ASSUME TypeInv, OrderInv, [Next]_vars PROVE OrderInv'
  OBVIOUS
<1>0. TypeOK /\ MergedInv /\ IsSequence(components)
  BY DEF TypeInv, TypeOK
<1>1. ASSUME UNCHANGED <<user, components>>, user # NilSpec => Reached <= Reached'
      PROVE  OrderInv'
  BY <1>1, RankIsSmall DEF OrderInv, ChartsInOrder, Rank, Reached, GatewayLists
(* A step that adds a component whose rank is that of the place it leaves. *)
<1>2. ASSUME NEW condition, NEW component, Adds(condition, component),
             component.chart # NoName => component.version = version,
             step \in {"base", "pilot", "ingressGateways", "egressGateways", "cni", "ztunnel"},
             \/ Reached < Rank(component)
             \/ Reached <= Rank(component) /\ Rank(component) \in 3 .. 4,
             Rank(component) <= Reached', Reached <= Reached'
      PROVE  OrderInv'
  <2>1. user # NilSpec /\ version = Version(user)
    BY <1>0, <1>2 DEF MergedInv
  <2>2. \A k \in DOMAIN components : Rank(components[k]) <= Reached
    BY <2>1 DEF OrderInv
  <2>3. Reached \in 0 .. 4 /\ Reached' \in 0 .. 4 /\ Rank(component) \in 1 .. 4
    BY RankIsSmall DEF Reached
  <2>4. \A k \in DOMAIN components :
          \/ Rank(components[k]) < Rank(component)
          \/ Rank(components[k]) = Rank(component) /\ Rank(component) \in 3 .. 4
    BY <1>2, <2>2, <2>3, RankIsSmall
  <2>5. /\ ChartsInOrder'
        /\ \A k \in DOMAIN components' :
             (k \in DOMAIN components /\ components'[k] = components[k]) \/ components'[k] = component
    BY <1>0, <1>2, <2>1, <2>4, AddsInOrder DEF OrderInv
  <2>6. \A k \in DOMAIN components' : Rank(components'[k]) <= Reached'
    BY <1>2, <2>2, <2>3, <2>5, RankIsSmall
  <2> QED BY <2>5, <2>6 DEF OrderInv, Rank
<1>3. CASE SpecMissing \/ ProfileMissing \/ ConversionFails
  BY <1>1, <1>3 DEF SpecMissing, ProfileMissing, ConversionFails, Fails, Reached, GatewayLists
<1>4. CASE MergesProfile
  BY <1>1, <1>4 DEF MergesProfile, Reached, GatewayLists
<1>5. CASE ConvertsBase
  BY <1>2, <1>5 DEF ConvertsBase, Component, Rank, Reached, GatewayLists
<1>6. CASE ConvertsPilot
  BY <1>2, <1>6 DEF ConvertsPilot, Component, Rank, Reached, GatewayLists
<1>7. CASE ConvertsGateway
  BY <1>2, <1>7 DEF ConvertsGateway, Component, Rank, Reached, GatewayLists
<1>8. CASE GatewaysDone
  BY <1>1, <1>8 DEF GatewaysDone, Reached, GatewayLists
<1>9. CASE ConvertsAmbient
  <2>1. Rank(Blank) = 4 /\ Blank.chart = NoName
    BY ConversionAssumption DEF Blank, Rank
  <2> QED BY <1>2, <1>9, <2>1 DEF ConvertsAmbient, Reached, GatewayLists
<1>10. CASE UNCHANGED vars
  BY <1>1, <1>10 DEF vars, Reached, GatewayLists
<1> QED BY <1>3, <1>4, <1>5, <1>6, <1>7, <1>8, <1>9, <1>10 DEF Next

(* Whatever is switched on and however many gateways there are, base comes *)
(* before istiod and istiod before the gateways, all in the version of the *)
(* user's tag.                                                             *)
THEOREM ChartsAreOrdered == Spec => []ChartsInOrder
<1>1. OrderInv => ChartsInOrder
  BY DEF OrderInv
<1> QED BY <1>1, TypeInvInit, TypeInvStep, OrderInvInit, OrderInvStep, PTL DEF Spec

-----------------------------------------------------------------------------
(* What is installed.  The names of the gateways of a list before index n. *)
NamesBefore(key, n) ==
  LET list == GatewaySpecs(iop, key) IN
  {list[k].name : k \in {j \in DOMAIN list : j < n /\ Installable(list[j])}}

NamesIn(key) ==
  LET list == GatewaySpecs(iop, key) IN
  {list[k].name : k \in {j \in DOMAIN list : Installable(list[j])}}

(* The gateways that the two loops have added so far.                      *)
Taken ==
  CASE step = "ingressGateways" -> NamesBefore("ingressGateways", next)
    [] step = "egressGateways"  -> NamesIn("ingressGateways") \cup NamesBefore("egressGateways", next)
    [] step \in {"cni", "ztunnel", "converted"} ->
         NamesIn("ingressGateways") \cup NamesIn("egressGateways")
    [] OTHER                    -> {}

Running == step \notin {"new", "failed"} /\ user # NilSpec

AskedInv ==
  Running =>
    /\ Names("base") # {} <=> step # "base" /\ Enabled(iop, "base")
    /\ Names("istiod") # {} <=> step \notin {"base", "pilot"} /\ Enabled(iop, "pilot")
    /\ Names("gateway") = Taken
    /\ Names(NoName) # {} <=>
         \/ step \in {"ztunnel", "converted"} /\ Enabled(iop, "cni")
         \/ step = "converted" /\ Enabled(iop, "ztunnel")

LEMMA NoneBeforeFirst ==
  ASSUME NEW key, IsSequence(GatewaySpecs(iop, key))
  PROVE  NamesBefore(key, 1) = {}
BY SequenceShape DEF NamesBefore

LEMMA NamesBeforeNext ==
  ASSUME NEW key, IsSequence(GatewaySpecs(iop, key)), NEW n \in DOMAIN GatewaySpecs(iop, key)
  PROVE  LET gw == GatewaySpecs(iop, key)[n] IN
         NamesBefore(key, n + 1) =
           NamesBefore(key, n) \cup (IF Installable(gw) THEN {gw.name} ELSE {})
<1> DEFINE list == GatewaySpecs(iop, key)
<1>1. DOMAIN list \subseteq Nat
  BY SequenceShape
<1>2. {j \in DOMAIN list : j < n + 1 /\ Installable(list[j])} =
        {j \in DOMAIN list : j < n /\ Installable(list[j])} \cup
          (IF Installable(list[n]) THEN {n} ELSE {})
  BY <1>1
<1> HIDE DEF list
<1> QED BY <1>2 DEF NamesBefore, list

LEMMA AllBeforeEnd ==
  ASSUME NEW key, IsSequence(GatewaySpecs(iop, key)),
         NEW n \in 1 .. Len(GatewaySpecs(iop, key)) + 1, n \notin DOMAIN GatewaySpecs(iop, key)
  PROVE  NamesBefore(key, n) = NamesIn(key)
<1> DEFINE list == GatewaySpecs(iop, key)
<1>1. \A j \in DOMAIN list : j < n
  BY SequenceShape
<1> QED BY <1>1 DEF NamesBefore, NamesIn

LEMMA AskedInvInit == Init => AskedInv
BY DEF Init, AskedInv, Running

LEMMA AskedInvStep == TypeInv /\ AskedInv /\ [Next]_vars => AskedInv'
<1> SUFFICES ASSUME TypeInv, AskedInv, [Next]_vars PROVE AskedInv'
  OBVIOUS
<1>0. TypeOK /\ MergedInv /\ IsSequence(components)
  BY DEF TypeInv, TypeOK
<1>1. CASE SpecMissing \/ ProfileMissing \/ ConversionFails
  BY <1>1 DEF SpecMissing, ProfileMissing, ConversionFails, Fails, AskedInv, Running
<1>2. CASE MergesProfile
  <2>1. components = <<>> /\ components' = components /\ step' = "base"
    BY <1>0, <1>2 DEF MergesProfile, MergedInv
  <2>2. \A chart : Names(chart)' = {}
    BY <2>1 DEF Names
  <2>3. Taken' = {}
    BY <2>1 DEF Taken
  <2> QED BY <2>1, <2>2, <2>3 DEF AskedInv
<1>3. CASE ConvertsBase
  <2> DEFINE c == Component("base", "base", NoFields)
  <2>1. step = "base" /\ step' = "pilot" /\ Adds(Enabled(iop, "base"), c)
    BY <1>3 DEF ConvertsBase
  <2>2. c.chart = "base"
    BY DEF Component
  <2> HIDE DEF c
  <2>3. Names("base")' = Names("base") \cup (IF Enabled(iop, "base") THEN {c.name} ELSE {})
    BY <1>0, <2>1, <2>2, AddsName
  <2>4. \A chart \in {"istiod", "gateway", NoName} : Names(chart)' = Names(chart)
    BY <1>0, <2>1, <2>2, AddsNoOther, ConversionAssumption
  <2>5. UNCHANGED <<iop, user>> /\ Running
    BY <1>0, <2>1 DEF Adds, Running, MergedInv
  <2>6. Taken = {} /\ Taken' = {}
    BY <2>1 DEF Taken
  <2> QED BY <2>1, <2>3, <2>4, <2>5, <2>6 DEF AskedInv, Enabled
<1>4. CASE ConvertsPilot
  <2> DEFINE c == Component("istiod", "istiod", IstiodValues(iop))
  <2>1. /\ step = "pilot" /\ step' = "ingressGateways" /\ next' = 1
        /\ Adds(Enabled(iop, "pilot"), c)
    BY <1>0, <1>4 DEF ConvertsPilot, TypeOK, GatewayLists
  <2>2. c.chart = "istiod"
    BY DEF Component
  <2> HIDE DEF c
  <2>3. Names("istiod")' = Names("istiod") \cup (IF Enabled(iop, "pilot") THEN {c.name} ELSE {})
    BY <1>0, <2>1, <2>2, AddsName
  <2>4. \A chart \in {"base", "gateway", NoName} : Names(chart)' = Names(chart)
    BY <1>0, <2>1, <2>2, AddsNoOther, ConversionAssumption
  <2>5. UNCHANGED <<iop, user>> /\ Running
    BY <1>0, <2>1 DEF Adds, Running, MergedInv
  <2>6. Taken = {}
    BY <2>1 DEF Taken
  <2>7. NamesBefore("ingressGateways", 1) = {}
    BY <1>0, <2>1, ListsAreTyped, NoneBeforeFirst DEF GatewayLists
  <2>8. Taken' = {}
    BY <2>1, <2>5, <2>7 DEF Taken, NamesBefore
  <2> QED BY <2>1, <2>3, <2>4, <2>5, <2>6, <2>8 DEF AskedInv, Enabled
<1>5. CASE ConvertsGateway
  <2> DEFINE gw == GatewaySpecs(iop, step)[next]
             c == Component(gw.name, "gateway", GatewayValues(gw, iop))
  <2>1. /\ step \in GatewayLists /\ next \in DOMAIN GatewaySpecs(iop, step)
        /\ step' = step /\ next' = next + 1
        /\ Adds(Installable(gw), c)
    BY <1>5 DEF ConvertsGateway
  <2>2. c.chart = "gateway" /\ c.name = gw.name
    BY DEF Component
  <2>3. IsSequence(GatewaySpecs(iop, step))
    BY <1>0, <2>1, ListsAreTyped DEF GatewayLists
  <2>4. NamesBefore(step, next + 1) =
          NamesBefore(step, next) \cup (IF Installable(gw) THEN {gw.name} ELSE {})
    BY <2>1, <2>3, NamesBeforeNext
  <2> HIDE DEF gw, c
  <2>5. Names("gateway")' = Names("gateway") \cup (IF Installable(gw) THEN {gw.name} ELSE {})
    BY <1>0, <2>1, <2>2, AddsName
  <2>6. \A chart \in {"base", "istiod", NoName} : Names(chart)' = Names(chart)
    BY <1>0, <2>1, <2>2, AddsNoOther, ConversionAssumption
  <2>7. UNCHANGED <<iop, user>> /\ Running
    BY <1>0, <2>1 DEF Adds, Running, MergedInv, GatewayLists
  <2>8. Taken' = Taken \cup (IF Installable(gw) THEN {gw.name} ELSE {})
    BY <2>1, <2>4, <2>7 DEF Taken, NamesBefore, NamesIn, GatewayLists
  <2> QED BY <2>1, <2>5, <2>6, <2>7, <2>8 DEF AskedInv, Enabled, GatewayLists
<1>6. CASE GatewaysDone
  <2>1. /\ step \in GatewayLists /\ next \notin DOMAIN GatewaySpecs(iop, step) /\ next' = 1
        /\ step' = IF step = "ingressGateways" THEN "egressGateways" ELSE "cni"
        /\ UNCHANGED <<iop, user, version, components>>
    BY <1>6 DEF GatewaysDone
  <2>2. next \in 1 .. Len(GatewaySpecs(iop, step)) + 1
    BY <1>0, <2>1 DEF TypeOK
  <2>3. \A key \in GatewayLists : IsSequence(GatewaySpecs(iop, key))
    BY <1>0, <2>1, ListsAreTyped DEF GatewayLists
  <2>4. NamesBefore(step, next) = NamesIn(step)
    BY <2>1, <2>2, <2>3, AllBeforeEnd
  <2>5. NamesBefore("egressGateways", 1) = {}
    BY <2>3, NoneBeforeFirst DEF GatewayLists
  <2>6. Taken' = Taken
    <3>1. /\ \A key : NamesIn(key)' = NamesIn(key)
          /\ NamesBefore("egressGateways", 1)' = {}
      BY <2>1, <2>5 DEF NamesBefore, NamesIn
    <3>2. CASE step = "ingressGateways"
      BY <2>1, <2>4, <3>1, <3>2 DEF Taken, NamesBefore
    <3>3. CASE step = "egressGateways"
      BY <2>1, <2>4, <3>1, <3>3 DEF Taken
    <3> QED BY <2>1, <3>2, <3>3 DEF GatewayLists
  <2>7. Running /\ \A chart : Names(chart)' = Names(chart)
    BY <1>0, <2>1 DEF Running, MergedInv, GatewayLists, Names
  <2> QED BY <2>1, <2>6, <2>7 DEF AskedInv, Enabled, GatewayLists
<1>7. CASE ConvertsAmbient
  <2>1. /\ step \in {"cni", "ztunnel"}
        /\ step' = IF step = "cni" THEN "ztunnel" ELSE "converted"
        /\ Adds(Enabled(iop, step), Blank)
    BY <1>7 DEF ConvertsAmbient
  <2>2. Blank.chart = NoName
    BY DEF Blank
  <2>3. Names(NoName)' = Names(NoName) \cup (IF Enabled(iop, step) THEN {Blank.name} ELSE {})
    BY <1>0, <2>1, <2>2, AddsName
  <2>4. \A chart \in {"base", "istiod", "gateway"} : Names(chart)' = Names(chart)
    BY <1>0, <2>1, <2>2, AddsNoOther, ConversionAssumption
  <2>5. UNCHANGED <<iop, user>> /\ Running
    BY <1>0, <2>1 DEF Adds, Running, MergedInv
  <2>6. Taken' = Taken
    BY <2>1, <2>5 DEF Taken, NamesIn
  <2> QED BY <2>1, <2>3, <2>4, <2>5, <2>6 DEF AskedInv, Enabled
<1>8. CASE UNCHANGED vars
  <2>1. UNCHANGED <<step, iop, user>> /\ Taken' = Taken /\ \A chart : Names(chart)' = Names(chart)
    BY <1>8 DEF vars, Taken, NamesBefore, NamesIn, Names
  <2> QED BY <2>1 DEF AskedInv, Running, Enabled
<1> QED BY <1>1, <1>2, <1>3, <1>4, <1>5, <1>6, <1>7, <1>8 DEF Next

(* At the end of the list, in terms of the user's spec and the profile.    *)
LEMMA AskedIsInstalled == TypeInv /\ AskedInv => InstalledAsAsked
<1> SUFFICES ASSUME TypeInv, AskedInv, step = "converted", user # NilSpec
             PROVE  InstalledAsAsked
  BY DEF InstalledAsAsked
<1> DEFINE profile == Profiles[ProfileName(user)]
           Asked(component) == Enabled(user, component) \/ Enabled(profile, component)
           Listed(key) == GatewaySpecs(IF Given(user, ListPath(key)) THEN user ELSE profile, key)
           Wanted(list) ==
             {list[k].name : k \in {j \in DOMAIN list : list[j].enabled = Leaf(Yes) /\ list[j].name # NoName}}
<1>1. /\ user \in IopSpecs \ {NilSpec} /\ ProfileName(user) \in DOMAIN Profiles
      /\ iop = Merge(user, profile)
  BY DEF TypeInv, MergedInv
<1>2. \A c \in Switchable : Enabled(iop, c) <=> Asked(c)
  BY <1>1, MergedSwitch
<1>3. \A key \in GatewayLists : GatewaySpecs(iop, key) = Listed(key)
  BY <1>1, MergedList
<1>4. \A key \in GatewayLists : NamesIn(key) = Wanted(Listed(key))
  BY <1>3 DEF NamesIn, Installable
<1>5. Names("gateway") = UNION {Wanted(Listed(key)) : key \in GatewayLists}
  <2>1. Names("gateway") = NamesIn("ingressGateways") \cup NamesIn("egressGateways")
    BY DEF AskedInv, Running, Taken
  <2> QED BY <1>4, <2>1 DEF GatewayLists
<1>6. /\ Names("base") # {} <=> Asked("base")
      /\ Names("istiod") # {} <=> Asked("pilot")
      /\ Names(NoName) # {} <=> Asked("cni") \/ Asked("ztunnel")
  BY <1>2 DEF AskedInv, Running, Switchable
<1> QED BY <1>5, <1>6 DEF InstalledAsAsked

(* The profile's merge, the switches and the two loops together install    *)
(* what the user or the profile has switched on, and nothing else.         *)
THEOREM AskedComponentsAreInstalled == Spec => []InstalledAsAsked
BY TypeInvInit, TypeInvStep, AskedInvInit, AskedInvStep, AskedIsInstalled, PTL DEF Spec

-----------------------------------------------------------------------------
(* What the merges give, path by path.                                     *)

LEMMA SameHereIs ==
  ASSUME NEW tree, NEW other, tree = other \/ (IsNode(tree) /\ IsNode(other))
  PROVE  SameHere(tree, other)
BY DEF SameHere, IsNode, IsLeaf

LEMMA MergedWins == TypeInv => UserWins
<1> SUFFICES ASSUME TypeInv, step = "base" PROVE UserWins
  BY DEF UserWins
<1> DEFINE profile == Profiles[ProfileName(user)]
           Wanted(p) == IF Given(user, p) \/ ~Has(profile, p) THEN At(user, p) ELSE At(profile, p)
<1>1. /\ user \in IopSpecs \ {NilSpec} /\ profile \in Range(Profiles)
      /\ iop = Merge(user, profile)
  BY DEF TypeInv, MergedInv, Range
<1> HIDE DEF profile
<1>2. IsTree(user) /\ IsTree(profile) /\ IsTree(iop)
  BY <1>1, SpecsHaveOneShape, MergedIsTree
<1>3. ASSUME NEW p \in Path
      PROVE  /\ At(iop, p) = Wanted(p) \/ (IsNode(At(iop, p)) /\ IsNode(Wanted(p)))
             /\ At(iop, p) = Nothing <=> At(user, p) = Nothing /\ At(profile, p) = Nothing
  BY <1>1, MergedSpec
<1>4. Paths(iop) = Paths(user) \cup Paths(profile)
  <2>1. /\ Paths(iop) = {p \in Path : p # <<>> /\ Has(iop, p)}
        /\ Paths(user) = {p \in Path : p # <<>> /\ Has(user, p)}
        /\ Paths(profile) = {p \in Path : p # <<>> /\ Has(profile, p)}
    BY <1>2, PathsOfTree
  <2>2. \A p \in Path : Has(iop, p) <=> Has(user, p) \/ Has(profile, p)
    BY <1>3 DEF Has
  <2> QED BY <2>1, <2>2
<1>5. ASSUME NEW p \in Paths(iop) PROVE SameHere(At(iop, p), Wanted(p))
  <2>1. p \in Path
    BY <1>2, <1>5, PathsOfTree
  <2> QED BY <1>3, <2>1, SameHereIs
<1> QED BY <1>4, <1>5 DEF UserWins, profile

(* For every spec and every profile, however deep and wide, the merge      *)
(* keeps what the user gave and fills the rest from the profile.           *)
THEOREM UserValuesWin == Spec => []UserWins
BY TypeInvInit, TypeInvStep, MergedWins, PTL DEF Spec

LEMMA ValuesWin == TypeOK => ComponentValuesWin
<1> SUFFICES ASSUME TypeOK, NEW k \in DOMAIN components
             PROVE  LET component == components[k]
                        effective == Values(component)
                        globals == IF component.ignoreGlobalValues THEN NoFields ELSE globalValues
                        Wanted(p) == Winner(globals, component.values, p)
                    IN /\ Paths(effective) =
                            {p \in Paths(globals) \cup Paths(component.values) : Wanted(p) # Nothing}
                       /\ \A p \in Paths(effective) : SameHere(At(effective, p), Wanted(p))
  BY DEF ComponentValuesWin
<1> DEFINE component == components[k]
           own       == component.values
           effective == Values(component)
           globals   == IF component.ignoreGlobalValues THEN NoFields ELSE globalValues
           Wanted(p) == Winner(globals, own, p)
<1>1. IsTree(own) /\ IsTree(globals)
  BY NoFieldsIsTree DEF TypeOK
<1>2. IsTree(effective)
  BY <1>1, OverlayIsTree DEF Values, MergeValues
<1>3. ASSUME NEW p \in Path, p # <<>>
      PROVE  At(effective, p) = Wanted(p) \/ (IsNode(At(effective, p)) /\ IsNode(Wanted(p)))
  <2>1. Wanted(p) = IF At(own, p) # Nothing THEN At(own, p)
                    ELSE IF UnderLeaf(own, p) THEN Nothing ELSE At(globals, p)
    BY DEF Winner, Has, UnderLeaf
  <2>2. CASE component.ignoreGlobalValues
    <3>1. At(NoFields, p) = Nothing
      <4>1. Fields(Nothing) = NoFields
        BY NothingThere DEF Fields
      <4> QED BY <1>3, <4>1, HeadLeads, FollowNothing, NothingThere
    <3> QED BY <2>1, <2>2, <3>1 DEF Values
  <2>3. CASE ~component.ignoreGlobalValues
    <3>1. effective = Overlay(globals, own, {})
      BY <2>3 DEF Values, MergeValues
    <3> HIDE DEF effective, globals, own
    <3> QED BY <1>1, <2>1, <3>1, AboveWins
  <2> QED BY <2>2, <2>3
<1> HIDE DEF effective, globals, own
<1>4. ASSUME NEW p \in Path, p # <<>>
      PROVE  Has(effective, p) <=> Wanted(p) # Nothing /\ (Has(globals, p) \/ Has(own, p))
  BY <1>3, <1>4, NothingThere DEF Winner, Has
<1>5. /\ Paths(effective) = {p \in Path : p # <<>> /\ Has(effective, p)}
      /\ Paths(own) = {p \in Path : p # <<>> /\ Has(own, p)}
      /\ Paths(globals) = {p \in Path : p # <<>> /\ Has(globals, p)}
  BY <1>1, <1>2, PathsOfTree
<1>6. Paths(effective) = {p \in Paths(globals) \cup Paths(own) : Wanted(p) # Nothing}
  <2> HIDE DEF Wanted
  <2> QED BY <1>4, <1>5
<1>7. \A p \in Paths(effective) : SameHere(At(effective, p), Wanted(p))
  BY <1>3, <1>5, SameHereIs
<1> QED BY <1>6, <1>7 DEF effective, globals, own

(* For every pair of value trees, the component's values win over the      *)
(* global ones at every depth, and nothing else gets in.                   *)
THEOREM ValuesOfComponentsWin == Spec => []ComponentValuesWin
BY TypeInvInit, TypeInvStep, ValuesWin, PTL DEF Spec, TypeInv

-----------------------------------------------------------------------------
(* What istiod's chart is installed with.  Its values are put together of  *)
(* four maps, each with one key at most.                                   *)
LEMMA IstiodParts ==
  ASSUME NEW spec, NEW p \in Path, p # <<>>
  PROVE  LET Leads(key, fields) == At(IstiodValues(spec), <<key>> \o p) = At(fields, <<key>> \o p)
         IN /\ Leads("meshConfig", MeshConfig(spec))
            /\ Leads("sidecarInjectorWebhook",
                     Field("sidecarInjectorWebhook", At(spec, <<"values", "sidecarInjectorWebhook">>)))
            /\ Leads("pilot", Pilot(spec))
            /\ Leads("affinity",
                     Field("affinity", At(spec, <<"components", "pilot", "k8s", "affinity">>)))
<1> DEFINE mesh     == MeshConfig(spec)
           webhook  == Field("sidecarInjectorWebhook", At(spec, <<"values", "sidecarInjectorWebhook">>))
           pilot    == Pilot(spec)
           affinity == Field("affinity", At(spec, <<"components", "pilot", "k8s", "affinity">>))
           P(key)   == <<key>> \o p
<1>1. /\ DOMAIN mesh \subseteq {"meshConfig"} /\ DOMAIN webhook \subseteq {"sidecarInjectorWebhook"}
      /\ DOMAIN pilot \subseteq {"pilot"} /\ DOMAIN affinity \subseteq {"affinity"}
  BY DEF MeshConfig, Pilot, Field, Entry, NoFields
<1>2. IstiodValues(spec) = Over(mesh, Over(webhook, Over(pilot, affinity)))
  BY DEF IstiodValues
<1>3. {"meshConfig", "sidecarInjectorWebhook", "pilot", "affinity"} \subseteq Key
  BY NamesAreKeys DEF FieldNames
<1>4. ASSUME NEW key \in Key PROVE P(key) \in Path /\ P(key) # <<>> /\ Head(P(key)) = key
  BY EntryLeads
<1>5. /\ DOMAIN Over(pilot, affinity) = DOMAIN pilot \cup DOMAIN affinity
      /\ DOMAIN Over(webhook, Over(pilot, affinity)) = DOMAIN webhook \cup DOMAIN pilot \cup DOMAIN affinity
  BY DEF Over
<1> HIDE DEF mesh, webhook, pilot, affinity, P
<1>6. At(IstiodValues(spec), P("meshConfig")) = At(mesh, P("meshConfig"))
  BY <1>1, <1>2, <1>3, <1>4, <1>5, OverLeads
<1>7. ASSUME NEW key \in Key, key # "meshConfig"
      PROVE  At(IstiodValues(spec), P(key)) = At(Over(webhook, Over(pilot, affinity)), P(key))
  BY <1>1, <1>2, <1>4, <1>7, OverLeads
<1>8. At(IstiodValues(spec), P("sidecarInjectorWebhook")) = At(webhook, P("sidecarInjectorWebhook"))
  BY <1>1, <1>3, <1>4, <1>5, <1>7, OverLeads
<1>9. ASSUME NEW key \in Key, key \notin {"meshConfig", "sidecarInjectorWebhook"}
      PROVE  At(IstiodValues(spec), P(key)) = At(Over(pilot, affinity), P(key))
  <2>1. key \notin DOMAIN webhook
    BY <1>1, <1>9
  <2> QED BY <1>4, <1>7, <1>9, <2>1, OverLeads
<1>10. At(IstiodValues(spec), P("pilot")) = At(pilot, P("pilot"))
  BY <1>1, <1>3, <1>4, <1>9, OverLeads
<1>11. At(IstiodValues(spec), P("affinity")) = At(affinity, P("affinity"))
  BY <1>1, <1>3, <1>4, <1>9, OverLeads
<1> QED BY <1>6, <1>8, <1>10, <1>11 DEF mesh, webhook, pilot, affinity, P

(* A field is there with all that is in it.                                *)
LEMMA FieldLeads ==
  ASSUME NEW key \in Key, NEW tree, NEW p \in Path, p # <<>>, Follow(tree, p) # Nothing
  PROVE  At(Field(key, tree), <<key>> \o p) = Follow(tree, p)
<1>1. tree # Nothing
  BY FollowNothing, NothingThere
<1>2. Follow(Node(Fields(tree)), p) = Follow(tree, p)
  BY HeadLeads DEF At
<1> QED BY <1>1, <1>2, EntryLeads DEF Field

LEMMA MeshLeads ==
  ASSUME NEW spec, NEW p \in Path, p # <<>>
  PROVE  LET values == At(spec, <<"values", "meshConfig">>)
             own    == At(spec, <<"meshConfig">>)
             mesh   == At(IstiodValues(spec), <<"meshConfig">> \o p)
         IN /\ Follow(values, p) # Nothing => mesh = Follow(values, p)
            /\ Follow(own, p) # Nothing /\ Head(p) \notin DOMAIN Fields(values) => mesh = Follow(own, p)
<1> DEFINE values == At(spec, <<"values", "meshConfig">>)
           own    == At(spec, <<"meshConfig">>)
           mesh   == At(IstiodValues(spec), <<"meshConfig">> \o p)
           over   == Over(Fields(values), Fields(own))
<1>1. mesh = At(MeshConfig(spec), <<"meshConfig">> \o p)
  BY IstiodParts
<1>2. "meshConfig" \in Key
  BY NamesAreKeys DEF FieldNames
<1>3. MeshConfig(spec) = IF own = Nothing THEN Field("meshConfig", values) ELSE Entry("meshConfig", Node(over))
  BY DEF MeshConfig
<1> HIDE DEF values, own, mesh, over
<1>4. CASE own = Nothing
  <2>1. Follow(own, p) = Nothing
    BY <1>4, FollowNothing, NothingThere
  <2> QED BY <1>1, <1>2, <1>3, <1>4, <2>1, FieldLeads DEF values, own, mesh
<1>5. CASE own # Nothing
  <2>1. mesh = Follow(Node(over), p)
    BY <1>1, <1>2, <1>3, <1>5, EntryLeads
  <2>2. /\ Head(p) \in DOMAIN Fields(values) => At(over, p) = Follow(values, p)
        /\ Head(p) \notin DOMAIN Fields(values) => At(over, p) = Follow(own, p)
        /\ Head(p) \notin DOMAIN Fields(values) => Follow(values, p) = Nothing
    BY OverLeads, HeadLeads DEF over
  <2> QED BY <2>1, <2>2 DEF At, values, own, mesh
<1> QED BY <1>4, <1>5

LEMMA PilotLeads ==
  ASSUME NEW spec, NEW p \in Path, p # <<>>
  PROVE  LET values    == At(spec, <<"values", "pilot">>)
             resources == PilotResources(spec)
             pilot(q)  == At(IstiodValues(spec), <<"pilot">> \o q)
         IN /\ Follow(values, p) # Nothing /\ (resources = Nothing \/ Head(p) # "resources") =>
                 pilot(p) = Follow(values, p)
            /\ resources # Nothing => pilot(<<"resources">> \o p) = Follow(resources, p)
<1> DEFINE values    == At(spec, <<"values", "pilot">>)
           resources == PilotResources(spec)
           entry     == Entry("resources", resources)
           over      == Over(entry, Fields(values))
           deep      == <<"resources">> \o p
<1>1. "pilot" \in Key /\ "resources" \in Key
  BY NamesAreKeys DEF FieldNames
<1>2. deep \in Path /\ deep # <<>> /\ Head(deep) = "resources" /\ At(entry, deep) = Follow(resources, p)
  BY <1>1, EntryLeads
<1>3. Pilot(spec) = IF resources = Nothing THEN Field("pilot", values) ELSE Entry("pilot", Node(over))
  BY DEF Pilot
<1>4. ASSUME NEW q \in Path, q # <<>>
      PROVE  At(IstiodValues(spec), <<"pilot">> \o q) = At(Pilot(spec), <<"pilot">> \o q)
  BY <1>4, IstiodParts
<1>5. DOMAIN entry = {"resources"}
  BY DEF Entry
<1> HIDE DEF values, resources, entry, over, deep
<1>6. CASE resources = Nothing
  BY <1>1, <1>3, <1>4, <1>6, FieldLeads DEF values, resources, deep
<1>7. CASE resources # Nothing
  <2>1. ASSUME NEW q \in Path, q # <<>>
        PROVE  At(IstiodValues(spec), <<"pilot">> \o q) = At(over, q)
    BY <1>1, <1>3, <1>4, <1>7, <2>1, EntryLeads DEF At
  <2>2. At(over, deep) = Follow(resources, p)
    BY <1>2, <1>5, OverLeads DEF over
  <2>3. Head(p) # "resources" => At(over, p) = Follow(values, p)
    BY <1>5, OverLeads, HeadLeads DEF over
  <2> QED BY <1>2, <1>7, <2>1, <2>2, <2>3 DEF values, resources, deep
<1> QED BY <1>6, <1>7

(* istiod's values are those of the merged spec, and meet the global ones. *)
IstiodInv ==
  user # NilSpec =>
    \A k \in DOMAIN components : components[k].chart = "istiod" =>
      components[k].values = IstiodValues(iop) /\ ~components[k].ignoreGlobalValues

LEMMA IstiodInvInit == Init => IstiodInv
BY DEF Init, IstiodInv

LEMMA IstiodInvStep == TypeInv /\ IstiodInv /\ [Next]_vars => IstiodInv'
<1> SUFFICES ASSUME TypeInv, IstiodInv, [Next]_vars PROVE IstiodInv'
  OBVIOUS
<1>0. MergedInv /\ IsSequence(components)
  BY DEF TypeInv, TypeOK
<1>1. CASE UNCHANGED <<iop, user, components>>
  BY <1>1 DEF IstiodInv
<1>2. ASSUME NEW condition, NEW component, Adds(condition, component),
             \/ component.chart # "istiod"
             \/ component.values = IstiodValues(iop) /\ ~component.ignoreGlobalValues
      PROVE  IstiodInv'
  <2>1. UNCHANGED <<iop, user>>
    BY <1>2 DEF Adds
  <2>2. \A k \in DOMAIN components' :
          (k \in DOMAIN components /\ components'[k] = components[k]) \/ components'[k] = component
    BY <1>0, <1>2, AddsAtEnd
  <2> QED BY <1>2, <2>1, <2>2 DEF IstiodInv
<1>3. CASE SpecMissing \/ ProfileMissing \/ ConversionFails \/ GatewaysDone \/ UNCHANGED vars
  BY <1>1, <1>3 DEF SpecMissing, ProfileMissing, ConversionFails, Fails, GatewaysDone, vars
<1>4. CASE MergesProfile
  <2>1. components = <<>> /\ components' = components
    BY <1>0, <1>4 DEF MergesProfile, MergedInv
  <2> QED BY <2>1 DEF IstiodInv
<1>5. CASE ConvertsBase
  BY <1>2, <1>5 DEF ConvertsBase, Component
<1>6. CASE ConvertsPilot
  BY <1>2, <1>6 DEF ConvertsPilot, Component
<1>7. CASE ConvertsGateway
  BY <1>2, <1>7 DEF ConvertsGateway, Component
<1>8. CASE ConvertsAmbient
  <2>1. Blank.chart # "istiod"
    BY ConversionAssumption DEF Blank
  <2> QED BY <1>2, <1>8, <2>1 DEF ConvertsAmbient
<1> QED BY <1>3, <1>4, <1>5, <1>6, <1>7, <1>8 DEF Next

(* A value of the user that istiod's values have is not lost after that.   *)
LEMMA IstiodKeeps ==
  ASSUME TypeOK, IstiodInv, user # NilSpec,
         NEW k \in DOMAIN components, components[k].chart = "istiod",
         NEW path \in Path, IsLeaf(At(IstiodValues(iop), path))
  PROVE  At(Values(components[k]), path) = At(IstiodValues(iop), path)
<1> DEFINE own == IstiodValues(iop)
<1>1. components[k].values = own /\ ~components[k].ignoreGlobalValues
  BY DEF IstiodInv
<1>2. IsTree(own) /\ IsTree(globalValues)
  BY <1>1 DEF TypeOK
<1>3. Values(components[k]) = Overlay(globalValues, own, {})
  BY <1>1 DEF Values, MergeValues
<1> HIDE DEF own
<1>4. At(own, path) # Nothing /\ ~IsNode(At(own, path))
  BY NothingThere DEF own, IsLeaf, IsNode
<1> QED BY <1>2, <1>3, <1>4, AboveWins DEF own

(* No key is in the merged spec that neither the user nor the profile has. *)
LEMMA MergedKeys ==
  ASSUME NEW spec \in IopSpecs \ {NilSpec}, NEW profile \in Range(Profiles), NEW path \in Path
  PROVE  DOMAIN Fields(At(Merge(spec, profile), path)) \subseteq
           DOMAIN Fields(At(spec, path)) \cup DOMAIN Fields(At(profile, path))
<1> DEFINE merged == Merge(spec, profile)
<1> SUFFICES ASSUME NEW k \in DOMAIN Fields(At(merged, path))
             PROVE  k \in DOMAIN Fields(At(spec, path)) \cup DOMAIN Fields(At(profile, path))
  OBVIOUS
<1>1. IsTree(merged)
  BY MergedIsTree
<1> HIDE DEF merged
<1>2. k \in Key /\ Child(At(merged, path), k) # Nothing
  BY <1>1, KeysOfTree
<1>3. Append(path, k) \in Path /\ At(merged, Append(path, k)) # Nothing
  BY <1>2, Extended, KeyLeads
<1>4. At(spec, Append(path, k)) # Nothing \/ At(profile, Append(path, k)) # Nothing
  BY <1>3, MergedSpec DEF merged
<1> QED BY <1>2, <1>4, KeyLeads

LEMMA ValuesReach ==
  ASSUME TypeInv, IstiodInv, step = "converted", user # NilSpec,
         NEW k \in DOMAIN components, components[k].chart = "istiod"
  PROVE  CopiesReach(components[k])
<1> DEFINE effective == Values(components[k])
           profile == Profiles[ProfileName(user)]
           Keys(path) == DOMAIN Fields(At(user, path)) \cup DOMAIN Fields(At(profile, path))
           k8s == <<"components", "pilot", "k8s">>
           Reaches(from, to, replaced) ==
             \A p \in Paths(Fields(At(user, from))) :
               LET value == At(user, from \o p) IN
               IsLeaf(value) /\ value.scalar \notin Empty /\ Head(p) \notin replaced =>
                 At(effective, to \o p) = value
           Leads(from, to, replaced) ==
             \A p \in Path :
               p # <<>> /\ Follow(At(iop, from), p) # Nothing /\ Head(p) \notin replaced =>
                 At(IstiodValues(iop), to \o p) = Follow(At(iop, from), p)
<1>1. /\ user \in IopSpecs \ {NilSpec} /\ profile \in Range(Profiles)
      /\ iop = Merge(user, profile) /\ TypeOK /\ IsTree(user)
  BY SpecsHaveOneShape DEF TypeInv, MergedInv, Range
<1>2. ASSUME NEW from \in Path, from # <<>>, NEW to \in Path, NEW replaced, Leads(from, to, replaced)
      PROVE  Reaches(from, to, replaced)
  <2> SUFFICES ASSUME NEW p \in Paths(Fields(At(user, from))), IsLeaf(At(user, from \o p)),
                      At(user, from \o p).scalar \notin Empty, Head(p) \notin replaced
               PROVE  At(effective, to \o p) = At(user, from \o p)
    OBVIOUS
  <2>1. p \in Path /\ p # <<>>
    BY <1>1, <1>2, PartIsTree, PathsOfTree
  <2>2. from \o p \in Path /\ to \o p \in Path
    BY <2>1, ConcatProperties DEF Path
  <2>3. At(user, from \o p) # Nothing /\ ~IsNode(At(user, from \o p))
    BY NothingThere DEF IsLeaf, IsNode
  <2>4. At(iop, from \o p) = At(user, from \o p)
    <3> HIDE DEF profile
    <3>1. Given(user, from \o p)
      BY <2>3 DEF Given, Has
    <3> QED BY <1>1, <2>2, <2>3, <3>1, MergedSpec
  <2>5. At(iop, from \o p) = Follow(At(iop, from), p)
    BY <2>1, FollowConcat DEF At
  <2>6. At(IstiodValues(iop), to \o p) = At(user, from \o p)
    BY <1>2, <2>1, <2>3, <2>4, <2>5
  <2> QED BY <1>1, <2>2, <2>6, IstiodKeeps
<1> HIDE DEF Reaches
<1>3. k8s \in Path /\ Append(k8s, "resources") \in Path /\ Append(k8s, "affinity") \in Path
  BY NamesAreKeys, KeysArePaths, Extended DEF FieldNames
<1>4. /\ <<"values", "meshConfig">> \in Path /\ <<"meshConfig">> \in Path
      /\ <<"values", "sidecarInjectorWebhook">> \in Path /\ <<"sidecarInjectorWebhook">> \in Path
      /\ <<"values", "pilot">> \in Path /\ <<"pilot">> \in Path
      /\ <<"pilot", "resources">> \in Path /\ <<"affinity">> \in Path
  BY NamesAreKeys, KeysArePaths DEF FieldNames
<1>5. Append(k8s, "resources") = <<"components", "pilot", "k8s", "resources">>
      /\ Append(k8s, "affinity") = <<"components", "pilot", "k8s", "affinity">>
  <2>1. /\ "components" \in Key /\ "pilot" \in Key /\ "k8s" \in Key
        /\ "resources" \in Key /\ "affinity" \in Key
    BY NamesAreKeys DEF FieldNames
  <2>2. ASSUME NEW key \in Key PROVE Append(k8s, key) = <<"components", "pilot", "k8s", key>>
    BY <2>1, FourthKey
  <2> HIDE DEF k8s
  <2> QED BY <2>1, <2>2
<1>5a. /\ <<"values", "meshConfig">> # <<>> /\ <<"meshConfig">> # <<>>
          /\ <<"values", "sidecarInjectorWebhook">> # <<>> /\ <<"values", "pilot">> # <<>>
          /\ Append(k8s, "resources") # <<>> /\ Append(k8s, "affinity") # <<>>
  BY <1>5, NamesAreKeys, KeysArePaths DEF FieldNames
<1>6. Leads(<<"values", "meshConfig">>, <<"meshConfig">>, {})
  BY MeshLeads
<1>7. Leads(<<"meshConfig">>, <<"meshConfig">>, Keys(<<"values", "meshConfig">>))
  <2>1. DOMAIN Fields(At(iop, <<"values", "meshConfig">>)) \subseteq Keys(<<"values", "meshConfig">>)
    BY <1>1, <1>4, MergedKeys
  <2> QED BY <2>1, MeshLeads
<1>8. Leads(<<"values", "sidecarInjectorWebhook">>, <<"sidecarInjectorWebhook">>, {})
  BY NamesAreKeys, IstiodParts, FieldLeads DEF FieldNames
<1>9. Leads(<<"values", "pilot">>, <<"pilot">>, Keys(k8s) \cap {"resources"})
  <2>1. "resources" \in Key
    BY NamesAreKeys DEF FieldNames
  <2>2. PilotResources(iop) # Nothing => "resources" \in Keys(k8s)
    <3>1. DOMAIN Fields(At(iop, k8s)) \subseteq Keys(k8s)
      BY <1>1, <1>3, MergedKeys
    <3>2. At(iop, Append(k8s, "resources")) # Nothing => "resources" \in DOMAIN Fields(At(iop, k8s))
      BY <1>3, <2>1, KeyLeads
    <3> QED BY <1>5, <3>1, <3>2 DEF PilotResources
  <2> QED BY <2>2, PilotLeads
<1>10. Leads(Append(k8s, "resources"), <<"pilot", "resources">>, {})
  <2> SUFFICES ASSUME NEW p \in Path, p # <<>>, Follow(At(iop, Append(k8s, "resources")), p) # Nothing
               PROVE  At(IstiodValues(iop), <<"pilot", "resources">> \o p) =
                        Follow(At(iop, Append(k8s, "resources")), p)
    OBVIOUS
  <2>1. At(iop, Append(k8s, "resources")) = PilotResources(iop)
    BY <1>5 DEF PilotResources
  <2>2. PilotResources(iop) # Nothing
    BY <2>1, FollowNothing, NothingThere
  <2>3. <<"pilot", "resources">> \o p = <<"pilot">> \o (<<"resources">> \o p)
    <3> DEFINE first == <<"pilot">>
               second == <<"resources">>
    <3>1. first \in Path /\ second \in Path /\ first \o second = <<"pilot", "resources">>
      BY NamesAreKeys, KeysArePaths, SecondKey DEF FieldNames
    <3> HIDE DEF first, second
    <3>2. first \in Seq(Key) /\ second \in Seq(Key) /\ p \in Seq(Key)
      BY <3>1 DEF Path
    <3>3. (first \o second) \o p = first \o (second \o p)
      BY <3>2, ConcatAssociative
    <3> QED BY <3>1, <3>3 DEF first, second
  <2> QED BY <2>1, <2>2, <2>3, PilotLeads
<1>11. Leads(Append(k8s, "affinity"), <<"affinity">>, {})
  <2> DEFINE affinity == At(iop, <<"components", "pilot", "k8s", "affinity">>)
  <2>1. At(iop, Append(k8s, "affinity")) = affinity /\ "affinity" \in Key
    BY <1>5, NamesAreKeys DEF FieldNames
  <2>2. ASSUME NEW p \in Path, p # <<>>, Follow(affinity, p) # Nothing
        PROVE  At(IstiodValues(iop), <<"affinity">> \o p) = Follow(affinity, p)
    BY <2>1, <2>2, IstiodParts, FieldLeads
  <2> HIDE DEF k8s, affinity
  <2> QED BY <2>1, <2>2
<1> HIDE DEF Leads, Keys, k8s
<1>12. /\ Reaches(<<"values", "meshConfig">>, <<"meshConfig">>, {})
       /\ Reaches(<<"meshConfig">>, <<"meshConfig">>, Keys(<<"values", "meshConfig">>))
       /\ Reaches(<<"values", "sidecarInjectorWebhook">>, <<"sidecarInjectorWebhook">>, {})
       /\ Reaches(<<"values", "pilot">>, <<"pilot">>, Keys(k8s) \cap {"resources"})
       /\ Reaches(Append(k8s, "resources"), <<"pilot", "resources">>, {})
       /\ Reaches(Append(k8s, "affinity"), <<"affinity">>, {})
  BY <1>2, <1>3, <1>4, <1>5a, <1>6, <1>7, <1>8, <1>9, <1>10, <1>11
<1> QED BY <1>12 DEF CopiesReach, Reaches, Keys, k8s

(* The global values stay those of the merged spec.                        *)
GlobalsInv ==
  user # NilSpec /\ step \notin {"new", "failed"} =>
    globalValues = Fields(At(iop, <<"values", "global">>))

LEMMA GlobalsInvInit == Init => GlobalsInv
BY DEF Init, GlobalsInv

LEMMA GlobalsInvStep == GlobalsInv /\ [Next]_vars => GlobalsInv'
<1> SUFFICES ASSUME GlobalsInv, [Next]_vars PROVE GlobalsInv'
  OBVIOUS
<1>1. CASE MergesProfile
  BY <1>1 DEF MergesProfile, GlobalsInv
<1>2. CASE UNCHANGED <<iop, user, globalValues>> /\ (step' = "failed" \/ step \notin {"new", "failed"})
  BY <1>2 DEF GlobalsInv
<1>3. CASE UNCHANGED vars
  BY <1>3 DEF GlobalsInv, vars
<1> QED BY <1>1, <1>2, <1>3
    DEF Next, SpecMissing, ProfileMissing, ConversionFails, Fails, ConvertsBase, ConvertsPilot,
        ConvertsGateway, GatewaysDone, ConvertsAmbient, Adds, GatewayLists

(* The keys of the effective values are those of the parts and the global  *)
(* ones.                                                                   *)
LEMMA NothingElse ==
  ASSUME TypeInv, IstiodInv, GlobalsInv, step = "converted", user # NilSpec,
         NEW k \in DOMAIN components, components[k].chart = "istiod"
  PROVE  NothingElseReaches(components[k])
<1> DEFINE own == IstiodValues(iop)
           profile == Profiles[ProfileName(user)]
           global == <<"values", "global">>
<1>1. components[k].values = own /\ ~components[k].ignoreGlobalValues
  BY DEF IstiodInv
<1>2. IsTree(own) /\ IsTree(globalValues)
  BY <1>1 DEF TypeInv, TypeOK
<1>3. Values(components[k]) = Overlay(globalValues, own, {})
  BY <1>1 DEF Values, MergeValues
<1>4. DOMAIN own \subseteq {"meshConfig", "sidecarInjectorWebhook", "pilot", "affinity"}
  BY DEF IstiodValues, Over, MeshConfig, Pilot, Field, Entry, NoFields
<1>5. DOMAIN globalValues \subseteq DOMAIN Fields(At(user, global)) \cup DOMAIN Fields(At(profile, global))
  <2>1. user \in IopSpecs \ {NilSpec} /\ profile \in Range(Profiles) /\ iop = Merge(user, profile)
    BY DEF TypeInv, MergedInv, Range
  <2>2. global \in Path
    BY NamesAreKeys, KeysArePaths DEF FieldNames
  <2>3. globalValues = Fields(At(iop, global))
    BY DEF GlobalsInv
  <2> HIDE DEF profile, global
  <2> QED BY <2>1, <2>2, <2>3, MergedKeys
<1>6. DOMAIN Overlay(globalValues, own, {}) = DOMAIN own \cup DOMAIN globalValues
  <2> DEFINE root == <<>>
             merged == Overlay(globalValues, own, {})
  <2>1. root \in Path /\ \A fields : At(fields, root) = Node(fields)
    BY EmptySeq, FollowEmpty DEF At, Path
  <2>2. \A fields : IsNode(At(fields, root)) /\ Fields(At(fields, root)) = fields
    BY <2>1, NodeIsNode
  <2> HIDE DEF root, own
  <2>3. DOMAIN Fields(At(merged, root)) =
          DOMAIN Fields(At(own, root)) \cup DOMAIN Fields(At(globalValues, root))
    BY <1>2, <2>1, <2>2, OverlayChildren
  <2> QED BY <2>2, <2>3
<1> QED BY <1>3, <1>4, <1>5, <1>6 DEF NothingElseReaches

(* Through three merges, for every profile and all global values, what the *)
(* user writes into the parts that the conversion copies for istiod is     *)
(* what its chart is installed with, and nothing else but global values.   *)
THEOREM IstiodGetsCopiedValues == Spec => []CopiedValuesReachIstiod
<1>1. TypeInv /\ IstiodInv /\ GlobalsInv => CopiedValuesReachIstiod
  BY ValuesReach, NothingElse DEF CopiedValuesReachIstiod
<1> QED BY <1>1, TypeInvInit, TypeInvStep, IstiodInvInit, IstiodInvStep, GlobalsInvInit,
           GlobalsInvStep, PTL DEF Spec
=============================================================================
