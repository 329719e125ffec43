---------------------------- MODULE MCConversion ----------------------------
(***************************************************************************)
(* Inputs of the conversion.  The profiles are the files in                *)
(* istio/profiles; the IstioOperators vary what the conversion branches    *)
(* on; the users' HelmApps have all pairs of small trees as global and     *)
(* component values.                                                       *)
(***************************************************************************)
EXTENDS ComponentValues

CONSTANTS Five, Theirs, Ours, NoList

Switch(on) == Node("enabled" :> Leaf(on))
Gateway(name, enabled, k8s) == [name |-> name, enabled |-> Leaf(enabled), k8s |-> k8s]
Ingress(enabled) == Gateway("istio-ingressgateway", enabled, NoFields)
Egress(enabled) == Gateway("istio-egressgateway", enabled, NoFields)

MCProfiles ==
  [default |->
     [tag |-> Leaf("latest"),
      components |-> Node([base |-> Switch(Yes), pilot |-> Switch(Yes),
                           ingressGateways |-> Leaf(<<Ingress(Yes)>>),
                           egressGateways |-> Leaf(<<Egress(No)>>)]),
      values |-> Node(
        [defaultRevision |-> Leaf(NoName),
         global |-> Node([istioNamespace |-> Leaf("istio-system"), configValidation |-> Leaf(Yes)]),
         gateways |-> Node([k \in {"istio-ingressgateway", "istio-egressgateway"} |-> Node(NoFields)])])],
   demo |->
     [components |-> Node([egressGateways |-> Leaf(<<Egress(Yes)>>)]),
      values |-> Node([profile |-> Leaf("demo")])],
   empty |->
     [components |-> Node([base |-> Switch(No), pilot |-> Switch(No),
                           ingressGateways |-> Leaf(<<Ingress(No)>>)])],
   ambient |->
     [components |-> Node([cni |-> Switch(Yes), ztunnel |-> Switch(Yes),
                           ingressGateways |-> Leaf(<<Ingress(No)>>)]),
      values |-> Node([profile |-> Leaf("ambient")])]]

-----------------------------------------------------------------------------
(* A key may be absent or have one of the trees.                           *)
May(key, trees) == {NoFields} \cup {key :> tree : tree \in trees}

Both(some, others) == {s @@ o : s \in some, o \in others}

All(choices) == FoldLeft(Both, {NoFields}, choices)

Nest(key, fields) == {key :> Node(f) : f \in fields}

Switches ==
  LET switched == All(<<May("base", {Switch(Yes), Switch(No)}),
                         May("pilot", {Switch(Yes), Switch(No)}),
                         May("ingressGateways",
                           {Leaf(<<Gateway("mine", Yes, [resources |-> Node([cpu |-> Leaf(Theirs)])]),
                                   Gateway(NoName, Yes, NoFields), Ingress(No)>>),
                            Leaf(<<Ingress(Yes), Gateway("mine", Yes, NoFields)>>),
                            Leaf(NoList)}),
                         May("egressGateways", {Leaf(<<Egress(No), Gateway("out", Yes, NoFields)>>)})>>)
  IN All(<<May("tag", {Leaf("1.22"), Leaf(Five)}),
           May("profile", {Leaf(p) : p \in {"demo", "empty", "ambient", "missing"}}),
           Nest("components", switched)>>)

Settings ==
  LET mesh   == {Node([accessLog |-> Leaf(Theirs)]), Node([trace |-> Node([rate |-> Leaf(Theirs)])])}
      other  == Node([accessLog |-> Leaf(Ours), trace |-> Node([zipkin |-> Leaf(Ours)])])
      k8s    == All(<<May("resources", {Node([cpu |-> Leaf(Theirs)])}),
                      May("affinity", {Node([node |-> Leaf(Theirs)])})>>)
      scale  == All(<<May("autoscaleEnabled", {Leaf(Yes), Leaf("true")}),
                      May("autoscaleMin", {Leaf(Five), Leaf("5")})>>)
      values == All(<<May("meshConfig", mesh),
                      May("pilot", {Node([resources |-> Node([cpu |-> Leaf(Ours)]), image |-> Leaf(Ours)])}),
                      May("sidecarInjectorWebhook", {Node([rewrite |-> Leaf(Theirs)])}),
                      May("global", {Node([istioNamespace |-> Leaf(Theirs),
                                           pilot |-> Node([image |-> Leaf(Theirs)])])}),
                      Nest("gateways", Nest("istio-ingressgateway", scale))>>)
  IN All(<<May("meshConfig", {other}), Nest("values", values),
           Nest("components", Nest("pilot", May("k8s", {Node(f) : f \in k8s})))>>)

MCIopSpecs == {NilSpec} \cup Switches \cup Settings

-----------------------------------------------------------------------------
FieldsOver(keys, trees) == UNION {[used -> trees] : used \in SUBSET keys}

Shallow(scalar) == {Leaf(scalar)} \cup {Node(f) : f \in FieldsOver({"a", "b"}, {Leaf(scalar)})}
Deep(scalar) == {Node(f) : f \in FieldsOver({"a", "b"}, Shallow(scalar))}
Trees(scalar) ==
  FieldsOver({"a", "b"}, Shallow(scalar)) \cup FieldsOver({"a"}, Deep(scalar))

Own(name, values, ignores) ==
  [name |-> name, chart |-> name, version |-> "1.22", values |-> values, ignoreGlobalValues |-> ignores]

MCUserHelmApps ==
  {[components   |-> <<Own("c", values, FALSE), Own("d", values, TRUE)>>, globalValues |-> globals] :
     values \in Trees(Ours), globals \in Trees(Theirs)}
=============================================================================
