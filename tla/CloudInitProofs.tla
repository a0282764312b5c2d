-------------------------- MODULE CloudInitProofs --------------------------
(***************************************************************************)
(* The theorem about the cloud-init documents: for any machine, whatever   *)
(* its name, its UUID and its join configuration are.                      *)
(***************************************************************************)
EXTENDS Documents, TLAPS

-----------------------------------------------------------------------------
(* Rendering *)

(* The fields of the documents a machine is given, but user-data: their    *)
(* YAML names, and that the names they are rendered by are their own.      *)
LEMMA MetaFields ==
    /\ YamlNames("meta-data") = {"hostname", "local-hostname", "instance-id"}
    /\ \A f \in Fields("meta-data") : f.json = f.yaml
<1>1. \A k : Field(k, k).json = k /\ Field(k, k).yaml = k
  BY DEF Field
<1>2. Fields("meta-data") = {Field(k, k) : k \in {"hostname", "local-hostname", "instance-id"}}
  BY DEF Fields
<1>3. QED
  BY <1>1, <1>2 DEF YamlNames

LEMMA NetworkFields ==
    {"dhcp4", "dhcp6", "dns"} \subseteq YamlNames("network-config")
<1>1. \A a, b : Field(a, b).yaml = b
  BY DEF Field
<1>2. /\ Field("dhcp4", "dhcp4") \in Fields("network-config")
      /\ Field("dhcp6", "dhcp6") \in Fields("network-config")
      /\ Field("nameservers", "dns") \in Fields("network-config")
  BY DEF Fields
<1>3. QED
  BY <1>1, <1>2 DEF YamlNames

(* A document's values are fields' values.                                 *)
IsDocument(d, doc) == doc \in [YamlNames(d) -> Values \cup {Empty}]

LEMMA DocumentIs ==
    ASSUME NEW d \in Docs, NEW values, \A k \in DOMAIN values : values[k] \in Values
    PROVE  IsDocument(d, Document(d, values)) /\ Document(d, values) # Nil
<1>1. IsDocument(d, Document(d, values))
  BY DEF IsDocument, Document
<1>2. YamlNames(d) \subseteq Names
  BY DEF YamlNames, Names
<1>3. QED
  BY <1>1, <1>2, NilAssumption DEF IsDocument

LEMMA MarshalIs ==
    ASSUME NEW d \in Docs, NEW doc, IsDocument(d, doc)
    PROVE  Marshal(d, doc) # Nil
<1> DEFINE shown == {f \in Fields(d) : f.always \/ doc[f.yaml] # Empty}
<1> DEFINE Name(f) == IF d = "network-config" THEN f.yaml ELSE f.json
<1> DEFINE Shown(key) == CHOOSE f \in shown : Name(f) = key
<1> DEFINE names == {Name(f) : f \in shown}
<1>1. Marshal(d, doc) = [key \in names |-> doc[Shown(key).yaml]]
  BY DEF Marshal
<1>2. names \subseteq Names
  BY DEF Names
<1>3. ASSUME NEW key \in names
      PROVE  doc[Shown(key).yaml] \in Values \cup {Empty}
  <2>1. Shown(key) \in shown
    OBVIOUS
  <2> HIDE DEF Shown
  <2>2. QED
    BY <2>1 DEF IsDocument, YamlNames
<1> HIDE DEF names, Shown
<1>4. Marshal(d, doc) \in [names -> Values \cup {Empty}]
  BY <1>1, <1>3
<1>5. QED
  BY <1>2, <1>4, NilAssumption

(* A field that has a value is rendered with it, by a name that no other   *)
(* field has.                                                              *)
LEMMA Rendered ==
    ASSUME NEW d \in {"meta-data", "network-config"}, NEW doc, NEW k \in YamlNames(d),
           doc[k] # Empty
    PROVE  k \in DOMAIN Marshal(d, doc) /\ Marshal(d, doc)[k] = doc[k]
<1> DEFINE shown == {f \in Fields(d) : f.always \/ doc[f.yaml] # Empty}
<1> DEFINE Name(f) == IF d = "network-config" THEN f.yaml ELSE f.json
<1> DEFINE Shown(key) == CHOOSE f \in shown : Name(f) = key
<1>1. Marshal(d, doc) = [key \in {Name(f) : f \in shown} |-> doc[Shown(key).yaml]]
  BY DEF Marshal
<1>2. \A f \in Fields(d) : Name(f) = f.yaml
  BY MetaFields
<1>3. PICK f \in Fields(d) : f.yaml = k
  BY DEF YamlNames
<1>4. f \in shown /\ Name(f) = k
  BY <1>2, <1>3
<1>5. Shown(k) \in shown /\ Name(Shown(k)) = k
  BY <1>4
<1>6. Shown(k).yaml = k
  BY <1>2, <1>5
<1> HIDE DEF Shown
<1>7. QED
  BY <1>1, <1>4, <1>6

-----------------------------------------------------------------------------
(* The ISO of a machine *)

LEMMA MachineReads ==
    ASSUME NEW vmName \in Values, NEW uuid \in Values, NEW join, join # Nil, NEW servers \in Values
    PROVE  LET iso == Cidata(vmName, uuid, join, servers) IN
           /\ iso["user-data"] = join
           /\ iso["meta-data"]["hostname"] = vmName /\ iso["meta-data"]["instance-id"] = uuid
           /\ iso["network-config"]["dhcp4"] = "true"
<1> DEFINE meta == [k \in {"instance-id", "local-hostname", "hostname"} |->
                       IF k = "instance-id" THEN uuid ELSE vmName]
<1> DEFINE network == [k \in {"dhcp4", "dhcp6", "dns"} |-> IF k = "dns" THEN servers ELSE "true"]
<1> DEFINE metaDoc == Document("meta-data", meta)
<1> DEFINE networkDoc == Document("network-config", network)
<1> DEFINE config == NewTalosConfig(Nil, metaDoc, join, networkDoc)
<1> DEFINE rendered(d) == Marshal(d, config.docs[d])
<1>1. /\ metaDoc["hostname"] = vmName /\ metaDoc["instance-id"] = uuid
      /\ networkDoc["dhcp4"] = "true"
  BY MetaFields, NetworkFields DEF Document
<1>2. /\ metaDoc # Nil /\ networkDoc # Nil
      /\ IsDocument("meta-data", metaDoc) /\ IsDocument("network-config", networkDoc)
  BY DocumentIs, ValuesAssumption DEF Docs
<1>3. /\ Document("user-data", NoValues) # Nil
       /\ IsDocument("user-data", Document("user-data", NoValues))
  BY DocumentIs DEF Docs, NoValues
<1> HIDE DEF metaDoc, networkDoc
<1>4. /\ config.talos = TRUE /\ config.vendor = join
      /\ config.docs = [d \in Docs |->
            DefaultEntry(d, Given(Nil, metaDoc, networkDoc)[d])]
  BY DEF NewTalosConfig
<1>5. /\ config.docs["meta-data"] = metaDoc /\ config.docs["network-config"] = networkDoc
      /\ \A d \in Docs : config.docs[d] # Nil /\ IsDocument(d, config.docs[d])
  BY <1>2, <1>3, <1>4 DEF DefaultEntry, Given, Docs, metaDoc, networkDoc
<1> HIDE DEF config
<1>6. \A d \in Docs : rendered(d) # Nil
  BY <1>5, MarshalIs
<1>7. ISO(config) = makeCloudInitISO(join, rendered("meta-data"), rendered("network-config"))
  BY <1>4, <1>5 DEF ISO, Docs
<1>8. /\ rendered("meta-data")["hostname"] = vmName
      /\ rendered("meta-data")["instance-id"] = uuid
      /\ rendered("network-config")["dhcp4"] = "true"
  BY <1>1, <1>5, Rendered, MetaFields, NetworkFields, ValuesAssumption
<1> HIDE DEF rendered
<1>9. /\ ISO(config)["user-data"] = join
      /\ ISO(config)["meta-data"] = rendered("meta-data")
      /\ ISO(config)["network-config"] = rendered("network-config")
  BY <1>6, <1>7 DEF makeCloudInitISO, Given, Docs
<1>10. Cidata(vmName, uuid, join, servers) = ISO(config)
  BY DEF Cidata, config, metaDoc, networkDoc
<1>11. QED
  BY <1>8, <1>9, <1>10

-----------------------------------------------------------------------------
(* The theorem *)

(* Nothing is picked yet, or an input of the kind it is called.            *)
Picked ==
    \/ in = [kind |-> "none"]
    \/ \E types \in DiskLists : in = [kind |-> "disks", x |-> types]
    \/ \E r1, r2 \in Requests : (r1.id = r2.id => r1 = r2) /\ in = [kind |-> "requests", x |-> <<r1, r2>>]
    \/ \E machine \in Machines : in = [kind |-> "machine", x |-> machine]

LEMMA AlwaysPicked == Spec => []Picked
<1>1. Init => Picked
  BY DEF Init, Picked
<1>2. Picked /\ [Next]_in => Picked'
  BY DEF Picked, Next, Pick, PickDisks, PickRequests, PickMachine
<1>3. QED
  BY <1>1, <1>2, PTL DEF Spec

(* Any machine reads what provisionCidata knows of it.                     *)
THEOREM SettingsAreRead == Spec => []MachineGetsSettings
<1>1. Picked => MachineGetsSettings
  <2>1. SUFFICES ASSUME Picked, in.kind = "machine"
                 PROVE  MachineGetsSettings
    BY DEF MachineGetsSettings
  <2>2. in.x \in Machines
    BY <2>1 DEF Picked
  <2>3. in.x[1] \in Values /\ in.x[2] \in Values /\ in.x[3] # Nil /\ in.x[4] \in Values
    BY <2>2, MachinesAssumption
  <2>4. QED
    BY <2>3, MachineReads DEF MachineGetsSettings
<1>2. QED
  BY <1>1, AlwaysPicked, PTL
=============================================================================
