----------------------------- MODULE CloudInit -----------------------------
(***************************************************************************)
(* The cloud-init documents (libvirt/cloudinit) of a Talos machine: how    *)
(* provisionCidata's settings become the files of the ISO it boots with.   *)
(*                                                                         *)
(* The Go structs name their fields twice, for JSON and for YAML, and not  *)
(* always alike: MetaData and UserData are rendered by the JSON names,     *)
(* NetworkConfig by the YAML names.  Reading documents from directories,   *)
(* merging them and NewNetworkConfig are called by nothing and left out.   *)
(***************************************************************************)

CONSTANTS
    Nil,        \* no document
    Empty,      \* the zero value of a field
    Values      \* the other values of fields

ASSUME ValuesAssumption == "true" \in Values /\ Empty \notin Values /\ Nil \notin Values

Docs == {"meta-data", "user-data", "network-config"}

(* With omitempty a field with its zero value is not rendered. *)
Field(json, yaml) == [json |-> json, yaml |-> yaml, always |-> FALSE]

(* Without a json tag the name is Go's, and a zero value is rendered too. *)
Untagged(name, yaml) == [json |-> name, yaml |-> yaml, always |-> TRUE]

Fields(d) ==
    CASE d = "meta-data" ->
            {Field(k, k) : k \in {"hostname", "local-hostname", "instance-id"}}
      [] d = "user-data" ->
            {Untagged("Password", "password"), Untagged("SSHPasswordAuth", "ssh_pwauth"),
             Field("users", "users")}
      [] OTHER ->      \* of an Ethernet, with what it is matched by left out
            {Field(k, k) : k \in {"addresses", "dhcp4", "dhcp6", "gateway4", "gateway6"}}
                \cup {Field("nameservers", "dns")}

YamlNames(d) == {f.yaml : f \in Fields(d)}

(* A document: the values of its fields, by their YAML names. *)
Document(d, values) ==
    [k \in YamlNames(d) |-> IF k \in DOMAIN values THEN values[k] ELSE Empty]

NoValues == [k \in {} |-> Empty]

(* Nil is neither a document nor what one is rendered to. *)
Names == UNION {{f.json, f.yaml} : f \in UNION {Fields(d) : d \in Docs}}
ASSUME NilAssumption == \A names \in SUBSET Names : Nil \notin [names -> Values \cup {Empty}]

(* What is rendered: MetaData and UserData go through structToMap. *)
Marshal(d, doc) ==
    LET shown == {f \in Fields(d) : f.always \/ doc[f.yaml] # Empty}
        Name(f) == IF d = "network-config" THEN f.yaml ELSE f.json
        Shown(key) == CHOOSE f \in shown : Name(f) = key
    IN  [key \in {Name(f) : f \in shown} |-> doc[Shown(key).yaml]]

-----------------------------------------------------------------------------
(* The ISO *)

DefaultEntry(d, doc) == IF doc = Nil THEN Document(d, NoValues) ELSE doc

Given(user, meta, network) ==
    [d \in Docs |-> CASE d = "user-data" -> user [] d = "meta-data" -> meta [] OTHER -> network]

(* Mutant: without TalosConfig. *)
NewTalosConfigMutant(user, meta, vendor, network) ==
    [docs |-> [d \in Docs |-> DefaultEntry(d, Given(user, meta, network)[d])],
     vendor |-> vendor, talos |-> FALSE]

NewTalosConfig(user, meta, vendor, network) ==
    [docs |-> [d \in Docs |-> DefaultEntry(d, Given(user, meta, network)[d])],
     vendor |-> vendor, talos |-> TRUE]

(* The ISO's files: user-data and meta-data always, even if empty. *)
makeCloudInitISO(user, meta, network) ==
    LET given == Given(user, meta, network)
        files == {"user-data", "meta-data"} \cup {f \in Docs : given[f] # Nil}
    IN  [f \in files |-> IF given[f] = Nil THEN NoValues ELSE given[f]]

(* A Talos machine gets its join configuration as user-data. *)
ISO(config) ==
    LET Rendered(d) == IF config.docs[d] = Nil THEN Nil ELSE Marshal(d, config.docs[d])
    IN  makeCloudInitISO(IF config.talos THEN config.vendor ELSE Rendered("user-data"),
                         Rendered("meta-data"), Rendered("network-config"))

(* What provisionCidata puts on it. *)
Cidata(vmName, uuid, joinConfig, servers) ==
    LET meta == [k \in {"instance-id", "local-hostname", "hostname"} |->
                    IF k = "instance-id" THEN uuid ELSE vmName]
        network == [k \in {"dhcp4", "dhcp6", "dns"} |-> IF k = "dns" THEN servers ELSE "true"]
    IN  ISO(NewTalosConfig(Nil, Document("meta-data", meta), joinConfig,
                           Document("network-config", network)))
=============================================================================
