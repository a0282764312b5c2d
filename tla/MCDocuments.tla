---------------------------- MODULE MCDocuments ----------------------------
(***************************************************************************)
(* The inputs of Documents for TLC.                                        *)
(***************************************************************************)
EXTENDS Documents, TLC

(* The characters of a string. *)
Text(s) == [i \in 1..Len(s) |-> SubSeq(s, i, i)]

InDecimal(n) == Text(ToString(n))

Characters == {Text("-._0123456789VARSacdefilmnorstuv")[i] : i \in 1..32}

(* Up to five additional disks of any type, or enough for three letters. *)
DiskTypes == UNION {[1..n -> {"nvme", "sata", "scsi"}] : n \in 0..5}
ManyDisks == {[i \in 1..n |-> "sata"] : n \in {27, 120, 705}}
SomeDiskLists == DiskTypes \cup ManyDisks

(* Ids that look like parts of names of each other, and pools that are     *)
(* other volumes' as well.                                                 *)
Ids == {"a", "a-0", "a-1", "a-nvme", "a-volume", "a-s1", "a-1-nvme", "user-data-a", "user-data",
        "s1-nocloud-amd64"}
SomeRequests ==
    [id: {Text(id) : id \in Ids}, schematic: {Text("s1"), Text("s2")},
     types: {<<>>, <<"nvme", "nvme">>, <<"nvme", "sata">>}, pool: {"isos", "config"}]

FieldValues == {"v1", "v2", "true"}
Joins == {[k \in {"join"} |-> v] : v \in {"v1", "v2"}}
SomeMachines == {"v1", "v2"} \X {"v1", "v2"} \X Joins \X {"v1", "v2"}

(* network.go:37, json:"nameservers": the name of the servers' field in a  *)
(* network-config; README.md:7, machines shall not fall back on external   *)
(* resolvers in their initial startup.                                     *)
MachineGetsNameservers ==
    in.kind = "machine" =>
        LET iso == Cidata(in.x[1], in.x[2], in.x[3], in.x[4]) IN
        "nameservers" \in DOMAIN iso["network-config"]
=============================================================================
