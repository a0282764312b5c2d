----------------------------- MODULE Documents -----------------------------
(***************************************************************************)
(* The pure parts, CloudInit and DomainLayout, as a specification: a       *)
(* behaviour picks one input, and the invariants are evaluated on it.      *)
(***************************************************************************)
EXTENDS CloudInit, DomainLayout

CONSTANTS
    DiskLists,      \* the types of a class's additional disks
    Requests,       \* with what the names of their volumes are made of
    Machines        \* <<name, UUID, join configuration, name servers>>

Undashed == Seq(Char \ {"-"})

ASSUME DisksAssumption ==
    UnknownType \notin Seq(STRING \X Seq(Nat)) /\ DiskLists \subseteq Seq(STRING)
ASSUME RequestsAssumption ==    \* a schematic's id is hexadecimal; schema.json lists the types
    \A r \in Requests :
        r.id \in Seq(Char) /\ r.schematic \in Undashed /\ r.types \in Seq({"nvme", "sata"})
ASSUME DecimalAssumption ==
    \A r \in Requests : \A i, j \in DOMAIN r.types :
        Decimal(i - 1) \in Undashed /\ (Decimal(i - 1) = Decimal(j - 1) => i = j)
ASSUME MachinesAssumption ==
    \A machine \in Machines :
        machine[1] \in Values /\ machine[2] \in Values /\ machine[3] # Nil /\ machine[4] \in Values

VARIABLE in

Pick(kind, x) == in = [kind |-> "none"] /\ in' = [kind |-> kind, x |-> x]

Init == in = [kind |-> "none"]

PickDisks == \E types \in DiskLists : Pick("disks", types)

(* Two requests of Omni have different ids. *)
PickRequests ==
    \E r1, r2 \in Requests : (r1.id = r2.id => r1 = r2) /\ Pick("requests", <<r1, r2>>)

PickMachine == \E machine \in Machines : Pick("machine", machine)

Next == PickDisks \/ PickRequests \/ PickMachine

Spec == Init /\ [][Next]_in

-----------------------------------------------------------------------------
(* Correctness *)

(* Of every list of disks (DevicesApart). *)
DiskDevicesApart == in.kind = "disks" => DevicesApart(in.x)

(* Of every pair of requests (NamesApart). *)
VolumeNamesApart == in.kind = "requests" => NamesApart(in.x[1], in.x[2])

(* What provisionCidata knows of the machine is in the files the machine   *)
(* reads at its first boot: the join configuration is its user-data, and   *)
(* no field is lost in rendering (the servers apart, see below).           *)
MachineGetsSettings ==
    in.kind = "machine" =>
        LET iso == Cidata(in.x[1], in.x[2], in.x[3], in.x[4]) IN
        /\ iso["user-data"] = in.x[3]
        /\ iso["meta-data"]["hostname"] = in.x[1] /\ iso["meta-data"]["instance-id"] = in.x[2]
        /\ iso["network-config"]["dhcp4"] = "true"
=============================================================================
