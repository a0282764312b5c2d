--------------------------- MODULE MCProvisioner ---------------------------
(***************************************************************************)
(* The instances of Provisioner that TLC checks.                           *)
(***************************************************************************)
EXTENDS Provisioner, TLC

OneDisk == <<"d0">>
TwoDisks == <<"d0", "d1">>
NoDisks == <<>>
OneBridged == <<TRUE>>
BridgedSecond == <<FALSE, TRUE>>

WholeHost == {Pools}
AnyHost   == {Pools} \cup {Pools \ {p} : p \in Pools}

(* README.md:9, of Deprovision: "structured to handle UEFI NVRAM, deletion *)
(* of storage etc.": when a request is gone, so are the volumes whose names *)
(* Deprovision found in the machine's spec.                                *)
NoVolumeLeft ==
    \A m \in Machines : req[m] = "gone" =>
        \A k \in Attached : Recorded(m, k) => vol[m][k] = "absent"

(* README.md:8: "target devices must be unique": no two interfaces of the  *)
(* domains on the host have the same target device.                        *)
TargetsUnique ==
    \A m, n \in Machines : \A i \in DOMAIN nics[m], j \in DOMAIN nics[n] :
        nics[m][i] = nics[n][j] => m = n /\ i = j

Symmetry == Permutations(Machines)
=============================================================================
