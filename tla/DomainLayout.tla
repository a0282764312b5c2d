---------------------------- MODULE DomainLayout ----------------------------
(***************************************************************************)
(* The names the steps make up: of a request's volumes in the storage      *)
(* pools, and of the devices createVM attaches the disks to.               *)
(*                                                                         *)
(* Provisioner speaks of "the volume of kind k of request m" and of disks  *)
(* that are all attached; that is right as long as different volumes have  *)
(* different names, and different disks of a domain different devices.     *)
(***************************************************************************)
EXTENDS Naturals, Sequences, FiniteSets

CONSTANTS
    Char,               \* characters
    UnknownType,        \* createVM's error
    Decimal(_)          \* the digits of a number

ASSUME CharAssumption ==
    {"-", ".", "_", "4", "6", "V", "A", "R", "S", "a", "c", "d", "e", "f", "i", "l", "m",
     "n", "o", "r", "s", "t", "u", "v"} \subseteq Char

-----------------------------------------------------------------------------
(* A volume is found by its pool and, there, by its name: characters, so   *)
(* that one request's id may end like another's volume, and names made of  *)
(* different parts may be equal.                                           *)

Dash == <<"-">>
Iso  == <<".", "i", "s", "o">>

TypeEnding ==
    [nvme |-> <<"-", "n", "v", "m", "e">>, sata |-> <<"-", "s", "a", "t", "a">>]

DiskVolume(pool, vm, idx, type) == <<pool, vm \o Dash \o Decimal(idx) \o TypeEnding[type]>>

MainVolume(pool, vm) == <<pool, vm \o <<"-", "v", "o", "l", "u", "m", "e">>>>

IsoVolume(vm, schematic) ==
    <<"isos", vm \o Dash \o schematic
              \o <<"-", "n", "o", "c", "l", "o", "u", "d", "-", "a", "m", "d", "6", "4">> \o Iso>>

UserData == <<"u", "s", "e", "r", "-", "d", "a", "t", "a", "-">>

CidataVolumeMutant(vm) == <<"isos", UserData \o vm \o Iso>>    \* with the other ISOs

CidataVolume(vm) == <<"config", UserData \o vm \o Iso>>

NvramVolume(vm) == <<"nvram", vm \o <<"_", "V", "A", "R", "S", ".", "f", "d">>>>

(* A request's volumes, of a class with the pool and the types of disks.   *)
Volumes(vm, schematic, types, pool) ==
    [k \in ({"main", "iso", "cidata", "nvram"} \X {0}) \cup ({"disk"} \X DOMAIN types) |->
        CASE k[1] = "main" -> MainVolume(pool, vm)
          [] k[1] = "iso" -> IsoVolume(vm, schematic)
          [] k[1] = "cidata" -> CidataVolume(vm)
          [] k[1] = "nvram" -> NvramVolume(vm)
          [] OTHER -> DiskVolume(pool, vm, k[2] - 1, types[k[2]])]

-----------------------------------------------------------------------------
(* Device names: a prefix, and a suffix in characters' codes or, for NVMe,  *)
(* the number of the disk.                                                 *)

Digit(d) == 48 + d

(* Mutant: the letter itself, as for Linux' disk names. *)
PrintedMutant(code) == <<code>>

(* fmt.Sprint of a rune: the number of the letter, in decimal digits. *)
Printed(code) ==
    IF code < 100 THEN <<Digit(code \div 10), Digit(code % 10)>>
    ELSE <<Digit(code \div 100), Digit((code \div 10) % 10), Digit(code % 10)>>

(* The loop over idx, from the last letter to the first; at -1 it is done. *)
Suffix(count) ==
    LET s[n \in 0..(count + 1)] ==      \* n is idx + 1
            IF n = 0 THEN <<>> ELSE s[(n - 1) \div 26] \o Printed(97 + ((n - 1) % 26))
    IN  s[count + 1]

(* The VM's disk, its ISO and the cidata: sdd, sdb, sdc. *)
FixedDevices == << <<"sd", <<100>>>>, <<"sd", <<98>>>>, <<"sd", <<99>>>> >>

(* Disks of the type before position i. *)
CountBefore(types, i, t) == Cardinality({j \in 1..(i - 1) : types[j] = t})

Device(types, i) ==
    IF types[i] = "nvme" THEN <<"nvme", <<CountBefore(types, i, "nvme")>>>>
    ELSE <<"sd", Suffix(2 + CountBefore(types, i, "sata"))>>

(* The devices of a domain, in the order of its XML. *)
Devices(types) ==
    IF \E i \in DOMAIN types : types[i] \notin {"nvme", "sata"} THEN UnknownType
    ELSE FixedDevices \o [i \in DOMAIN types |-> Device(types, i)]
-----------------------------------------------------------------------------
(* Correctness *)

(* No two disks of a domain have one device name, for any number and order *)
(* of additional disks, the count passing 26 and 26 + 26 * 26 included:    *)
(* libvirt refuses a domain with two, and the request would fail for good. *)
DevicesApart(types) ==
    LET devices == Devices(types) IN
    devices # UnknownType => Cardinality({devices[i] : i \in DOMAIN devices}) = Len(devices)

(* No two volumes of any two requests are found by one pool and name, of  *)
(* whatever characters the ids are and whatever pool the class has: a      *)
(* volume that is found, deleted or attached is the request's own.  What   *)
(* keeps them apart is how the names end and, for the ISO of a request     *)
(* "user-data" and the cidata of another, the pools alone.                 *)
NamesApart(r1, r2) ==
    LET v1 == Volumes(r1.id, r1.schematic, r1.types, r1.pool)
        v2 == Volumes(r2.id, r2.schematic, r2.types, r2.pool)
    IN  \A k1 \in DOMAIN v1, k2 \in DOMAIN v2 :
            v1[k1] = v2[k2] => r1.id = r2.id /\ k1 = k2
=============================================================================
