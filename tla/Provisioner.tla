---------------------------- MODULE Provisioner ----------------------------
(***************************************************************************)
(* The life of machine requests in the provider: the provisioning steps    *)
(* (provider/provision.go), Deprovision (provider/deprovision.go) and the  *)
(* volume and domain operations they are made of, against libvirt.         *)
(*                                                                         *)
(* Omni's controller works on different requests concurrently and on one   *)
(* request one reconcile at a time.  A reconcile runs the steps from the   *)
(* recorded one on; after each it saves the machine's spec, then records   *)
(* the next step.  One action is one call to libvirt or to Omni, so other  *)
(* requests, the guests and a restart can come between any two of them.    *)
(*                                                                         *)
(* A call may fail with no effect, or take effect and have its reply lost. *)
(***************************************************************************)
EXTENDS Naturals, Sequences

CONSTANTS
    Machines,       \* machine requests, by id
    ExtraDisks,     \* the additional disks of the machine class, a sequence of names
    Bridged,        \* Bridged[i]: interface i has target_name "omnibr"
    HostPools,      \* the sets of storage pools a host may come with
    GuestStates,    \* what a running guest may turn to by itself
    NoName,         \* VmIfName is empty
    MaxFaults,      \* bound: failing calls, lost replies and re-run failures
    MaxCrashes      \* bound: restarts of the provider

Media   == {"iso", "cidata"}
Extras  == {ExtraDisks[i] : i \in DOMAIN ExtraDisks}
Disks   == {"main"} \cup Extras
Kinds   == Media \cup Disks \cup {"nvram"}
Pools   == {"data", "isos", "config", "nvram"}
States  == {"none", "running", "shutdown", "shutoff", "paused"}

ASSUME ExtraDisksAssumption ==
    /\ ExtraDisks \in Seq(STRING)
    /\ Extras \cap {"iso", "cidata", "main", "nvram"} = {}
    /\ \A i, j \in DOMAIN ExtraDisks : ExtraDisks[i] = ExtraDisks[j] => i = j
ASSUME BridgedAssumption == Bridged \in Seq(BOOLEAN)
ASSUME PoolsAssumption == HostPools \subseteq SUBSET Pools
ASSUME GuestsAssumption == GuestStates \subseteq {"shutdown", "paused"}
ASSUME BoundsAssumption == MaxFaults \in Nat /\ MaxCrashes \in Nat
ASSUME NoNameAssumption == NoName \notin Nat

(* The steps, in the order of ProvisionSteps. *)
generateUUID             == 1
createSchematic          == 2
provisionISO             == 3
provisionVMVolume        == 4
provisionAdditionalDisks == 5
provisionCidata          == 6
createVM                 == 7
startVM                  == 8
allDone                  == 9

VARIABLES
    \* kept by Omni
    req,            \* req[m]: "running", "tearingDown", "gone"
    stage,          \* stage[m]: "provisioning", "provisioned", "failed"
    step,           \* step[m]: the step a reconcile starts with
    saved,          \* saved[m]: the last step whose results are in the machine's spec
    vmIfName,       \* vmIfName[m]: VmIfName in the spec; n stands for "omnibr<n>"
    \* memory of the provider
    op,             \* op[m]: the call the reconcile of m makes next, "none" when idle
    pos,            \* pos[m]: index of its loop over disks, interfaces or volumes
    seen,           \* seen[m]: the domain state it read
    ifnum,          \* ifnum[m]: the bridge count it read
    reg,            \* reg[m]: the count it is about to write back plus one
    bridgeCount,    \* Manager.BridgeCount
    \* the host
    vol,            \* vol[m][k]: m's volume of kind k: "absent", "partial", "full"
    dom,            \* dom[m]: state of m's domain
    nics,           \* nics[m]: the target device names of the domain's interfaces
    taps,           \* taps[m]: the target devices its running domain has on the host
    pools,          \* the storage pools, which the provider cannot make more of
    faults, crashes

omniVars == <<req, stage, step, saved, vmIfName>>
memVars  == <<pos, seen, ifnum, reg, bridgeCount>>
hostVars == <<vol, dom, nics, taps, pools>>
vars == <<req, stage, step, saved, vmIfName, op, pos, seen, ifnum, reg, bridgeCount,
          vol, dom, nics, taps, pools, faults, crashes>>

Init ==
    /\ req = [m \in Machines |-> "running"]
    /\ stage = [m \in Machines |-> "provisioning"]
    /\ step = [m \in Machines |-> generateUUID]
    /\ saved = [m \in Machines |-> 0]
    /\ vmIfName = [m \in Machines |-> NoName]
    /\ op = [m \in Machines |-> "none"]
    /\ pos = [m \in Machines |-> 1]
    /\ seen = [m \in Machines |-> "none"]
    /\ ifnum = [m \in Machines |-> 0]
    /\ reg = [m \in Machines |-> 0]
    /\ bridgeCount = 0
    /\ vol = [m \in Machines |-> [k \in Kinds |-> "absent"]]
    /\ dom = [m \in Machines |-> "none"]
    /\ nics = [m \in Machines |-> <<>>]
    /\ taps = [m \in Machines |-> <<>>]
    /\ pools \in HostPools
    /\ faults = 0 /\ crashes = 0

-----------------------------------------------------------------------------
(* How a reconcile goes on, and how it ends *)

Go(m, o) == op' = [op EXCEPT ![m] = o]

(* Errors the steps wrap in a retry error; Deprovision's errors and those  *)
(* of Omni's own writes make the controller try again as well.  Any other  *)
(* error makes the request fail.                                           *)
Retries == {"lookup", "schematic", "acquire", "check", "start", "save", "advance",
            "nvram", "domain", "act", "volume", "finish"}

Abort(m) ==
    /\ Go(m, "none")
    /\ stage' = IF op[m] \in Retries THEN stage ELSE [stage EXCEPT ![m] = "failed"]

Fault ==
    /\ faults < MaxFaults
    /\ faults' = faults + 1

(* The call took effect; its reply arrives, or is lost. *)
Reply(m, o) ==
    \/ Go(m, o) /\ UNCHANGED <<stage, faults>>
    \/ Abort(m) /\ Fault

(* libvirt or the step itself answers with an error. *)
Rejected(m) == Abort(m) /\ UNCHANGED faults

(* The call fails, with no effect.  The ones left out here have a failure  *)
(* of their own below, or one the code takes for an answer.  Of the lookup *)
(* of a fresh UUID it is the answer that the UUID is taken.                *)
CallFails(m) ==
    /\ op[m] \notin {"none", "find", "nic", "bump", "bridge", "upload"}
    /\ Abort(m) /\ Fault
    /\ UNCHANGED <<req, step, saved, vmIfName, memVars, hostVars, crashes>>

-----------------------------------------------------------------------------
(* Omni's controller *)

FirstOp(s) ==
    CASE s = generateUUID -> "lookup"
      [] s = createSchematic -> "schematic"
      [] s = provisionISO -> "acquire"
      [] s = provisionVMVolume -> "find"
      [] s = provisionAdditionalDisks -> IF ExtraDisks = <<>> THEN "save" ELSE "find"
      [] s = provisionCidata -> "purge"
      [] s = createVM -> "check"
      [] s = startVM -> "start"
      [] OTHER -> "none"

Begin(m, o) ==
    /\ op[m] = "none"
    /\ Go(m, o)
    /\ pos' = [pos EXCEPT ![m] = 1]
    /\ UNCHANGED <<omniVars, seen, ifnum, reg, bridgeCount, hostVars, faults, crashes>>

Reconcile(m) ==
    /\ req[m] = "running" /\ stage[m] = "provisioning"
    /\ Begin(m, FirstOp(step[m]))

ReconcileTeardown(m) ==
    /\ req[m] = "tearingDown"
    /\ Begin(m, "nvram")

(* Mutant: the step is recorded without its results. *)
SaveSpecMutant(m) ==
    /\ op[m] = "save"
    /\ UNCHANGED <<saved, vmIfName>>
    /\ Reply(m, "advance")
    /\ UNCHANGED <<req, step, memVars, hostVars, crashes>>

(* The results of the step are written to the machine's spec. *)
SaveSpec(m) ==
    /\ op[m] = "save"
    /\ saved' = [saved EXCEPT ![m] = step[m]]
    /\ vmIfName' = IF step[m] = createVM /\ TRUE \in {Bridged[i] : i \in DOMAIN Bridged}
                   THEN [vmIfName EXCEPT ![m] = ifnum[m]] ELSE vmIfName
    /\ Reply(m, "advance")
    /\ UNCHANGED <<req, step, memVars, hostVars, crashes>>

(* The next step is recorded, and after the last one the stage. *)
Advance(m) ==
    /\ op[m] = "advance"
    /\ step' = [step EXCEPT ![m] = @ + 1]
    /\ pos' = [pos EXCEPT ![m] = 1]
    /\ IF step[m] = startVM
       THEN /\ Go(m, "none")
            /\ stage' = [stage EXCEPT ![m] = "provisioned"]
            /\ UNCHANGED faults
       ELSE Reply(m, FirstOp(step[m] + 1))
    /\ UNCHANGED <<req, saved, vmIfName, seen, ifnum, reg, bridgeCount, hostVars, crashes>>

(* Something makes the controller look at a failed request again. *)
Rerun(m) ==
    /\ req[m] = "running" /\ stage[m] = "failed" /\ op[m] = "none"
    /\ Fault
    /\ stage' = [stage EXCEPT ![m] = "provisioning"]
    /\ UNCHANGED <<req, step, saved, vmIfName, op, memVars, hostVars, crashes>>

(* Omni marks the request for teardown, whatever the provider is doing. *)
RequestTeardown(m) ==
    /\ req[m] = "running"
    /\ req' = [req EXCEPT ![m] = "tearingDown"]
    /\ UNCHANGED <<stage, step, saved, vmIfName, op, memVars, hostVars, faults, crashes>>

-----------------------------------------------------------------------------
(* generateUUID, createSchematic and the start of provisionISO: calls that *)
(* change nothing on the host.  An error of the UUID lookup means to the   *)
(* code that the UUID is unused, like its success in not finding it; the   *)
(* image cache is a module of its own.                                     *)

NextOp == [lookup |-> "save", schematic |-> "save", acquire |-> "purge"]

AskAround(m) ==
    /\ op[m] \in DOMAIN NextOp
    /\ Go(m, NextOp[op[m]])
    /\ UNCHANGED <<omniVars, memVars, hostVars, faults, crashes>>

-----------------------------------------------------------------------------
(* Volumes *)

Kind(m) ==
    CASE step[m] = provisionISO -> "iso"
      [] step[m] = provisionCidata -> "cidata"
      [] step[m] = provisionVMVolume -> "main"
      [] OTHER -> ExtraDisks[pos[m]]

PoolOf(k) ==
    CASE k = "iso" -> "isos" [] k = "cidata" -> "config" [] k = "nvram" -> "nvram"
      [] OTHER -> "data"

(* Mutant: the names of volumes are without the request's id. *)
SetVolMutant(m, k, state) == vol' = [n \in Machines |-> [vol[n] EXCEPT ![k] = state]]

SetVol(m, k, state) == vol' = [vol EXCEPT ![m][k] = state]

(* Mutant: a medium that is there is taken as it is, like a disk. *)
PurgeMutant(m) ==
    /\ op[m] = "purge"
    /\ Go(m, IF vol[m][Kind(m)] = "absent" THEN "pool" ELSE "path")
    /\ UNCHANGED <<omniVars, memVars, hostVars, faults, crashes>>

(* The old version of a medium is deleted.  If the lookup fails, for       *)
(* whatever reason, the code goes on as if there were none.                *)
Purge(m) ==
    /\ op[m] = "purge"
    /\ \/ /\ vol[m][Kind(m)] = "absent"
          /\ Go(m, "pool")
          /\ UNCHANGED <<vol, stage, faults>>
       \/ /\ vol[m][Kind(m)] # "absent"
          /\ SetVol(m, Kind(m), "absent")
          /\ Reply(m, "pool")
       \/ /\ Fault
          /\ Go(m, "pool")
          /\ UNCHANGED <<vol, stage>>
    /\ UNCHANGED <<req, step, saved, vmIfName, memVars, dom, nics, taps, pools, crashes>>

PoolFound(m) == PoolOf(Kind(m)) \in pools

(* createOrGetPool *)
GetPool(m) ==
    /\ op[m] = "pool"
    /\ Go(m, IF PoolFound(m) THEN "create" ELSE "makePool")
    /\ UNCHANGED <<omniVars, memVars, hostVars, faults, crashes>>

(* The volume manager has an empty base path (libvirt.go:47), so the pool  *)
(* to make has a relative one, and libvirt refuses it.                     *)
MakePool(m) ==
    /\ op[m] = "makePool"
    /\ Rejected(m)
    /\ UNCHANGED <<req, step, saved, vmIfName, memVars, hostVars, crashes>>

(* A disk that is found is taken as it is; a lookup that fails is taken    *)
(* for "not found".                                                        *)
AfterDisk(m) ==
    IF step[m] = provisionVMVolume THEN "path"
    ELSE IF pos[m] = Len(ExtraDisks) THEN "save" ELSE "find"

NextPos(m) == pos' = [pos EXCEPT ![m] = IF AfterDisk(m) = "find" THEN @ + 1 ELSE @]

Find(m) ==
    /\ op[m] = "find"
    /\ \/ /\ PoolOf(Kind(m)) \in pools /\ vol[m][Kind(m)] # "absent"
          /\ Go(m, AfterDisk(m))
          /\ NextPos(m)
          /\ UNCHANGED faults
       \/ /\ PoolOf(Kind(m)) \notin pools \/ vol[m][Kind(m)] = "absent"
          /\ Go(m, "create")
          /\ UNCHANGED <<pos, faults>>
       \/ /\ Fault
          /\ Go(m, "create")
          /\ UNCHANGED pos
    /\ UNCHANGED <<omniVars, seen, ifnum, reg, bridgeCount, hostVars, crashes>>

(* StorageVolCreateXML: refused if the volume exists or its pool does not. *)
CreateVol(m) ==
    /\ op[m] = "create"
    /\ IF PoolOf(Kind(m)) \in pools /\ vol[m][Kind(m)] = "absent"
       THEN IF Kind(m) \in Media
            THEN SetVol(m, Kind(m), "partial") /\ Reply(m, "upload") /\ UNCHANGED pos
            ELSE SetVol(m, Kind(m), "full") /\ Reply(m, AfterDisk(m)) /\ NextPos(m)
       ELSE Rejected(m) /\ UNCHANGED <<vol, pos>>
    /\ UNCHANGED <<req, step, saved, vmIfName, seen, ifnum, reg, bridgeCount,
                   dom, nics, taps, pools, crashes>>

Upload(m) ==
    /\ op[m] = "upload"
    /\ SetVol(m, Kind(m), "full")
    /\ Go(m, "path")
    /\ UNCHANGED <<omniVars, memVars, dom, nics, taps, pools, faults, crashes>>

(* Mutant: the error of the upload is dropped. *)
UploadFailsMutant(m) ==
    /\ op[m] = "upload"
    /\ Go(m, "path") /\ Fault
    /\ UNCHANGED <<omniVars, memVars, hostVars, crashes>>

(* The upload fails at any point; the code tries to delete the volume and  *)
(* does not look at how that went.                                         *)
UploadFails(m) ==
    /\ op[m] = "upload"
    /\ \E left \in {"absent", "partial", "full"} : SetVol(m, Kind(m), left)
    /\ Abort(m) /\ Fault
    /\ UNCHANGED <<req, step, saved, vmIfName, memVars, dom, nics, taps, pools, crashes>>

GetPath(m) ==
    /\ op[m] = "path"
    /\ Go(m, "save")
    /\ UNCHANGED <<omniVars, memVars, hostVars, faults, crashes>>

-----------------------------------------------------------------------------
(* createVM and startVM *)

(* The main disk has to be there; if not, or if the lookup fails (see      *)
(* CallFails), the step is tried again later.                              *)
CheckVolume(m) ==
    /\ op[m] = "check"
    /\ IF saved[m] >= provisionVMVolume /\ "data" \in pools /\ vol[m]["main"] # "absent"
       THEN Go(m, "bridge") /\ UNCHANGED <<stage, faults>>
       ELSE Rejected(m)
    /\ UNCHANGED <<req, step, saved, vmIfName, memVars, hostVars, crashes>>

(* The number for this machine's interfaces is read once, before the loop. *)
ReadBridgeCount(m) ==
    /\ op[m] = "bridge"
    /\ ifnum' = [ifnum EXCEPT ![m] = bridgeCount]
    /\ pos' = [pos EXCEPT ![m] = 1]
    /\ Go(m, "nic")
    /\ UNCHANGED <<omniVars, seen, reg, bridgeCount, hostVars, faults, crashes>>

(* BridgeCount = BridgeCount + 1, by several goroutines and without a      *)
(* lock: the read and the write are steps of their own.                    *)
NextInterface(m) ==
    /\ op[m] = "nic"
    /\ \/ /\ pos[m] > Len(Bridged)
          /\ Go(m, "define")
          /\ UNCHANGED <<pos, reg>>
       \/ /\ pos[m] \in DOMAIN Bridged /\ Bridged[pos[m]]
          /\ reg' = [reg EXCEPT ![m] = bridgeCount]
          /\ Go(m, "bump")
          /\ UNCHANGED pos
       \/ /\ pos[m] \in DOMAIN Bridged /\ ~Bridged[pos[m]]
          /\ pos' = [pos EXCEPT ![m] = @ + 1]
          /\ UNCHANGED <<op, reg>>
    /\ UNCHANGED <<omniVars, seen, ifnum, bridgeCount, hostVars, faults, crashes>>

Bump(m) ==
    /\ op[m] = "bump"
    /\ bridgeCount' = reg[m] + 1
    /\ reg' = [reg EXCEPT ![m] = 0]
    /\ pos' = [pos EXCEPT ![m] = @ + 1]
    /\ Go(m, "nic")
    /\ UNCHANGED <<omniVars, seen, ifnum, hostVars, faults, crashes>>

(* Mutant: without the default "omnibr0". *)
TargetsMutant(m) ==
    [i \in DOMAIN Bridged |-> IF \E j \in 1..i : Bridged[j] THEN ifnum[m] ELSE vmIfName[m]]

(* Default(VmIfName, ifname, "omnibr0"): an interface after the first      *)
(* bridged one gets the new name, one before it the name in the spec.      *)
Targets(m) ==
    [i \in DOMAIN Bridged |->
        IF \E j \in 1..i : Bridged[j] THEN ifnum[m]
        ELSE IF vmIfName[m] # NoName THEN vmIfName[m] ELSE 0]

Active == {"running", "shutdown", "paused"}

(* The volumes the domain's XML refers to. *)
Attached == Media \cup Disks

DefineDomain(m) ==
    /\ op[m] = "define"
    /\ dom' = IF dom[m] = "none" THEN [dom EXCEPT ![m] = "shutoff"] ELSE dom
    /\ nics' = [nics EXCEPT ![m] = Targets(m)]
    /\ Reply(m, "boot")
    /\ UNCHANGED <<req, step, saved, vmIfName, memVars, vol, taps, pools, crashes>>

(* A device name is given to one interface at a time on the whole host. *)
DevicesFree(m) ==
    /\ \A i, j \in DOMAIN nics[m] : nics[m][i] = nics[m][j] => i = j
    /\ \A n \in Machines : \A i \in DOMAIN nics[m], j \in DOMAIN taps[n] : nics[m][i] # taps[n][j]

(* libvirt starts a domain whose disks exist and whose target devices do   *)
(* not; it makes the devices and the NVRAM file.                           *)
CanStart(m) ==
    /\ dom[m] = "shutoff"
    /\ \A k \in Attached : vol[m][k] # "absent"
    /\ DevicesFree(m)

PowerOn(m) ==
    /\ dom' = [dom EXCEPT ![m] = "running"]
    /\ taps' = [taps EXCEPT ![m] = nics[m]]
    /\ SetVol(m, "nvram", "full")

(* VM.Create starts what it defined; an active domain is an error here ... *)
BootDomain(m) ==
    /\ op[m] = "boot"
    /\ IF CanStart(m) THEN PowerOn(m) /\ Reply(m, "save")
       ELSE Rejected(m) /\ UNCHANGED <<dom, vol, taps>>
    /\ UNCHANGED <<req, step, saved, vmIfName, memVars, nics, pools, crashes>>

(* Mutant: startVM does not expect a domain that is already running. *)
StartDomainMutant(m) ==
    /\ op[m] = "start"
    /\ IF CanStart(m) THEN PowerOn(m) /\ Reply(m, "save")
       ELSE Rejected(m) /\ UNCHANGED <<dom, vol, taps>>
    /\ UNCHANGED <<req, step, saved, vmIfName, memVars, nics, pools, crashes>>

(* ... and is what startVM wants. *)
StartDomain(m) ==
    /\ op[m] = "start"
    /\ IF CanStart(m) THEN PowerOn(m) /\ Reply(m, "save")
       ELSE /\ IF dom[m] \in Active THEN Go(m, "save") /\ UNCHANGED <<stage, faults>>
               ELSE Rejected(m)
            /\ UNCHANGED <<dom, vol, taps>>
    /\ UNCHANGED <<req, step, saved, vmIfName, memVars, nics, pools, crashes>>

-----------------------------------------------------------------------------
(* Deprovision *)

(* removeVolNVRam.  Without VmNvramName in the spec the name it makes up   *)
(* is that of no volume.                                                   *)
RemoveNvram(m) ==
    /\ op[m] = "nvram"
    /\ IF "nvram" \notin pools
       THEN Rejected(m) /\ UNCHANGED vol
       ELSE IF saved[m] >= createVM /\ vol[m]["nvram"] # "absent"
            THEN SetVol(m, "nvram", "absent") /\ Reply(m, "domain")
            ELSE Go(m, "domain") /\ UNCHANGED <<vol, stage, faults>>
    /\ UNCHANGED <<req, step, saved, vmIfName, memVars, dom, nics, taps, pools, crashes>>

(* After the domain: PoolName is in the spec once provisionVMVolume is. *)
AfterDomain(m) == IF saved[m] >= provisionVMVolume THEN "volume" ELSE "finish"

LookAtDomain(m) ==
    /\ op[m] = "domain"
    /\ seen' = [seen EXCEPT ![m] = dom[m]]
    /\ Go(m, IF dom[m] = "none" THEN AfterDomain(m) ELSE "act")
    /\ pos' = [pos EXCEPT ![m] = 1]
    /\ UNCHANGED <<omniVars, ifnum, reg, bridgeCount, hostVars, faults, crashes>>

(* removeDomain: what it does depends on the state it has seen, what comes *)
(* of it on the state there is.                                            *)
Destroy(m) ==
    /\ op[m] = "act" /\ seen[m] = "running"
    /\ dom' = IF dom[m] \in Active THEN [dom EXCEPT ![m] = "shutoff"] ELSE dom
    /\ taps' = [taps EXCEPT ![m] = <<>>]
    /\ Rejected(m)
    /\ UNCHANGED <<req, step, saved, vmIfName, memVars, vol, nics, pools, crashes>>

(* Mutant: the teardown does not wait for the guest. *)
WaitForShutdownMutant(m) ==
    /\ op[m] = "act" /\ seen[m] = "shutdown"
    /\ Go(m, AfterDomain(m))
    /\ UNCHANGED <<omniVars, memVars, hostVars, faults, crashes>>

WaitForShutdown(m) ==
    /\ op[m] = "act" /\ seen[m] = "shutdown"
    /\ Rejected(m)
    /\ UNCHANGED <<req, step, saved, vmIfName, memVars, hostVars, crashes>>

UnknownState(m) ==
    /\ op[m] = "act" /\ seen[m] = "paused"
    /\ Rejected(m)
    /\ UNCHANGED <<req, step, saved, vmIfName, memVars, hostVars, crashes>>

Undefine(m) ==
    /\ op[m] = "act" /\ seen[m] = "shutoff"
    /\ dom' = [dom EXCEPT ![m] = "none"]
    /\ nics' = [nics EXCEPT ![m] = <<>>]
    /\ SetVol(m, "nvram", "absent")
    /\ Reply(m, AfterDomain(m))
    /\ UNCHANGED <<req, step, saved, vmIfName, memVars, taps, pools, crashes>>

RemovalOrderMutant == <<"main", "iso">> \o ExtraDisks   \* cidata is forgotten
RemovalOrder == <<"main", "iso">> \o ExtraDisks \o <<"cidata">>

(* The step that puts the name of a volume into the spec. *)
RecordedBy(k) ==
    CASE k = "iso" -> provisionISO
      [] k = "main" -> provisionVMVolume
      [] k = "cidata" -> provisionCidata
      [] k = "nvram" -> createVM
      [] OTHER -> provisionAdditionalDisks

RemovedAlreadyMutant(m, k) == FALSE        \* a missing volume is an error
RemovedAlready(m, k) == PoolOf(k) \in pools /\ vol[m][k] = "absent"

Recorded(m, k) == saved[m] >= RecordedBy(k)

AfterVolume(m) == IF pos[m] = Len(RemovalOrder) THEN "finish" ELSE "volume"

(* removeVolMain, removeVolISO, removeVolAdditionalDisks, removeVolCidata: *)
(* a volume that is not in the spec is passed over, and so is one that is  *)
(* no longer there; a pool that is not there is an error.                  *)
RemoveVolume(m) ==
    LET k == RemovalOrder[pos[m]] IN
    /\ op[m] = "volume"
    /\ \/ /\ Recorded(m, k) /\ PoolOf(k) \notin pools
          /\ Rejected(m)
          /\ UNCHANGED <<vol, pos>>
       \/ /\ Recorded(m, k) /\ PoolOf(k) \in pools /\ vol[m][k] # "absent"
          /\ SetVol(m, k, "absent")
          /\ Reply(m, AfterVolume(m))
          /\ pos' = [pos EXCEPT ![m] = @ + 1]
       \/ /\ ~Recorded(m, k) \/ RemovedAlready(m, k)
          /\ Go(m, AfterVolume(m))
          /\ pos' = [pos EXCEPT ![m] = @ + 1]
          /\ UNCHANGED <<vol, stage, faults>>
    /\ UNCHANGED <<req, step, saved, vmIfName, seen, ifnum, reg, bridgeCount,
                   dom, nics, taps, pools, crashes>>

(* Deprovision returned nil: Omni drops the request and the machine. *)
Finish(m) ==
    /\ op[m] = "finish"
    /\ req' = [req EXCEPT ![m] = "gone"]
    /\ Go(m, "none")
    /\ UNCHANGED <<stage, step, saved, vmIfName, memVars, hostVars, faults, crashes>>

-----------------------------------------------------------------------------
(* Guests, and the provider's process *)

GuestChanges(m) ==
    /\ dom[m] = "running"
    /\ \E s \in GuestStates : dom' = [dom EXCEPT ![m] = s]
    /\ UNCHANGED <<omniVars, op, memVars, vol, nics, taps, pools, faults, crashes>>

GuestPowersOff(m) ==
    /\ dom[m] = "shutdown"
    /\ dom' = [dom EXCEPT ![m] = "shutoff"]
    /\ taps' = [taps EXCEPT ![m] = <<>>]
    /\ UNCHANGED <<omniVars, op, memVars, vol, nics, pools, faults, crashes>>

(* The provider restarts: Omni and the host keep their state, the counter  *)
(* starts from zero.                                                       *)
Crash ==
    /\ crashes < MaxCrashes
    /\ crashes' = crashes + 1
    /\ op' = [m \in Machines |-> "none"]
    /\ pos' = [m \in Machines |-> 1]
    /\ seen' = [m \in Machines |-> "none"]
    /\ ifnum' = [m \in Machines |-> 0]
    /\ reg' = [m \in Machines |-> 0]
    /\ bridgeCount' = 0
    /\ UNCHANGED <<omniVars, hostVars, faults>>

-----------------------------------------------------------------------------

Provision(m) ==
    \/ AskAround(m)
    \/ Purge(m) \/ GetPool(m) \/ MakePool(m) \/ Find(m) \/ CreateVol(m)
    \/ Upload(m) \/ GetPath(m)
    \/ CheckVolume(m) \/ ReadBridgeCount(m) \/ NextInterface(m) \/ Bump(m)
    \/ DefineDomain(m) \/ BootDomain(m) \/ StartDomain(m)
    \/ SaveSpec(m) \/ Advance(m)

Deprovision(m) ==
    \/ RemoveNvram(m) \/ LookAtDomain(m)
    \/ Destroy(m) \/ WaitForShutdown(m) \/ UnknownState(m) \/ Undefine(m)
    \/ RemoveVolume(m) \/ Finish(m)

Next ==
    \/ \E m \in Machines :
        \/ Reconcile(m) \/ ReconcileTeardown(m) \/ Provision(m) \/ Deprovision(m)
        \/ CallFails(m) \/ UploadFails(m)
        \/ Rerun(m) \/ RequestTeardown(m)
        \/ GuestChanges(m) \/ GuestPowersOff(m)
    \/ Crash

(* Every request that wants work gets it (there are at most as many as the *)
(* controller's workers), a reconcile goes on, a guest that is shutting    *)
(* down gets there.  Nothing makes a failed request run again.             *)
Fairness ==
    \A m \in Machines :
        /\ WF_vars(Reconcile(m) \/ ReconcileTeardown(m))
        /\ WF_vars(Provision(m) \/ Deprovision(m))
        /\ WF_vars(GuestPowersOff(m))

Spec == Init /\ [][Next]_vars
FairSpec == Spec /\ Fairness
-----------------------------------------------------------------------------
(* Correctness *)

Ops == {"none", "lookup", "schematic", "acquire", "purge", "pool", "makePool", "create",
        "upload", "path", "find", "check", "bridge", "nic", "bump", "define", "boot",
        "start", "save", "advance", "nvram", "domain", "act", "volume", "finish"}

RequestsType ==
    /\ req \in [Machines -> {"running", "tearingDown", "gone"}]
    /\ stage \in [Machines -> {"provisioning", "provisioned", "failed"}]
    /\ step \in [Machines -> generateUUID..allDone]
    /\ saved \in [Machines -> 0..startVM]
    /\ vmIfName \in [Machines -> Nat \cup {NoName}]

JobsType ==
    /\ op \in [Machines -> Ops]
    /\ pos \in [Machines -> Nat \ {0}]
    /\ seen \in [Machines -> States]
    /\ ifnum \in [Machines -> Nat]
    /\ reg \in [Machines -> Nat]
    /\ bridgeCount \in Nat

HostType ==
    /\ vol \in [Machines -> [Kinds -> {"absent", "partial", "full"}]]
    /\ dom \in [Machines -> States]
    /\ nics \in [Machines -> Seq(Nat)]
    /\ taps \in [Machines -> Seq(Nat)]
    /\ pools \in SUBSET Pools

TypeOK ==
    /\ RequestsType /\ JobsType /\ HostType
    /\ faults \in 0..MaxFaults /\ crashes \in 0..MaxCrashes

(* A domain's boot media are complete and its disks exist, from the moment *)
(* it is defined until it is undefined: no failing call, lost reply or     *)
(* restart makes createVM run on a half-uploaded ISO, and no step or       *)
(* teardown takes a volume from under a domain.                            *)
AttachedComplete ==
    \A m \in Machines : dom[m] # "none" => \A k \in Attached : vol[m][k] = "full"

(* A volume whose step is behind the recorded one stays on the host until  *)
(* the request is torn down: a later step may count on it.                 *)
FinishedStepsHold ==
    \A m \in Machines : req[m] = "running" =>
        \A k \in Attached : step[m] > RecordedBy(k) => vol[m][k] = "full"

(* When Omni drops a request, the host has no domain and no NVRAM of it    *)
(* and, if the spec got as far as the pool's name, no volume of the spec.  *)
TeardownClean ==
    \A m \in Machines : req[m] = "gone" =>
        /\ dom[m] = "none" /\ vol[m]["nvram"] = "absent"
        /\ saved[m] >= provisionVMVolume =>
               \A k \in Attached : Recorded(m, k) => vol[m][k] = "absent"

(* A teardown leaves behind no more than the volumes of the one step whose *)
(* results it kept from being saved, and, while the pool's name is not in  *)
(* the spec, those of the steps before it: nothing an earlier failure or   *)
(* restart left on the host is forgotten on the way.                       *)
LeftByOneStep ==
    \A m \in Machines : req[m] = "gone" =>
        \A k \in Kinds : vol[m][k] # "absent" =>
            \/ RecordedBy(k) = saved[m] + 1
            \/ Recorded(m, k) /\ saved[m] < provisionVMVolume

(* No request ends up failed: every call the provider makes, in the order  *)
(* it makes them, is one the host accepts.  That holds of a request alone  *)
(* on a host with all pools, if no call fails, the provider is not         *)
(* restarted and its interfaces get names of their own.                    *)
NeverFailed == \A m \in Machines : stage[m] # "failed"

(* A teardown ends. *)
TeardownEnds == \A m \in Machines : req[m] = "tearingDown" ~> req[m] = "gone"

(* A teardown ends, or its guest is stuck in a state removeDomain does not *)
(* know, or the host has no pool "nvram" for removeVolNVRam to look into:  *)
(* nothing else holds it up, it gets past every failing call, lost reply   *)
(* and restart and past whatever provisioning left behind.                 *)
TeardownEndsOrIsStuck ==
    \A m \in Machines :
        req[m] = "tearingDown" ~>
            req[m] = "gone" \/ [](dom[m] = "paused") \/ "nvram" \notin pools

(* Provisioning ends one way or another. *)
ProvisioningEnds ==
    \A m \in Machines :
        stage[m] = "provisioning" ~> stage[m] # "provisioning" \/ req[m] # "running"
-----------------------------------------------------------------------------
(* What is promised for a request, whatever the steps: MachineLifecycle.  A *)
(* request is being removed from the moment no provisioning call of it is  *)
(* under way any more.                                                     *)

TeardownOps == {"nvram", "domain", "act", "volume", "finish"}

Life(m) ==
    IF req[m] = "gone" THEN "gone"
    ELSE IF req[m] = "tearingDown" /\ op[m] \in TeardownOps \cup {"none"} THEN "removing"
    ELSE IF stage[m] = "provisioning" THEN "building"
    ELSE IF stage[m] = "provisioned" THEN "ready" ELSE "failed"

Power(m) == IF dom[m] \in Active THEN "on" ELSE IF dom[m] = "shutoff" THEN "off" ELSE "none"

Whole(m) == {k \in Kinds : vol[m][k] = "full"}

Lifecycle == INSTANCE MachineLifecycle WITH
    Parts <- Kinds, Needed <- Attached, Firmware <- "nvram",
    life <- [m \in Machines |-> Life(m)],
    machine <- [m \in Machines |-> Power(m)],
    parts <- [m \in Machines |-> Whole(m)]

(* The steps, calls, failures and restarts implement the abstract life of  *)
(* a request: no domain without all its media and disks, none powered on   *)
(* by a request that is ready, failed or being removed, nothing taken from *)
(* the host before the domain is gone.                                     *)
LifecycleSpec == Lifecycle!Spec
=============================================================================
