------------------------- MODULE ProvisionerProofs -------------------------
(***************************************************************************)
(* Theorems about the life of machine requests, for any set of requests,   *)
(* any additional disks and interfaces, any host, and any number of        *)
(* failing calls, lost replies and restarts.                               *)
(***************************************************************************)
EXTENDS Provisioner, TLAPS

USE DEF generateUUID, createSchematic, provisionISO, provisionVMVolume,
        provisionAdditionalDisks, provisionCidata, createVM, startVM, allDone

-----------------------------------------------------------------------------
(* Which steps a call belongs to.  Provisioning calls are made for steps   *)
(* that are not done, and Deprovision's only in a teardown.                *)

MediumOps == {"purge", "pool", "makePool", "upload"}
DomainOps == {"check", "bridge", "nic", "bump", "define", "boot"}
StepOps   == {"lookup", "schematic", "acquire", "create", "path", "find", "start",
              "save", "advance"} \cup MediumOps \cup DomainOps
RemoveOps == {"nvram", "domain", "act", "volume", "finish"}

StepsOf(o) ==
    CASE o = "lookup" -> {generateUUID}
      [] o = "schematic" -> {createSchematic}
      [] o = "acquire" -> {provisionISO}
      [] o \in MediumOps -> {provisionISO, provisionCidata}
      [] o = "find" -> {provisionVMVolume, provisionAdditionalDisks}
      [] o = "create" -> provisionISO..provisionCidata
      [] o = "path" -> {provisionISO, provisionVMVolume, provisionCidata}
      [] o \in DomainOps -> {createVM}
      [] o = "start" -> {startVM}
      [] OTHER -> generateUUID..startVM

OpInv ==
    \A m \in Machines :
        /\ op[m] \in StepOps => step[m] \in StepsOf(op[m])
        /\ op[m] \in RemoveOps => req[m] = "tearingDown"

(* How a call can end: with the next call, or with an error. *)
Outcome(m, o) ==
    /\ op' \in {[op EXCEPT ![m] = o], [op EXCEPT ![m] = "none"]}
    /\ stage' \in {stage, [stage EXCEPT ![m] = "failed"]}
    /\ faults' \in {faults, faults + 1} /\ faults' <= MaxFaults

LEMMA Outcomes ==
    ASSUME TypeOK, NEW m \in Machines, NEW o
    PROVE  /\ Reply(m, o) => Outcome(m, o)
           /\ Rejected(m) => Outcome(m, o)
           /\ (Abort(m) /\ Fault) => Outcome(m, o)
           /\ (Go(m, o) /\ UNCHANGED <<stage, faults>>) => Outcome(m, o)
           /\ (Go(m, o) /\ Fault /\ UNCHANGED stage) => Outcome(m, o)
  BY BoundsAssumption DEF TypeOK, Reply, Rejected, Abort, Fault, Go, Outcome

(* The next call of each step of a reconcile. *)
LEMMA FirstOps ==
    ASSUME NEW s \in generateUUID..startVM
    PROVE  FirstOp(s) \in StepOps /\ s \in StepsOf(FirstOp(s))
  BY DEF FirstOp, StepOps, MediumOps, DomainOps, StepsOf

(* The loop over the additional disks stays within them. *)
PosInv ==
    \A m \in Machines :
        op[m] \in {"find", "create"} /\ step[m] = provisionAdditionalDisks =>
            pos[m] \in 1..Len(ExtraDisks)

(* The kind of volume a step is about. *)
LEMMA KindOfStep ==
    ASSUME PosInv, NEW m \in Machines, op[m] \in MediumOps \cup {"find", "create"},
           step[m] \in StepsOf(op[m])
    PROVE  /\ Kind(m) \in Media <=> step[m] \in {provisionISO, provisionCidata}
           /\ step[m] = provisionISO => Kind(m) = "iso"
           /\ step[m] = provisionCidata => Kind(m) = "cidata"
           /\ step[m] = provisionVMVolume => Kind(m) = "main"
           /\ step[m] = provisionAdditionalDisks => Kind(m) = ExtraDisks[pos[m]]
<1>1. step[m] \in provisionISO..provisionCidata
  BY DEF StepsOf, MediumOps, DomainOps
<1>2. ASSUME step[m] = provisionAdditionalDisks
      PROVE  Kind(m) = ExtraDisks[pos[m]] /\ Kind(m) \notin Media
  <2>1. op[m] \in {"find", "create"}
    BY <1>2 DEF StepsOf, MediumOps, DomainOps
  <2>2. pos[m] \in DOMAIN ExtraDisks
    BY <1>2, <2>1, ExtraDisksAssumption DEF PosInv
  <2>3. Kind(m) = ExtraDisks[pos[m]]
    BY <1>2 DEF Kind
  <2>4. QED
    BY <2>2, <2>3, ExtraDisksAssumption DEF Extras, Media
<1>3. QED
  BY <1>1, <1>2 DEF Kind, Media

(* The call that comes after one of them belongs to the same step, or to   *)
(* the same teardown.                                                      *)
Proceeds(m) ==
    \E o \in Ops :
        /\ Outcome(m, o)
        /\ o \in StepOps => step[m] \in StepsOf(o)
        /\ o \in RemoveOps => req[m] = "tearingDown"

LEMMA StepProceeds ==
    ASSUME TypeOK, OpInv, PosInv, NEW m \in Machines, Provision(m), ~Advance(m)
    PROVE  Proceeds(m) /\ UNCHANGED <<req, step, crashes>>
<1> USE DEF Ops, StepOps, RemoveOps, MediumOps, DomainOps, StepsOf, OpInv
<1>1. step[m] \in generateUUID..allDone /\ op \in [Machines -> Ops]
  BY DEF TypeOK, RequestsType, JobsType
<1>2. CASE AskAround(m)
  <2>1. Outcome(m, NextOp[op[m]]) /\ UNCHANGED <<req, step, crashes>>
    BY <1>2, Outcomes DEF AskAround, omniVars
  <2>2. \/ op[m] = "lookup" /\ NextOp[op[m]] = "save"
        \/ op[m] = "schematic" /\ NextOp[op[m]] = "save"
        \/ op[m] = "acquire" /\ NextOp[op[m]] = "purge"
    BY <1>2 DEF AskAround, NextOp
  <2>3. QED
    BY <1>1, <2>1, <2>2 DEF Proceeds
<1>3. CASE Purge(m)
  <2>1. Outcome(m, "pool") /\ UNCHANGED <<req, step, crashes>> /\ op[m] = "purge"
    BY <1>3, Outcomes DEF Purge
  <2>2. QED
    BY <1>1, <2>1 DEF Proceeds
<1>4. CASE GetPool(m) \/ MakePool(m)
  <2>1. /\ \/ Outcome(m, "create")
           \/ Outcome(m, "makePool")
        /\ UNCHANGED <<req, step, crashes>> /\ op[m] \in {"pool", "makePool"}
    BY <1>4, Outcomes DEF GetPool, MakePool, omniVars
  <2>2. QED
    BY <1>1, <2>1 DEF Proceeds
<1>5. CASE Find(m)
  <2>1. /\ Outcome(m, "create") \/ Outcome(m, AfterDisk(m))
        /\ UNCHANGED <<req, step, crashes>> /\ op[m] = "find"
    BY <1>5, Outcomes DEF Find, omniVars
  <2>2. QED
    BY <1>1, <2>1 DEF Proceeds, AfterDisk
<1>6. CASE CreateVol(m)
  <2>1. /\ \/ Outcome(m, "upload") /\ Kind(m) \in Media
           \/ Outcome(m, AfterDisk(m)) /\ Kind(m) \notin Media
           \/ Outcome(m, "none")
        /\ UNCHANGED <<req, step, crashes>> /\ op[m] = "create"
    BY <1>6, Outcomes DEF CreateVol
  <2>2. Kind(m) \in Media <=> step[m] \in {provisionISO, provisionCidata}
    BY <1>1, <2>1, KindOfStep
  <2>3. QED
    BY <1>1, <2>1, <2>2 DEF Proceeds, AfterDisk
<1>7. CASE Upload(m) \/ GetPath(m)
  <2>1. /\ \/ Outcome(m, "path") /\ op[m] = "upload"
           \/ Outcome(m, "save") /\ op[m] = "path"
        /\ UNCHANGED <<req, step, crashes>>
    BY <1>7, Outcomes DEF Upload, GetPath, omniVars
  <2>2. QED
    BY <1>1, <2>1 DEF Proceeds
<1>8. CASE CheckVolume(m) \/ ReadBridgeCount(m) \/ Bump(m)
  <2>1. /\ Outcome(m, "bridge") \/ Outcome(m, "nic")
        /\ op[m] \in {"check", "bridge", "bump"}
        /\ UNCHANGED <<req, step, crashes>>
    BY <1>8, Outcomes DEF CheckVolume, ReadBridgeCount, Bump, omniVars
  <2>2. QED
    BY <1>1, <2>1 DEF Proceeds
<1>9. CASE NextInterface(m)
  <2>1. op[m] = "nic" /\ UNCHANGED <<req, step, crashes, stage, faults>>
    BY <1>9 DEF NextInterface, omniVars
  <2>2. op' = op => Go(m, "nic")
    BY <1>1, <2>1 DEF Go
  <2>3. Outcome(m, "define") \/ Outcome(m, "bump") \/ Outcome(m, "nic")
    BY <1>9, <2>1, <2>2, Outcomes DEF NextInterface
  <2>4. QED
    BY <1>1, <2>1, <2>3 DEF Proceeds
<1>10. CASE DefineDomain(m) \/ BootDomain(m) \/ StartDomain(m)
  <2>1. /\ \/ Outcome(m, "boot") /\ op[m] = "define"
           \/ Outcome(m, "save")
        /\ op[m] \in {"define", "boot", "start"}
        /\ UNCHANGED <<req, step, crashes>>
    BY <1>10, Outcomes DEF DefineDomain, BootDomain, StartDomain
  <2>2. QED
    BY <1>1, <2>1 DEF Proceeds
<1>11. CASE SaveSpec(m)
  <2>1. Outcome(m, "advance") /\ op[m] = "save" /\ UNCHANGED <<req, step, crashes>>
    BY <1>11, Outcomes DEF SaveSpec
  <2>2. QED
    BY <1>1, <2>1 DEF Proceeds
<1>12. QED
  BY <1>2, <1>3, <1>4, <1>5, <1>6, <1>7, <1>8, <1>9, <1>10, <1>11 DEF Provision

LEMMA RemoveProceeds ==
    ASSUME TypeOK, OpInv, NEW m \in Machines, Deprovision(m), ~Finish(m)
    PROVE  Proceeds(m) /\ UNCHANGED <<req, step, crashes>>
<1> USE DEF Ops, StepOps, RemoveOps, MediumOps, DomainOps
<1>1. op[m] \in RemoveOps => req[m] = "tearingDown"
  BY DEF OpInv
<1>2. CASE RemoveNvram(m)
  <2>1. Outcome(m, "domain") /\ op[m] = "nvram" /\ UNCHANGED <<req, step, crashes>>
    BY <1>2, Outcomes DEF RemoveNvram
  <2>2. QED
    BY <1>1, <2>1 DEF Proceeds
<1>3. CASE LookAtDomain(m)
  <2>1. /\ \/ Outcome(m, AfterDomain(m))
           \/ Outcome(m, "act")
        /\ op[m] = "domain" /\ UNCHANGED <<req, step, crashes>>
    BY <1>3, Outcomes DEF LookAtDomain, omniVars
  <2>2. QED
    BY <1>1, <2>1 DEF Proceeds, AfterDomain
<1>4. CASE Destroy(m) \/ WaitForShutdown(m) \/ UnknownState(m) \/ Undefine(m)
  <2>1. Outcome(m, AfterDomain(m)) /\ op[m] = "act" /\ UNCHANGED <<req, step, crashes>>
    BY <1>4, Outcomes DEF Destroy, WaitForShutdown, UnknownState, Undefine
  <2>2. QED
    BY <1>1, <2>1 DEF Proceeds, AfterDomain
<1>5. CASE RemoveVolume(m)
  <2>1. Outcome(m, AfterVolume(m)) /\ op[m] = "volume" /\ UNCHANGED <<req, step, crashes>>
    BY <1>5, Outcomes DEF RemoveVolume
  <2>2. QED
    BY <1>1, <2>1 DEF Proceeds, AfterVolume
<1>6. QED
  BY <1>2, <1>3, <1>4, <1>5 DEF Deprovision

-----------------------------------------------------------------------------
(* Control: which call comes next, for which step, in which stage *)

ControlType ==
    /\ req \in [Machines -> {"running", "tearingDown", "gone"}]
    /\ stage \in [Machines -> {"provisioning", "provisioned", "failed"}]
    /\ step \in [Machines -> generateUUID..allDone]
    /\ op \in [Machines -> Ops]
    /\ faults \in 0..MaxFaults /\ crashes \in 0..MaxCrashes

LEMMA ProceedsControl ==
    ASSUME TypeOK, OpInv, NEW m \in Machines, Proceeds(m),
           UNCHANGED <<req, step, crashes>>
    PROVE  ControlType' /\ OpInv'
<1>1. PICK o \in Ops :
        /\ Outcome(m, o)
        /\ o \in StepOps => step[m] \in StepsOf(o)
        /\ o \in RemoveOps => req[m] = "tearingDown"
  BY DEF Proceeds
<1>2. "none" \in Ops /\ "none" \notin StepOps /\ "none" \notin RemoveOps
  BY DEF Ops, StepOps, RemoveOps, MediumOps, DomainOps
<1>3. ControlType'
  BY <1>1, <1>2, BoundsAssumption
     DEF Outcome, ControlType, TypeOK, RequestsType, JobsType
<1>4. ASSUME NEW n \in Machines
      PROVE  /\ op'[n] \in StepOps => step'[n] \in StepsOf(op'[n])
             /\ op'[n] \in RemoveOps => req'[n] = "tearingDown"
  <2>1. CASE n = m
    BY <1>1, <1>2, <2>1 DEF Outcome, TypeOK, JobsType
  <2>2. CASE n # m
    <3>1. op'[n] = op[n]
      BY <1>1, <2>2 DEF Outcome, TypeOK, JobsType
    <3>2. QED
      BY <3>1 DEF OpInv
  <2>3. QED
    BY <2>1, <2>2
<1>5. QED
  BY <1>3, <1>4 DEF OpInv

(* What a step of a machine that sets its call to one of its own, or to    *)
(* none, and leaves the other machines alone does to OpInv.                *)
LEMMA OpFrame ==
    ASSUME OpInv, op \in [Machines -> Ops], NEW m \in Machines, NEW o,
           op' = [op EXCEPT ![m] = o],
           \A n \in Machines \ {m} : step'[n] = step[n] /\ req'[n] = req[n],
           o \in StepOps => step'[m] \in StepsOf(o),
           o \in RemoveOps => req'[m] = "tearingDown"
    PROVE  OpInv'
<1>1. ASSUME NEW n \in Machines
      PROVE  /\ op'[n] \in StepOps => step'[n] \in StepsOf(op'[n])
             /\ op'[n] \in RemoveOps => req'[n] = "tearingDown"
  <2>1. CASE n = m
    BY <2>1
  <2>2. CASE n # m
    <3>1. op'[n] = op[n] /\ step'[n] = step[n] /\ req'[n] = req[n]
      BY <2>2
    <3>2. QED
      BY <3>1 DEF OpInv
  <2>3. QED
    BY <2>1, <2>2
<1>2. QED
  BY <1>1 DEF OpInv

LEMMA NextControl ==
    ASSUME TypeOK, OpInv, PosInv, Next
    PROVE  ControlType' /\ OpInv'
<1>0. /\ ControlType /\ op \in [Machines -> Ops]
      /\ "none" \in Ops \ (StepOps \cup RemoveOps) /\ StepOps \subseteq Ops
      /\ "nvram" \in Ops \ StepOps
  BY DEF ControlType, TypeOK, RequestsType, JobsType, Ops, StepOps, RemoveOps,
         MediumOps, DomainOps
<1>1. ASSUME NEW m \in Machines, Reconcile(m)
      PROVE  ControlType' /\ OpInv'
  <2>1. /\ op' = [op EXCEPT ![m] = FirstOp(step[m])]
        /\ UNCHANGED <<req, stage, step, faults, crashes>>
    BY <1>1 DEF Reconcile, Begin, Go, omniVars
  <2>2. \/ step[m] = allDone /\ FirstOp(step[m]) = "none"
        \/ FirstOp(step[m]) \in StepOps /\ step[m] \in StepsOf(FirstOp(step[m]))
    <3>1. step[m] = allDone \/ step[m] \in generateUUID..startVM
      BY DEF TypeOK, RequestsType
    <3>2. step[m] = allDone => FirstOp(step[m]) = "none"
      BY DEF FirstOp
    <3>3. QED
      BY <3>1, <3>2, FirstOps
  <2>3. OpInv'
    <3>1. FirstOp(step[m]) \notin RemoveOps
      BY <2>2 DEF StepOps, RemoveOps, MediumOps, DomainOps
    <3>2. QED
      BY <1>0, <2>1, <2>2, <3>1, OpFrame
  <2>4. ControlType'
    BY <1>0, <2>1, <2>2 DEF ControlType
  <2>5. QED
    BY <2>3, <2>4
<1>2. ASSUME NEW m \in Machines, ReconcileTeardown(m)
      PROVE  ControlType' /\ OpInv'
  <2>1. /\ op' = [op EXCEPT ![m] = "nvram"] /\ req[m] = "tearingDown"
        /\ UNCHANGED <<req, stage, step, faults, crashes>>
    BY <1>2 DEF ReconcileTeardown, Begin, Go, omniVars
  <2>2. OpInv'
    BY <1>0, <2>1, OpFrame
  <2>3. QED
    BY <1>0, <2>1, <2>2 DEF ControlType
<1>3. ASSUME NEW m \in Machines, Provision(m), ~Advance(m)
      PROVE  ControlType' /\ OpInv'
  BY <1>3, StepProceeds, ProceedsControl
<1>4. ASSUME NEW m \in Machines, Advance(m)
      PROVE  ControlType' /\ OpInv'
  <2>1. step[m] \in generateUUID..startVM
    BY <1>0, <1>4 DEF Advance, OpInv, StepOps, StepsOf, MediumOps, DomainOps
  <2>2. /\ step' = [step EXCEPT ![m] = step[m] + 1] /\ UNCHANGED <<req, crashes>>
        /\ step'[m] = step[m] + 1
    BY <1>0, <1>4 DEF Advance, ControlType
  <2>3. PICK o \in {"none", FirstOp(step[m] + 1)} :
          /\ op' = [op EXCEPT ![m] = o]
          /\ o # "none" => step[m] # startVM
    BY <1>4 DEF Advance, Reply, Abort, Go
  <2>4. o # "none" => o \in StepOps /\ o \notin RemoveOps /\ step[m] + 1 \in StepsOf(o)
    <3>1. step[m] # startVM => step[m] + 1 \in generateUUID..startVM
      BY <2>1
    <3>2. StepOps \cap RemoveOps = {}
      BY DEF StepOps, RemoveOps, MediumOps, DomainOps
    <3>3. QED
      BY <2>3, <3>1, <3>2, FirstOps
  <2>5. OpInv'
    <3>1. \A n \in Machines \ {m} : step'[n] = step[n] /\ req'[n] = req[n]
      BY <1>0, <2>2 DEF ControlType
    <3>2. /\ o \in StepOps => step'[m] \in StepsOf(o)
          /\ o \notin RemoveOps
      BY <1>0, <2>2, <2>4
    <3>3. QED
      BY <1>0, <2>3, <3>1, <3>2, OpFrame
  <2>6. /\ stage' \in [Machines -> {"provisioning", "provisioned", "failed"}]
        /\ faults' \in 0..MaxFaults
    BY <1>0, <1>4, BoundsAssumption DEF Advance, Reply, Abort, Fault, ControlType
  <2>7. step' \in [Machines -> generateUUID..allDone] /\ op' \in [Machines -> Ops]
    BY <1>0, <2>1, <2>2, <2>3, <2>4 DEF ControlType
  <2>8. QED
    BY <1>0, <2>2, <2>5, <2>6, <2>7 DEF ControlType
<1>5. ASSUME NEW m \in Machines, Deprovision(m), ~Finish(m)
      PROVE  ControlType' /\ OpInv'
  BY <1>5, RemoveProceeds, ProceedsControl
<1>6. ASSUME NEW m \in Machines, Finish(m)
      PROVE  ControlType' /\ OpInv'
  <2>1. /\ op' = [op EXCEPT ![m] = "none"] /\ req' = [req EXCEPT ![m] = "gone"]
        /\ UNCHANGED <<stage, step, faults, crashes>>
    BY <1>6 DEF Finish, Go
  <2>2. \A n \in Machines \ {m} : step'[n] = step[n] /\ req'[n] = req[n]
    BY <1>0, <2>1 DEF ControlType
  <2>3. OpInv'
    BY <1>0, <2>1, <2>2, OpFrame
  <2>4. QED
    BY <1>0, <2>1, <2>3 DEF ControlType
<1>7. ASSUME NEW m \in Machines, CallFails(m) \/ UploadFails(m)
      PROVE  ControlType' /\ OpInv'
  <2>1. Abort(m) /\ Fault /\ UNCHANGED <<req, step, crashes>>
    BY <1>7 DEF CallFails, UploadFails
  <2>2. Proceeds(m)
    <3>1. Outcome(m, "none")
      BY <2>1, Outcomes
    <3>2. QED
      BY <1>0, <3>1 DEF Proceeds
  <2>3. QED
    BY <2>1, <2>2, ProceedsControl
<1>8. ASSUME NEW m \in Machines, Rerun(m)
      PROVE  ControlType' /\ OpInv'
  BY <1>0, <1>8, BoundsAssumption DEF Rerun, Fault, ControlType, OpInv
<1>9. ASSUME NEW m \in Machines, RequestTeardown(m)
      PROVE  ControlType' /\ OpInv'
  BY <1>0, <1>9 DEF RequestTeardown, ControlType, OpInv
<1>10. ASSUME NEW m \in Machines, GuestChanges(m) \/ GuestPowersOff(m)
       PROVE  ControlType' /\ OpInv'
  BY <1>0, <1>10 DEF GuestChanges, GuestPowersOff, omniVars, ControlType, OpInv
<1>11. ASSUME Crash
       PROVE  ControlType' /\ OpInv'
  BY <1>0, <1>11, BoundsAssumption DEF Crash, omniVars, ControlType, OpInv
<1>12. QED
  BY <1>1, <1>2, <1>3, <1>4, <1>5, <1>6, <1>7, <1>8, <1>9, <1>10, <1>11
     DEF Next, Deprovision, Provision

-----------------------------------------------------------------------------
(* The types of the rest *)

ProgressType ==
    /\ saved \in [Machines -> 0..startVM]
    /\ vmIfName \in [Machines -> Nat \cup {NoName}]
    /\ pos \in [Machines -> Nat \ {0}]
    /\ seen \in [Machines -> States]
    /\ ifnum \in [Machines -> Nat]
    /\ reg \in [Machines -> Nat]
    /\ bridgeCount \in Nat

LEMMA NextProgress ==
    ASSUME TypeOK, OpInv, Next
    PROVE  ProgressType'
<1>0. ProgressType /\ dom \in [Machines -> States]
  BY DEF ProgressType, TypeOK, RequestsType, JobsType, HostType
<1>1. CASE UNCHANGED <<saved, vmIfName, memVars>>
  BY <1>0, <1>1 DEF ProgressType, memVars
<1>2. ASSUME NEW m \in Machines, Reconcile(m) \/ ReconcileTeardown(m)
      PROVE  ProgressType'
  BY <1>0, <1>2 DEF Reconcile, ReconcileTeardown, Begin, omniVars, ProgressType
<1>3. ASSUME NEW m \in Machines, Provision(m)
      PROVE  ProgressType'
  <2>1. CASE AskAround(m) \/ Purge(m) \/ GetPool(m) \/ MakePool(m)
             \/ Upload(m) \/ GetPath(m)
    BY <1>1, <2>1 DEF AskAround, Purge, GetPool, MakePool, Upload, GetPath, omniVars
  <2>2. CASE CheckVolume(m) \/ DefineDomain(m) \/ BootDomain(m) \/ StartDomain(m)
    BY <1>1, <2>2 DEF CheckVolume, DefineDomain, BootDomain, StartDomain
  <2>3. CASE Find(m) \/ CreateVol(m)
    <3>1. /\ UNCHANGED <<saved, vmIfName, seen, ifnum, reg, bridgeCount>>
          /\ NextPos(m) \/ UNCHANGED pos
      BY <2>3 DEF Find, CreateVol, omniVars
    <3>2. QED
      BY <1>0, <3>1 DEF NextPos, ProgressType
  <2>4. CASE ReadBridgeCount(m)
    BY <1>0, <2>4 DEF ReadBridgeCount, omniVars, ProgressType
  <2>5. CASE NextInterface(m)
    <3>1. /\ UNCHANGED <<saved, vmIfName, seen, ifnum, bridgeCount>>
          /\ UNCHANGED pos \/ pos' = [pos EXCEPT ![m] = @ + 1]
          /\ UNCHANGED reg \/ reg' = [reg EXCEPT ![m] = bridgeCount]
      BY <2>5 DEF NextInterface, omniVars
    <3>2. QED
      BY <1>0, <3>1 DEF ProgressType
  <2>6. CASE Bump(m)
    BY <1>0, <2>6 DEF Bump, omniVars, ProgressType
  <2>7. CASE SaveSpec(m)
    <3>1. step[m] \in generateUUID..startVM
      BY <2>7 DEF SaveSpec, OpInv, StepOps, StepsOf, MediumOps, DomainOps
    <3>2. /\ UNCHANGED <<pos, seen, ifnum, reg, bridgeCount>>
          /\ saved' = [saved EXCEPT ![m] = step[m]]
          /\ UNCHANGED vmIfName \/ vmIfName' = [vmIfName EXCEPT ![m] = ifnum[m]]
      BY <2>7 DEF SaveSpec, memVars
    <3>3. QED
      BY <1>0, <3>1, <3>2 DEF ProgressType
  <2>8. CASE Advance(m)
    BY <1>0, <2>8 DEF Advance, ProgressType
  <2>9. QED
    BY <1>3, <2>1, <2>2, <2>3, <2>4, <2>5, <2>6, <2>7, <2>8 DEF Provision
<1>4. ASSUME NEW m \in Machines, Deprovision(m)
      PROVE  ProgressType'
  <2>1. CASE RemoveNvram(m) \/ Destroy(m) \/ WaitForShutdown(m) \/ UnknownState(m)
             \/ Undefine(m) \/ Finish(m)
    BY <1>1, <2>1
       DEF RemoveNvram, Destroy, WaitForShutdown, UnknownState, Undefine, Finish
  <2>2. CASE LookAtDomain(m)
    BY <1>0, <2>2 DEF LookAtDomain, omniVars, ProgressType
  <2>3. CASE RemoveVolume(m)
    <3>1. /\ UNCHANGED <<saved, vmIfName, seen, ifnum, reg, bridgeCount>>
          /\ UNCHANGED pos \/ pos' = [pos EXCEPT ![m] = @ + 1]
      BY <2>3 DEF RemoveVolume
    <3>2. QED
      BY <1>0, <3>1 DEF ProgressType
  <2>4. QED
    BY <1>4, <2>1, <2>2, <2>3 DEF Deprovision
<1>5. ASSUME NEW m \in Machines,
             \/ CallFails(m) \/ UploadFails(m) \/ Rerun(m) \/ RequestTeardown(m)
             \/ GuestChanges(m) \/ GuestPowersOff(m)
      PROVE  ProgressType'
  BY <1>1, <1>5 DEF CallFails, UploadFails, Rerun, RequestTeardown, GuestChanges,
                    GuestPowersOff, omniVars
<1>6. CASE Crash
  BY <1>0, <1>6 DEF Crash, omniVars, ProgressType, States
<1>7. QED
  BY <1>2, <1>3, <1>4, <1>5, <1>6 DEF Next

LEMMA TargetsType ==
    ASSUME TypeOK, NEW m \in Machines
    PROVE  Targets(m) \in Seq(Nat)
<1>1. DOMAIN Bridged = 1..Len(Bridged) /\ Len(Bridged) \in Nat
  BY BridgedAssumption
<1>2. ifnum[m] \in Nat /\ vmIfName[m] \in Nat \cup {NoName}
  BY DEF TypeOK, RequestsType, JobsType
<1>3. QED
  BY <1>1, <1>2 DEF Targets

LEMMA NextHost ==
    ASSUME TypeOK, Next
    PROVE  HostType'
<1>0. HostType
  BY DEF TypeOK
<1>1. CASE UNCHANGED hostVars
  BY <1>0, <1>1 DEF HostType, hostVars
<1>2. ASSUME NEW m \in Machines, NEW k, NEW state \in {"absent", "partial", "full"},
             SetVol(m, k, state)
      PROVE  vol' \in [Machines -> [Kinds -> {"absent", "partial", "full"}]]
  BY <1>0, <1>2 DEF SetVol, HostType
<1>3. ASSUME NEW m \in Machines, Provision(m)
      PROVE  HostType'
  <2>1. CASE AskAround(m) \/ GetPool(m) \/ Find(m) \/ GetPath(m) \/ CheckVolume(m)
             \/ ReadBridgeCount(m) \/ NextInterface(m) \/ Bump(m) \/ SaveSpec(m)
             \/ Advance(m) \/ MakePool(m)
    BY <1>1, <2>1 DEF AskAround, GetPool, Find, GetPath, CheckVolume,
       ReadBridgeCount, NextInterface, Bump, SaveSpec, Advance, MakePool
  <2>2. CASE Purge(m) \/ CreateVol(m) \/ Upload(m)
    <3>1. /\ UNCHANGED <<dom, nics, taps, pools>>
          /\ \/ UNCHANGED vol
             \/ \E state \in {"absent", "partial", "full"} : SetVol(m, Kind(m), state)
      BY <2>2 DEF Purge, CreateVol, Upload
    <3>2. QED
      BY <1>0, <1>2, <3>1 DEF HostType
  <2>3. CASE DefineDomain(m)
    <3>1. UNCHANGED <<vol, taps, pools>> /\ nics' = [nics EXCEPT ![m] = Targets(m)]
      BY <2>3 DEF DefineDomain
    <3>2. dom' \in [Machines -> States]
      BY <1>0, <2>3 DEF DefineDomain, HostType, States
    <3>3. QED
      BY <1>0, <3>1, <3>2, TargetsType DEF HostType
  <2>4. CASE BootDomain(m) \/ StartDomain(m)
    <3>1. UNCHANGED <<nics, pools>> /\ (PowerOn(m) \/ UNCHANGED <<dom, vol, taps>>)
      BY <2>4 DEF BootDomain, StartDomain
    <3>2. QED
      BY <1>0, <1>2, <3>1 DEF PowerOn, HostType, States
  <2>5. QED
    BY <1>3, <2>1, <2>2, <2>3, <2>4 DEF Provision
<1>4. ASSUME NEW m \in Machines, Deprovision(m)
      PROVE  HostType'
  <2>1. CASE LookAtDomain(m) \/ WaitForShutdown(m) \/ UnknownState(m) \/ Finish(m)
    BY <1>1, <2>1 DEF LookAtDomain, WaitForShutdown, UnknownState, Finish
  <2>2. CASE RemoveNvram(m) \/ RemoveVolume(m)
    <3>1. /\ UNCHANGED <<dom, nics, taps, pools>>
          /\ UNCHANGED vol \/ \E k : SetVol(m, k, "absent")
      BY <2>2 DEF RemoveNvram, RemoveVolume
    <3>2. QED
      BY <1>0, <1>2, <3>1 DEF HostType
  <2>3. CASE Destroy(m)
    <3>1. /\ UNCHANGED <<vol, nics, pools>>
          /\ taps' = [taps EXCEPT ![m] = <<>>]
          /\ dom' \in [Machines -> States]
      BY <1>0, <2>3 DEF Destroy, HostType, States
    <3>2. QED
      BY <1>0, <3>1 DEF HostType
  <2>4. CASE Undefine(m)
    <3>1. /\ SetVol(m, "nvram", "absent") /\ UNCHANGED <<taps, pools>>
          /\ dom' = [dom EXCEPT ![m] = "none"] /\ nics' = [nics EXCEPT ![m] = <<>>]
      BY <2>4 DEF Undefine
    <3>2. QED
      BY <1>0, <1>2, <3>1 DEF HostType, States
  <2>5. QED
    BY <1>4, <2>1, <2>2, <2>3, <2>4 DEF Deprovision
<1>5. ASSUME NEW m \in Machines, UploadFails(m)
      PROVE  HostType'
  BY <1>0, <1>2, <1>5 DEF UploadFails, HostType
<1>6. ASSUME NEW m \in Machines,
             \/ Reconcile(m) \/ ReconcileTeardown(m) \/ CallFails(m)
             \/ Rerun(m) \/ RequestTeardown(m)
      PROVE  HostType'
  BY <1>1, <1>6 DEF Reconcile, ReconcileTeardown, Begin, CallFails, Rerun,
                    RequestTeardown
<1>7. ASSUME NEW m \in Machines, GuestChanges(m) \/ GuestPowersOff(m)
      PROVE  HostType'
  <2>1. UNCHANGED <<vol, nics, pools>> /\ taps' \in [Machines -> Seq(Nat)]
    <3>1. CASE GuestChanges(m)
      BY <1>0, <3>1 DEF GuestChanges, HostType
    <3>2. CASE GuestPowersOff(m)
      <4>1. UNCHANGED <<vol, nics, pools>> /\ taps' = [taps EXCEPT ![m] = <<>>]
        BY <3>2 DEF GuestPowersOff
      <4>2. QED
        BY <1>0, <4>1 DEF HostType
    <3>3. QED
      BY <1>7, <3>1, <3>2
  <2>2. dom' \in [Machines -> States]
    BY <1>0, <1>7, GuestsAssumption DEF GuestChanges, GuestPowersOff, HostType, States
  <2>3. QED
    BY <1>0, <2>1, <2>2 DEF HostType
<1>8. CASE Crash
  BY <1>1, <1>8 DEF Crash
<1>9. QED
  BY <1>3, <1>4, <1>5, <1>6, <1>7, <1>8 DEF Next

-----------------------------------------------------------------------------
(* A step of one machine leaves the others alone, but for the bridge       *)
(* counter                                                                 *)

MachineStep(m) ==
    \/ Reconcile(m) \/ ReconcileTeardown(m) \/ Provision(m) \/ Deprovision(m)
    \/ CallFails(m) \/ UploadFails(m)
    \/ Rerun(m) \/ RequestTeardown(m)
    \/ GuestChanges(m) \/ GuestPowersOff(m)

Same(n) ==
    /\ req'[n] = req[n] /\ step'[n] = step[n] /\ saved'[n] = saved[n]
    /\ op'[n] = op[n] /\ pos'[n] = pos[n] /\ vol'[n] = vol[n] /\ dom'[n] = dom[n]

LEMMA OthersSame ==
    ASSUME TypeOK, NEW m \in Machines, MachineStep(m), NEW n \in Machines, n # m
    PROVE  Same(n)
<1>0. /\ req \in [Machines -> {"running", "tearingDown", "gone"}]
      /\ step \in [Machines -> generateUUID..allDone]
      /\ saved \in [Machines -> 0..startVM]
      /\ op \in [Machines -> Ops]
      /\ pos \in [Machines -> Nat \ {0}]
      /\ vol \in [Machines -> [Kinds -> {"absent", "partial", "full"}]]
      /\ dom \in [Machines -> States]
  BY DEF TypeOK, RequestsType, JobsType, HostType
<1>1. \A o : Go(m, o) => op'[n] = op[n]
  BY <1>0 DEF Go
<1>2. \A o : Reply(m, o) \/ Abort(m) \/ Rejected(m) => op'[n] = op[n]
  BY <1>0 DEF Reply, Rejected, Abort, Go
<1>3. \A k, state : SetVol(m, k, state) => vol'[n] = vol[n]
  BY <1>0 DEF SetVol
<1>4. NextPos(m) => pos'[n] = pos[n]
  BY <1>0 DEF NextPos
<1>5. PowerOn(m) => vol'[n] = vol[n] /\ dom'[n] = dom[n]
  BY <1>0, <1>3 DEF PowerOn
<1>6. CASE Reconcile(m) \/ ReconcileTeardown(m)
  BY <1>0, <1>1, <1>6 DEF Reconcile, ReconcileTeardown, Begin, omniVars, hostVars, Same
<1>7. CASE Provision(m)
  <2>1. CASE AskAround(m) \/ GetPool(m) \/ GetPath(m)
    BY <1>1, <2>1 DEF AskAround, GetPool, GetPath, omniVars, memVars, hostVars, Same
  <2>2. CASE Purge(m) \/ MakePool(m) \/ Upload(m)
    BY <1>1, <1>2, <1>3, <2>2 DEF Purge, MakePool, Upload, omniVars, memVars, hostVars, Same
  <2>3. CASE Find(m)
    BY <1>1, <1>4, <2>3 DEF Find, omniVars, hostVars, Same
  <2>4. CASE CreateVol(m)
    BY <1>2, <1>3, <1>4, <2>4 DEF CreateVol, Same
  <2>5. CASE CheckVolume(m)
    BY <1>1, <1>2, <2>5 DEF CheckVolume, memVars, hostVars, Same
  <2>6. CASE ReadBridgeCount(m) \/ Bump(m)
    BY <1>0, <1>1, <2>6 DEF ReadBridgeCount, Bump, omniVars, hostVars, Same
  <2>7. CASE NextInterface(m)
    BY <1>0, <1>1, <2>7 DEF NextInterface, omniVars, hostVars, Same
  <2>8. CASE DefineDomain(m)
    BY <1>0, <1>2, <2>8 DEF DefineDomain, memVars, Same
  <2>9. CASE BootDomain(m) \/ StartDomain(m)
    BY <1>1, <1>2, <1>5, <2>9 DEF BootDomain, StartDomain, memVars, Same
  <2>10. CASE SaveSpec(m)
    BY <1>0, <1>2, <2>10 DEF SaveSpec, memVars, hostVars, Same
  <2>11. CASE Advance(m)
    BY <1>0, <1>1, <1>2, <2>11 DEF Advance, hostVars, Same
  <2>12. QED
    BY <1>7, <2>1, <2>2, <2>3, <2>4, <2>5, <2>6, <2>7, <2>8, <2>9, <2>10, <2>11
       DEF Provision
<1>8. CASE Deprovision(m)
  <2>1. CASE RemoveNvram(m)
    BY <1>1, <1>2, <1>3, <2>1 DEF RemoveNvram, memVars, Same
  <2>2. CASE LookAtDomain(m)
    BY <1>0, <1>1, <2>2 DEF LookAtDomain, omniVars, hostVars, Same
  <2>3. CASE Destroy(m) \/ WaitForShutdown(m) \/ UnknownState(m)
    BY <1>0, <1>2, <2>3
       DEF Destroy, WaitForShutdown, UnknownState, memVars, hostVars, Same
  <2>4. CASE Undefine(m)
    BY <1>0, <1>2, <1>3, <2>4 DEF Undefine, memVars, Same
  <2>5. CASE RemoveVolume(m)
    <3>1. /\ UNCHANGED <<req, step, saved, dom>>
          /\ UNCHANGED pos \/ pos' = [pos EXCEPT ![m] = @ + 1]
          /\ UNCHANGED vol \/ \E k : SetVol(m, k, "absent")
          /\ Rejected(m) \/ \E o : Reply(m, o) \/ Go(m, o)
      BY <2>5 DEF RemoveVolume
    <3>2. QED
      BY <1>0, <1>1, <1>2, <1>3, <3>1 DEF Same
  <2>6. CASE Finish(m)
    BY <1>0, <1>1, <2>6 DEF Finish, memVars, hostVars, Same
  <2>7. QED
    BY <1>8, <2>1, <2>2, <2>3, <2>4, <2>5, <2>6 DEF Deprovision
<1>9. CASE CallFails(m) \/ UploadFails(m)
  BY <1>2, <1>3, <1>9 DEF CallFails, UploadFails, memVars, hostVars, Same
<1>10. CASE Rerun(m) \/ RequestTeardown(m)
  BY <1>0, <1>10 DEF Rerun, RequestTeardown, memVars, hostVars, Same
<1>11. CASE GuestChanges(m) \/ GuestPowersOff(m)
  BY <1>0, <1>11 DEF GuestChanges, GuestPowersOff, omniVars, memVars, Same
<1>12. QED
  BY <1>6, <1>7, <1>8, <1>9, <1>10, <1>11 DEF MachineStep

(* Nor does it touch their stages or what their teardowns have seen.       *)
LEMMA OthersStage ==
    ASSUME TypeOK, NEW m \in Machines, MachineStep(m), NEW n \in Machines, n # m
    PROVE  stage'[n] = stage[n] /\ seen'[n] = seen[n]
<1>0. /\ stage \in [Machines -> {"provisioning", "provisioned", "failed"}]
      /\ seen \in [Machines -> States]
  BY DEF TypeOK, RequestsType, JobsType
<1>1. Abort(m) \/ Rejected(m) => stage'[n] = stage[n]
  BY <1>0 DEF Abort, Rejected
<1>2. \A o : Reply(m, o) => stage'[n] = stage[n]
  BY <1>1 DEF Reply
<1>3. CASE Reconcile(m) \/ ReconcileTeardown(m)
  BY <1>3 DEF Reconcile, ReconcileTeardown, Begin, omniVars
<1>4. CASE Provision(m)
  <2>1. CASE \/ AskAround(m) \/ GetPool(m) \/ Find(m) \/ Upload(m) \/ GetPath(m)
             \/ ReadBridgeCount(m) \/ NextInterface(m) \/ Bump(m)
    BY <2>1 DEF AskAround, GetPool, Find, Upload, GetPath, ReadBridgeCount, NextInterface,
       Bump, omniVars, memVars
  <2>2. CASE \/ Purge(m) \/ MakePool(m) \/ CreateVol(m) \/ CheckVolume(m)
             \/ DefineDomain(m) \/ BootDomain(m) \/ StartDomain(m) \/ SaveSpec(m)
    BY <1>1, <1>2, <2>2 DEF Purge, MakePool, CreateVol, CheckVolume, DefineDomain,
       BootDomain, StartDomain, SaveSpec, memVars
  <2>3. CASE Advance(m)
    BY <1>0, <1>2, <2>3 DEF Advance
  <2>4. QED
    BY <1>4, <2>1, <2>2, <2>3 DEF Provision
<1>5. CASE Deprovision(m)
  <2>1. CASE LookAtDomain(m)
    BY <1>0, <2>1 DEF LookAtDomain, omniVars
  <2>2. CASE RemoveNvram(m) \/ Undefine(m) \/ RemoveVolume(m)
    BY <1>1, <1>2, <2>2 DEF RemoveNvram, Undefine, RemoveVolume, memVars
  <2>3. CASE Destroy(m) \/ WaitForShutdown(m) \/ UnknownState(m) \/ Finish(m)
    BY <1>1, <2>3 DEF Destroy, WaitForShutdown, UnknownState, Finish, memVars
  <2>4. QED
    BY <1>5, <2>1, <2>2, <2>3 DEF Deprovision
<1>6. CASE CallFails(m) \/ UploadFails(m)
  BY <1>1, <1>6 DEF CallFails, UploadFails, memVars
<1>7. CASE Rerun(m) \/ RequestTeardown(m) \/ GuestChanges(m) \/ GuestPowersOff(m)
  BY <1>0, <1>7 DEF Rerun, RequestTeardown, GuestChanges, GuestPowersOff, omniVars, memVars
<1>8. QED
  BY <1>3, <1>4, <1>5, <1>6, <1>7 DEF MachineStep

-----------------------------------------------------------------------------
(* The types are invariant *)

(* After a step of m, its loop over the disks is within them.              *)
LEMMA PosStep ==
    ASSUME TypeOK, OpInv, PosInv, NEW m \in Machines, MachineStep(m),
           op'[m] \in {"find", "create"}, step'[m] = provisionAdditionalDisks
    PROVE  pos'[m] \in 1..Len(ExtraDisks)
<1>0. /\ op \in [Machines -> Ops] /\ pos \in [Machines -> Nat \ {0}]
      /\ step \in [Machines -> generateUUID..allDone]
      /\ Len(ExtraDisks) \in Nat
      /\ ExtraDisks # <<>> => 1 \in 1..Len(ExtraDisks)
  BY ExtraDisksAssumption DEF TypeOK, RequestsType, JobsType
<1>1. \A o : Go(m, o) => op'[m] = o
  BY <1>0 DEF Go
<1>2. ~Rejected(m) /\ ~Abort(m)
  BY <1>0 DEF Rejected, Abort, Go
<1>3. \A o : Reply(m, o) => op'[m] = o
  BY <1>1, <1>2 DEF Reply
<1>4. \A s : FirstOp(s) \in {"find", "create"} /\ s = provisionAdditionalDisks
                => 1 \in 1..Len(ExtraDisks)
  BY <1>0 DEF FirstOp
<1>5. CASE Reconcile(m) \/ ReconcileTeardown(m)
  BY <1>0, <1>1, <1>4, <1>5 DEF Reconcile, ReconcileTeardown, Begin, omniVars
<1>6. CASE Provision(m)
  <2>1. CASE AskAround(m) \/ Purge(m) \/ Upload(m) \/ GetPath(m)
    BY <1>1, <1>2, <1>3, <2>1 DEF AskAround, NextOp, Purge, Upload, GetPath
  <2>2. CASE GetPool(m) \/ MakePool(m)
    BY <2>2 DEF GetPool, MakePool, omniVars, OpInv, StepOps, MediumOps, DomainOps, StepsOf
  <2>3. CASE Find(m) \/ CreateVol(m)
    <3>1. step[m] = provisionAdditionalDisks /\ pos[m] \in 1..Len(ExtraDisks)
      BY <2>3 DEF Find, CreateVol, omniVars, PosInv
    <3>2. UNCHANGED pos \/ (NextPos(m) /\ op'[m] = AfterDisk(m))
      BY <1>1, <1>2, <1>3, <2>3 DEF Find, CreateVol
    <3>3. QED
      BY <1>0, <3>1, <3>2 DEF NextPos, AfterDisk
  <2>4. CASE CheckVolume(m) \/ ReadBridgeCount(m) \/ Bump(m)
    BY <1>1, <1>2, <2>4 DEF CheckVolume, ReadBridgeCount, Bump
  <2>5. CASE NextInterface(m)
    BY <1>1, <2>5 DEF NextInterface
  <2>6. CASE DefineDomain(m) \/ BootDomain(m) \/ StartDomain(m) \/ SaveSpec(m)
    BY <1>1, <1>2, <1>3, <2>6 DEF DefineDomain, BootDomain, StartDomain, SaveSpec
  <2>7. CASE Advance(m)
    <3>1. op'[m] = FirstOp(step[m] + 1) /\ step'[m] = step[m] + 1 /\ pos'[m] = 1
      BY <1>0, <1>1, <1>3, <2>7 DEF Advance
    <3>2. QED
      BY <1>4, <3>1
  <2>8. QED
    BY <1>6, <2>1, <2>2, <2>3, <2>4, <2>5, <2>6, <2>7 DEF Provision
<1>7. CASE Deprovision(m)
  <2>1. ~RemoveNvram(m) /\ ~LookAtDomain(m) /\ ~Undefine(m)
    BY <1>1, <1>2, <1>3 DEF RemoveNvram, LookAtDomain, Undefine, AfterDomain
  <2>2. ~RemoveVolume(m)
    BY <1>1, <1>2, <1>3 DEF RemoveVolume, AfterVolume
  <2>3. ~Destroy(m) /\ ~WaitForShutdown(m) /\ ~UnknownState(m) /\ ~Finish(m)
    BY <1>1, <1>2 DEF Destroy, WaitForShutdown, UnknownState, Finish
  <2>4. QED
    BY <1>7, <2>1, <2>2, <2>3 DEF Deprovision
<1>8. CASE CallFails(m) \/ UploadFails(m)
  BY <1>2, <1>8 DEF CallFails, UploadFails
<1>9. CASE \/ Rerun(m) \/ RequestTeardown(m)
           \/ GuestChanges(m) \/ GuestPowersOff(m)
  BY <1>9 DEF Rerun, RequestTeardown, GuestChanges, GuestPowersOff, omniVars, memVars, PosInv
<1>10. QED
  BY <1>5, <1>6, <1>7, <1>8, <1>9 DEF MachineStep

TypesInv == TypeOK /\ OpInv /\ PosInv

LEMMA NextTypes ==
    ASSUME TypesInv, Next
    PROVE  TypesInv'
<1>0. TypeOK /\ OpInv /\ PosInv
  BY DEF TypesInv
<1>1. TypeOK' /\ OpInv'
  BY <1>0, NextControl, NextProgress, NextHost
     DEF ControlType, ProgressType, TypeOK, RequestsType, JobsType
<1>2. ASSUME NEW m \in Machines, MachineStep(m)
      PROVE  PosInv'
  <2>1. ASSUME NEW n \in Machines, op'[n] \in {"find", "create"},
               step'[n] = provisionAdditionalDisks
        PROVE  pos'[n] \in 1..Len(ExtraDisks)
    <3>1. CASE n = m
      BY <1>0, <1>2, <2>1, <3>1, PosStep
    <3>2. CASE n # m
      BY <1>0, <1>2, <2>1, <3>2, OthersSame DEF Same, PosInv
    <3>3. QED
      BY <3>1, <3>2
  <2>2. QED
    BY <2>1 DEF PosInv
<1>3. CASE Crash
  <2>1. \A m \in Machines : op'[m] = "none"
    BY <1>3 DEF Crash
  <2>2. PosInv'
    BY <2>1 DEF PosInv
  <2>3. QED
    BY <1>1, <2>2 DEF TypesInv
<1>4. QED
  BY <1>1, <1>2, <1>3 DEF Next, MachineStep, TypesInv

LEMMA TypesStutter ==
    ASSUME TypesInv, UNCHANGED vars
    PROVE  TypesInv'
  BY DEF vars, TypesInv, TypeOK, RequestsType, JobsType, HostType, OpInv, PosInv

LEMMA InitTypes ==
    ASSUME Init
    PROVE  TypesInv
<1>1. TypeOK
  BY PoolsAssumption, BoundsAssumption
     DEF Init, TypeOK, RequestsType, JobsType, HostType, Ops, States
<1>2. OpInv /\ PosInv
  BY DEF Init, OpInv, PosInv, StepOps, RemoveOps, MediumOps, DomainOps
<1>3. QED
  BY <1>1, <1>2 DEF TypesInv

(* The variables keep their types, whatever the requests do, wherever      *)
(* calls fail or the provider restarts; in particular no step after        *)
(* startVM is ever run or saved.                                           *)
THEOREM TypeCorrect == Spec => []TypeOK
<1>1. Init => TypesInv
  BY InitTypes
<1>2. TypesInv /\ [Next]_vars => TypesInv'
  BY NextTypes, TypesStutter
<1>3. TypesInv => TypeOK
  BY DEF TypesInv
<1>4. QED
  BY <1>1, <1>2, <1>3, PTL DEF Spec

-----------------------------------------------------------------------------
(* What holds of one machine, and strengthens the safety properties *)

(* The volumes that are finished: those of the steps behind the recorded   *)
(* one, that of this step once only its path or its result is left to be   *)
(* read or written, and the additional disks the loop has passed.          *)
Held(m) ==
    {k \in Attached :
        \/ RecordedBy(k) < step[m]
        \/ RecordedBy(k) = step[m] /\ op[m] \in {"path", "save", "advance"}
        \/ /\ step[m] = provisionAdditionalDisks /\ op[m] \in {"find", "create"}
           /\ \E i \in 1..(pos[m] - 1) : k = ExtraDisks[i]}

DisksWhole(m) == \A k \in Disks : vol[m][k] # "partial"

HoldInv(m) ==
    req[m] = "running" \/ op[m] \in StepOps => \A k \in Held(m) : vol[m][k] = "full"

DomainInv(m) ==
    /\ dom[m] # "none" => step[m] >= createVM /\ \A k \in Attached : vol[m][k] = "full"
    /\ dom[m] = "none" => vol[m]["nvram"] = "absent"

(* How far a teardown has come. *)
Removed(m, k) == Recorded(m, k) => vol[m][k] = "absent"

RemovalInv(m) ==
    /\ op[m] \in {"volume", "finish"} \/ req[m] = "gone" => dom[m] = "none"
    /\ op[m] = "act" => pos[m] = 1
    /\ op[m] = "volume" =>
        /\ pos[m] \in 1..Len(RemovalOrder)
        /\ \A i \in 1..(pos[m] - 1) : Removed(m, RemovalOrder[i])
    /\ op[m] = "finish" \/ req[m] = "gone" =>
        (saved[m] >= provisionVMVolume => \A k \in Attached : Removed(m, k))
    /\ req[m] = "gone" => op[m] = "none"

MachineInv(m) == DisksWhole(m) /\ HoldInv(m) /\ DomainInv(m) /\ RemovalInv(m)

IInv ==
    /\ TypesInv
    /\ \A m \in Machines : MachineInv(m)

LEMMA RecordedByKinds ==
    /\ Attached \subseteq Kinds /\ "nvram" \in Kinds \ Attached
    /\ \A k \in Attached :
        /\ RecordedBy(k) \in provisionISO..provisionCidata
        /\ RecordedBy(k) = provisionISO <=> k = "iso"
        /\ RecordedBy(k) = provisionVMVolume <=> k = "main"
        /\ RecordedBy(k) = provisionAdditionalDisks <=> k \in Extras
        /\ RecordedBy(k) = provisionCidata <=> k = "cidata"
<1>1. /\ "iso" \notin Extras /\ "main" \notin Extras
      /\ "cidata" \notin Extras /\ "nvram" \notin Extras
  BY ExtraDisksAssumption
<1>2. QED
  BY <1>1 DEF RecordedBy, Attached, Kinds, Media, Disks

LEMMA KindRecorded ==
    ASSUME TypesInv, NEW m \in Machines, op[m] \in MediumOps \cup {"find", "create"}
    PROVE  /\ Kind(m) \in Attached
           /\ \A k \in Attached : RecordedBy(k) = step[m] =>
                k = Kind(m) \/ step[m] = provisionAdditionalDisks
           /\ RecordedBy(Kind(m)) = step[m]
           /\ Kind(m) \in Media <=> step[m] \in {provisionISO, provisionCidata}
           /\ step[m] = provisionAdditionalDisks => Kind(m) = ExtraDisks[pos[m]]
<1>1. step[m] \in StepsOf(op[m]) /\ step[m] \in provisionISO..provisionCidata
  BY DEF TypesInv, OpInv, StepOps, StepsOf, MediumOps, DomainOps
<1>2. /\ Kind(m) \in Media <=> step[m] \in {provisionISO, provisionCidata}
      /\ step[m] = provisionISO => Kind(m) = "iso"
      /\ step[m] = provisionCidata => Kind(m) = "cidata"
      /\ step[m] = provisionVMVolume => Kind(m) = "main"
      /\ step[m] = provisionAdditionalDisks => Kind(m) = ExtraDisks[pos[m]]
  BY <1>1, KindOfStep DEF TypesInv
<1>3. step[m] = provisionAdditionalDisks => Kind(m) \in Extras
  <2>1. ASSUME step[m] = provisionAdditionalDisks
        PROVE  Kind(m) \in Extras
    <3>1. op[m] \in {"find", "create"}
      BY <1>1, <2>1 DEF StepsOf, MediumOps, DomainOps
    <3>2. pos[m] \in DOMAIN ExtraDisks
      BY <2>1, <3>1, ExtraDisksAssumption DEF TypesInv, PosInv
    <3>3. QED
      BY <1>2, <2>1, <3>2 DEF Extras
  <2>2. QED
    BY <2>1
<1>4. Kind(m) \in Attached
  BY <1>1, <1>2, <1>3 DEF Attached, Media, Disks
<1>5. QED
  BY <1>1, <1>2, <1>3, <1>4, RecordedByKinds

(* What a step of m does to its volumes. *)
OnlyVol(m, k, state) == vol'[m] = [vol[m] EXCEPT ![k] = state]

LEMMA VolStep ==
    ASSUME TypesInv, NEW m \in Machines, MachineStep(m)
    PROVE  \/ vol'[m] = vol[m]
           \/ /\ PowerOn(m) /\ CanStart(m) /\ op[m] \in {"boot", "start"}
              /\ OnlyVol(m, "nvram", "full")
           \/ OnlyVol(m, "nvram", "absent") /\ op[m] \in {"nvram", "act"}
           \/ OnlyVol(m, Kind(m), "absent") /\ op[m] = "purge"
           \/ OnlyVol(m, Kind(m), "full") /\ op[m] = "create" /\ Kind(m) \notin Media
           \/ /\ \E state : OnlyVol(m, Kind(m), state)
              /\ op[m] \in {"create", "upload"} /\ Kind(m) \in Media
           \/ OnlyVol(m, RemovalOrder[pos[m]], "absent") /\ op[m] = "volume"
<1>0. /\ vol \in [Machines -> [Kinds -> {"absent", "partial", "full"}]]
      /\ step \in [Machines -> generateUUID..allDone]
  BY DEF TypesInv, TypeOK, RequestsType, HostType
<1>1. \A k, state : SetVol(m, k, state) => OnlyVol(m, k, state)
  BY <1>0 DEF SetVol, OnlyVol
<1>2. op[m] = "upload" => Kind(m) \in Media
  BY KindRecorded DEF MediumOps, TypesInv, OpInv, StepOps, DomainOps, StepsOf
<1>3. CASE Provision(m)
  <2>1. CASE Purge(m)
    BY <1>1, <2>1 DEF Purge
  <2>2. CASE CreateVol(m)
    BY <1>1, <2>2 DEF CreateVol
  <2>3. CASE Upload(m)
    BY <1>1, <1>2, <2>3 DEF Upload
  <2>4. CASE BootDomain(m) \/ StartDomain(m)
    BY <1>1, <2>4 DEF BootDomain, StartDomain, PowerOn
  <2>5. CASE \/ AskAround(m) \/ GetPool(m) \/ MakePool(m) \/ Find(m) \/ GetPath(m)
             \/ CheckVolume(m) \/ ReadBridgeCount(m) \/ NextInterface(m) \/ Bump(m)
             \/ DefineDomain(m) \/ SaveSpec(m) \/ Advance(m)
    BY <2>5 DEF AskAround, GetPool, MakePool, Find, GetPath, CheckVolume,
       ReadBridgeCount, NextInterface, Bump, DefineDomain, SaveSpec, Advance, hostVars
  <2>6. QED
    BY <1>3, <2>1, <2>2, <2>3, <2>4, <2>5 DEF Provision
<1>4. CASE Deprovision(m)
  <2>1. CASE RemoveNvram(m) \/ Undefine(m)
    BY <1>1, <2>1 DEF RemoveNvram, Undefine
  <2>2. CASE RemoveVolume(m)
    BY <1>1, <2>2 DEF RemoveVolume
  <2>3. CASE \/ LookAtDomain(m) \/ Destroy(m) \/ WaitForShutdown(m) \/ UnknownState(m)
             \/ Finish(m)
    BY <2>3 DEF LookAtDomain, Destroy, WaitForShutdown, UnknownState, Finish, hostVars
  <2>4. QED
    BY <1>4, <2>1, <2>2, <2>3 DEF Deprovision
<1>5. CASE UploadFails(m)
  BY <1>1, <1>2, <1>5 DEF UploadFails
<1>6. CASE \/ Reconcile(m) \/ ReconcileTeardown(m) \/ CallFails(m)
           \/ Rerun(m) \/ RequestTeardown(m) \/ GuestChanges(m) \/ GuestPowersOff(m)
  BY <1>6 DEF Reconcile, ReconcileTeardown, Begin, CallFails, Rerun, RequestTeardown,
              GuestChanges, GuestPowersOff, hostVars
<1>7. QED
  BY <1>3, <1>4, <1>5, <1>6 DEF MachineStep

LEMMA WholeStep ==
    ASSUME TypesInv, NEW m \in Machines, MachineStep(m), DisksWhole(m)
    PROVE  DisksWhole(m)'
<1>1. vol[m] \in [Kinds -> {"absent", "partial", "full"}]
  BY DEF TypesInv, TypeOK, HostType
<1>2. Disks \subseteq Kinds /\ Disks \cap Media = {} /\ "nvram" \notin Disks
  BY ExtraDisksAssumption DEF Disks, Kinds, Media
<1>3. QED
  BY <1>1, <1>2, VolStep DEF OnlyVol, DisksWhole

-----------------------------------------------------------------------------
(* Finished steps keep their volumes *)

Provisioning(m) == req[m] = "running" \/ op[m] \in StepOps

(* A teardown is not followed by provisioning.                             *)
LEMMA TeardownStays ==
    ASSUME TypesInv, NEW m \in Machines, MachineStep(m), ~Provisioning(m)
    PROVE  ~Provisioning(m)' /\ ~Provision(m)
<1>0. /\ op \in [Machines -> Ops]
      /\ req \in [Machines -> {"running", "tearingDown", "gone"}]
  BY DEF TypesInv, TypeOK, RequestsType, JobsType
<1>1. \A o : Go(m, o) => op'[m] = o
  BY <1>0 DEF Go
<1>2. Abort(m) \/ Rejected(m) => op'[m] = "none"
  BY <1>0 DEF Rejected, Abort, Go
<1>3. \A o : Reply(m, o) => op'[m] \in {o, "none"}
  BY <1>1, <1>2 DEF Reply
<1>4. ~Provision(m) /\ ~UploadFails(m) /\ ~Reconcile(m) /\ ~RequestTeardown(m) /\ ~Rerun(m)
  <2>1. op[m] \notin StepOps /\ req[m] # "running"
    BY DEF Provisioning
  <2>2. ~Provision(m)
    BY <2>1 DEF StepOps, MediumOps, DomainOps, Provision,
       AskAround, NextOp, Purge, GetPool, MakePool, Find, CreateVol, Upload, GetPath,
       CheckVolume, ReadBridgeCount, NextInterface, Bump, DefineDomain, BootDomain,
       StartDomain, SaveSpec, Advance
  <2>3. QED
    BY <2>1, <2>2 DEF StepOps, MediumOps, UploadFails, Reconcile, RequestTeardown, Rerun
<1>5. CASE ReconcileTeardown(m)
  BY <1>1, <1>4, <1>5 DEF ReconcileTeardown, Begin, omniVars, Provisioning, StepOps,
                    MediumOps, DomainOps
<1>6. CASE Deprovision(m)
  <2>1. req'[m] # "running"
    <3>1. UNCHANGED req \/ req' = [req EXCEPT ![m] = "gone"]
      BY <1>6 DEF Deprovision, RemoveNvram, LookAtDomain, Destroy, WaitForShutdown,
         UnknownState, Undefine, RemoveVolume, Finish, omniVars
    <3>2. QED
      BY <1>0, <3>1 DEF Provisioning
  <2>2. op'[m] \in RemoveOps \cup {"none"}
    <3>1. CASE RemoveNvram(m) \/ LookAtDomain(m) \/ Undefine(m)
      BY <1>1, <1>2, <1>3, <3>1
         DEF RemoveNvram, LookAtDomain, Undefine, AfterDomain, RemoveOps
    <3>2. CASE RemoveVolume(m)
      BY <1>1, <1>2, <1>3, <3>2 DEF RemoveVolume, AfterVolume, RemoveOps
    <3>3. CASE Destroy(m) \/ WaitForShutdown(m) \/ UnknownState(m) \/ Finish(m)
      BY <1>1, <1>2, <3>3 DEF Destroy, WaitForShutdown, UnknownState, Finish
    <3>4. QED
      BY <1>6, <3>1, <3>2, <3>3 DEF Deprovision
  <2>3. QED
    BY <1>4, <2>1, <2>2 DEF Provisioning, StepOps, RemoveOps, MediumOps, DomainOps
<1>7. CASE CallFails(m)
  BY <1>2, <1>4, <1>7 DEF CallFails, Provisioning, StepOps, MediumOps, DomainOps
<1>8. CASE GuestChanges(m) \/ GuestPowersOff(m)
  BY <1>4, <1>8 DEF GuestChanges, GuestPowersOff, omniVars, Provisioning
<1>9. QED
  BY <1>4, <1>5, <1>6, <1>7, <1>8 DEF MachineStep

LEMMA BehindKept ==
    ASSUME TypesInv, NEW m \in Machines, MachineStep(m), Provisioning(m)',
           NEW k \in Attached, RecordedBy(k) < step[m], vol[m][k] = "full"
    PROVE  vol'[m][k] = "full"
<1>1. vol[m] \in [Kinds -> {"absent", "partial", "full"}] /\ k \in Kinds /\ k # "nvram"
  BY RecordedByKinds DEF TypesInv, TypeOK, HostType
<1>2. op[m] # "volume"
  <2>1. ASSUME op[m] = "volume" PROVE FALSE
    <3>1. ~Provisioning(m)
      BY <2>1 DEF TypesInv, OpInv, StepOps, RemoveOps, MediumOps, DomainOps, Provisioning
    <3>2. QED
      BY <3>1, TeardownStays
  <2>2. QED
    BY <2>1
<1>3. op[m] \in {"purge", "create", "upload"} => k # Kind(m)
  <2>1. ASSUME op[m] \in {"purge", "create", "upload"} PROVE RecordedBy(Kind(m)) = step[m]
    BY <2>1, KindRecorded DEF MediumOps
  <2>2. step[m] \in generateUUID..allDone
    BY DEF TypesInv, TypeOK, RequestsType
  <2>3. QED
    BY <2>1, <2>2
<1>4. QED
  BY <1>1, <1>2, <1>3, VolStep DEF OnlyVol

(* What is finished within the step a request is in.                       *)
HeldInStep(m, k) ==
    \/ RecordedBy(k) = step[m] /\ op[m] \in {"path", "save", "advance"}
    \/ /\ step[m] = provisionAdditionalDisks /\ op[m] \in {"find", "create"}
       /\ \E i \in 1..(pos[m] - 1) : k = ExtraDisks[i]

(* A step that begins has nothing finished within it.                      *)
LEMMA BeginHolds ==
    ASSUME TypesInv, NEW m \in Machines, NEW k \in Attached, NEW s,
           step'[m] = s, op'[m] \in {FirstOp(s), "none"}, pos'[m] = 1
    PROVE  ~HeldInStep(m, k)'
<1>1. CASE op'[m] = "save"
  <2>1. \/ s = provisionAdditionalDisks /\ Extras = {}
        \/ s \notin provisionISO..provisionCidata
    BY <1>1 DEF FirstOp, Extras
  <2>2. QED
    BY <1>1, <2>1, RecordedByKinds DEF HeldInStep
<1>2. CASE op'[m] # "save"
  <2>1. op'[m] \notin {"path", "advance"}
    BY DEF FirstOp
  <2>2. QED
    BY <1>2, <2>1 DEF HeldInStep
<1>3. QED
  BY <1>1, <1>2

(* The next disk of the loop, or what comes after it.                      *)
LEMMA AfterDiskHolds ==
    ASSUME TypesInv, NEW m \in Machines, op[m] \in {"find", "create"},
           Kind(m) \notin Media, NextPos(m), UNCHANGED step, op'[m] = AfterDisk(m),
           NEW k \in Attached, HeldInStep(m, k)'
    PROVE  k = Kind(m) \/ HeldInStep(m, k)
<1>1. /\ pos \in [Machines -> Nat \ {0}]
      /\ step[m] \in {provisionVMVolume, provisionAdditionalDisks}
      /\ RecordedBy(k) = step[m] =>
            k = Kind(m) \/ step[m] = provisionAdditionalDisks
      /\ step[m] = provisionAdditionalDisks => Kind(m) = ExtraDisks[pos[m]]
  <2>1. step[m] \in StepsOf(op[m])
    BY DEF TypesInv, OpInv, StepOps
  <2>2. QED
    BY <2>1, KindRecorded DEF TypesInv, TypeOK, JobsType, StepsOf, MediumOps, DomainOps
<1>2. CASE step[m] = provisionVMVolume
  BY <1>1, <1>2 DEF HeldInStep
<1>3. CASE step[m] = provisionAdditionalDisks
  <2>1. pos[m] \in 1..Len(ExtraDisks) /\ Len(ExtraDisks) \in Nat
    BY <1>3, ExtraDisksAssumption DEF TypesInv, PosInv
  <2>2. PICK i \in 1..pos[m] : k = ExtraDisks[i]
    <3>1. CASE op'[m] = "find"
      <4>1. pos'[m] = pos[m] + 1
        BY <1>1, <3>1 DEF NextPos
      <4>2. PICK i \in 1..(pos'[m] - 1) : k = ExtraDisks[i]
        BY <3>1 DEF HeldInStep
      <4>3. QED
        BY <2>1, <4>1, <4>2
    <3>2. CASE op'[m] # "find"
      <4>1. op'[m] = "save" /\ pos[m] = Len(ExtraDisks)
        BY <1>3, <3>2 DEF AfterDisk
      <4>2. k \in Extras
        BY <1>3, <4>1, RecordedByKinds DEF HeldInStep
      <4>3. QED
        BY <4>1, <4>2, ExtraDisksAssumption DEF Extras
    <3>3. QED
      BY <3>1, <3>2
  <2>3. i # pos[m] => i \in 1..(pos[m] - 1)
    BY <2>1
  <2>4. QED
    BY <1>1, <1>3, <2>2, <2>3 DEF HeldInStep
<1>4. QED
  BY <1>1, <1>2, <1>3

(* What a step of a reconcile finishes is there.                           *)
LEMMA InStepHolds ==
    ASSUME TypesInv, NEW m \in Machines, MachineStep(m), DisksWhole(m),
           ~Advance(m), ~Reconcile(m), Provisioning(m)',
           NEW k \in Attached, HeldInStep(m, k)',
           HeldInStep(m, k) => vol[m][k] = "full"
    PROVE  vol'[m][k] = "full"
<1>0. /\ op \in [Machines -> Ops] /\ Provisioning(m)
      /\ vol \in [Machines -> [Kinds -> {"absent", "partial", "full"}]]
      /\ k \in Kinds /\ k # "nvram"
      /\ op[m] \in StepOps => step[m] \in StepsOf(op[m])
      /\ RecordedBy(k) \in provisionISO..provisionCidata
  BY TeardownStays, RecordedByKinds DEF TypesInv, TypeOK, JobsType, HostType, OpInv
<1>1. op'[m] \in {"path", "save", "advance", "find", "create"}
  BY DEF HeldInStep
<1>2. /\ \A o : Go(m, o) => op'[m] = o
      /\ ~Abort(m) /\ ~Rejected(m)
      /\ \A o : Reply(m, o) => op'[m] = o
  BY <1>0, <1>1 DEF Go, Abort, Rejected, Reply
<1>3. CASE Provision(m)
  <2>1. CASE AskAround(m)
    <3>1. op'[m] = "save" /\ step[m] \in {generateUUID, createSchematic} /\ UNCHANGED step
      BY <1>0, <1>1, <1>2, <2>1 DEF AskAround, NextOp, omniVars, StepOps, StepsOf,
         MediumOps, DomainOps
    <3>2. QED
      BY <1>0, <3>1 DEF HeldInStep
  <2>2. CASE GetPool(m) \/ MakePool(m)
    <3>1. /\ op'[m] \in {"create", "makePool"} /\ UNCHANGED step
          /\ step[m] \in {provisionISO, provisionCidata}
      BY <1>0, <1>2, <2>2 DEF GetPool, MakePool, omniVars, StepOps, StepsOf,
         MediumOps, DomainOps
    <3>2. QED
      BY <3>1 DEF HeldInStep
  <2>3. CASE Find(m)
    <3>1. op[m] = "find" /\ UNCHANGED <<step, vol>> /\ Kind(m) \notin Media
      <4>1. op[m] = "find" /\ UNCHANGED <<step, vol>>
        BY <2>3 DEF Find, omniVars, hostVars
      <4>2. step[m] \in {provisionVMVolume, provisionAdditionalDisks}
        BY <1>0, <4>1 DEF StepOps, StepsOf, MediumOps, DomainOps
      <4>3. QED
        BY <4>1, <4>2, KindRecorded
    <3>2. CASE op'[m] = "create" /\ UNCHANGED pos
      BY <3>1, <3>2 DEF HeldInStep
    <3>3. CASE /\ NextPos(m) /\ op'[m] = AfterDisk(m)
               /\ vol[m][Kind(m)] # "absent"
      <4>1. k = Kind(m) \/ HeldInStep(m, k)
        BY <3>1, <3>3, AfterDiskHolds
      <4>2. vol[m][Kind(m)] = "full"
        <5>1. Kind(m) \in Disks /\ Kind(m) \in Kinds
          BY <3>1, KindRecorded DEF Attached, Kinds
        <5>2. QED
          BY <1>0, <3>3, <5>1 DEF DisksWhole
      <4>3. QED
        BY <3>1, <4>1, <4>2
    <3>4. QED
      BY <1>2, <2>3, <3>2, <3>3 DEF Find
  <2>4. CASE CreateVol(m)
    <3>1. CASE Kind(m) \in Media
      BY <1>1, <1>2, <2>4, <3>1 DEF CreateVol
    <3>2. CASE Kind(m) \notin Media
      <4>1. /\ NextPos(m) /\ op'[m] = AfterDisk(m) /\ UNCHANGED step
            /\ SetVol(m, Kind(m), "full") /\ op[m] = "create"
        BY <1>2, <2>4, <3>2 DEF CreateVol
      <4>2. k = Kind(m) \/ HeldInStep(m, k)
        BY <3>2, <4>1, AfterDiskHolds
      <4>3. QED
        BY <1>0, <4>1, <4>2 DEF SetVol
    <3>3. QED
      BY <3>1, <3>2
  <2>5. CASE Upload(m)
    <3>1. /\ op[m] = "upload" /\ op'[m] = "path" /\ UNCHANGED step
          /\ SetVol(m, Kind(m), "full")
      BY <1>2, <2>5 DEF Upload, omniVars
    <3>2. RecordedBy(k) = step[m] /\ step[m] \in {provisionISO, provisionCidata}
      BY <1>0, <3>1 DEF HeldInStep, StepOps, StepsOf, MediumOps, DomainOps
    <3>3. k = Kind(m)
      BY <3>1, <3>2, KindRecorded DEF MediumOps
    <3>4. QED
      BY <1>0, <3>1, <3>3 DEF SetVol
  <2>6. CASE GetPath(m) \/ SaveSpec(m)
    <3>1. /\ op[m] \in {"path", "save"} /\ op'[m] \in {"save", "advance"}
          /\ UNCHANGED <<step, vol>>
      BY <1>2, <2>6 DEF GetPath, SaveSpec, omniVars, hostVars
    <3>2. QED
      BY <3>1 DEF HeldInStep
  <2>7. CASE BootDomain(m) \/ StartDomain(m)
    <3>1. op[m] \in {"boot", "start"} /\ op'[m] = "save" /\ UNCHANGED step
      BY <1>2, <2>7 DEF BootDomain, StartDomain
    <3>2. step[m] \in {createVM, startVM}
      BY <1>0, <3>1 DEF StepOps, StepsOf, MediumOps, DomainOps
    <3>3. QED
      BY <1>0, <3>1, <3>2 DEF HeldInStep
  <2>8. ~Purge(m) /\ ~CheckVolume(m) /\ ~ReadBridgeCount(m) /\ ~Bump(m) /\ ~DefineDomain(m)
    BY <1>1, <1>2 DEF Purge, CheckVolume, ReadBridgeCount, Bump, DefineDomain
  <2>9. ~NextInterface(m)
    BY <1>1, <1>2 DEF NextInterface
  <2>10. QED
    BY <1>3, <2>1, <2>2, <2>3, <2>4, <2>5, <2>6, <2>7, <2>8, <2>9 DEF Provision
<1>4. ~ReconcileTeardown(m)
  BY <1>0 DEF ReconcileTeardown, Begin, Provisioning, StepOps, MediumOps, DomainOps
<1>5. ~Deprovision(m)
  <2>1. ASSUME Deprovision(m) PROVE FALSE
    <3>1. op[m] \in RemoveOps
      BY <2>1 DEF Deprovision, RemoveNvram, LookAtDomain, Destroy, WaitForShutdown,
         UnknownState, Undefine, RemoveVolume, Finish, RemoveOps
    <3>2. ~Provisioning(m)
      BY <3>1 DEF TypesInv, OpInv, Provisioning, StepOps, RemoveOps, MediumOps, DomainOps
    <3>3. QED
      BY <1>0, <3>2
  <2>2. QED
    BY <2>1
<1>6. ~CallFails(m) /\ ~UploadFails(m)
  BY <1>2 DEF CallFails, UploadFails
<1>7. CASE \/ Rerun(m) \/ RequestTeardown(m)
           \/ GuestChanges(m) \/ GuestPowersOff(m)
  <2>1. UNCHANGED <<op, step, pos, vol>>
    BY <1>7 DEF Rerun, RequestTeardown, GuestChanges, GuestPowersOff, omniVars,
       memVars, hostVars
  <2>2. QED
    BY <2>1 DEF HeldInStep
<1>8. QED
  BY <1>3, <1>4, <1>5, <1>6, <1>7 DEF MachineStep

LEMMA StepSame ==
    ASSUME NEW m \in Machines, MachineStep(m), ~Advance(m)
    PROVE  UNCHANGED step
  BY DEF MachineStep, Provision, Deprovision, Reconcile, ReconcileTeardown, Begin,
     AskAround, Purge, GetPool, MakePool, Find, CreateVol, Upload, GetPath,
     CheckVolume, ReadBridgeCount, NextInterface, Bump, DefineDomain, BootDomain,
     StartDomain, SaveSpec, RemoveNvram, LookAtDomain, Destroy, WaitForShutdown,
     UnknownState, Undefine, RemoveVolume, Finish, CallFails, UploadFails, Rerun,
     RequestTeardown, GuestChanges, GuestPowersOff, omniVars

LEMMA HoldStep ==
    ASSUME TypesInv, NEW m \in Machines, MachineStep(m), DisksWhole(m), HoldInv(m)
    PROVE  HoldInv(m)'
<1>1. SUFFICES ASSUME Provisioning(m)', NEW k \in Attached,
                      RecordedBy(k) < step'[m] \/ HeldInStep(m, k)'
               PROVE  vol'[m][k] = "full"
  BY DEF HoldInv, Held, HeldInStep, Provisioning
<1>2. RecordedBy(k) < step[m] \/ HeldInStep(m, k) => vol[m][k] = "full"
  BY <1>1, TeardownStays DEF HoldInv, Held, HeldInStep, Provisioning
<1>3. CASE Advance(m)
  <2>1. /\ step'[m] = step[m] + 1 /\ op[m] = "advance" /\ vol' = vol /\ pos'[m] = 1
        /\ op'[m] \in {FirstOp(step[m] + 1), "none"}
    BY <1>3 DEF Advance, Reply, Abort, Go, hostVars, TypesInv, TypeOK, RequestsType,
       JobsType
  <2>2. ~HeldInStep(m, k)'
    BY <2>1, BeginHolds
  <2>3. RecordedBy(k) < step[m] \/ RecordedBy(k) = step[m]
    BY <1>1, <2>1, <2>2, RecordedByKinds DEF TypesInv, TypeOK, RequestsType
  <2>4. QED
    BY <1>2, <2>1, <2>3 DEF HeldInStep
<1>4. CASE ~Advance(m) /\ RecordedBy(k) < step[m]
  BY <1>1, <1>2, <1>4, BehindKept
<1>5. CASE ~Advance(m) /\ ~(RecordedBy(k) < step[m])
  <2>1. UNCHANGED step /\ HeldInStep(m, k)'
    BY <1>1, <1>5, StepSame
  <2>2. CASE Reconcile(m)
    <3>1. op'[m] = FirstOp(step[m]) /\ pos'[m] = 1
      BY <2>2 DEF Reconcile, Begin, Go, TypesInv, TypeOK, JobsType
    <3>2. QED
      BY <2>1, <3>1, BeginHolds
  <2>3. CASE ~Reconcile(m)
    BY <1>1, <1>2, <1>5, <2>1, <2>3, InStepHolds
  <2>4. QED
    BY <2>2, <2>3
<1>6. QED
  BY <1>3, <1>4, <1>5

(* A volume whose step is behind the recorded one is whole while the       *)
(* request is provisioned.                                                 *)
LEMMA HeldFinished ==
    ASSUME NEW m \in Machines, HoldInv(m), Provisioning(m)
    PROVE  \A k \in Attached : RecordedBy(k) < step[m] => vol[m][k] = "full"
  BY DEF HoldInv, Held, Provisioning

-----------------------------------------------------------------------------
(* A domain's volumes stay with it *)

(* What a step of m does to its domain.                                    *)
LEMMA DomStep ==
    ASSUME TypesInv, NEW m \in Machines, MachineStep(m)
    PROVE  \/ dom'[m] = dom[m]
           \/ op[m] = "define" /\ dom[m] = "none" /\ dom'[m] = "shutoff" /\ vol' = vol
           \/ PowerOn(m) /\ CanStart(m) /\ op[m] \in {"boot", "start"}
           \/ Undefine(m) /\ dom'[m] = "none"
           \/ dom[m] \in Active /\ dom'[m] \in Active \cup {"shutoff"} /\ vol' = vol
<1>0. dom \in [Machines -> States]
  BY DEF TypesInv, TypeOK, HostType
<1>1. UNCHANGED dom => dom'[m] = dom[m]
  OBVIOUS
<1>2. CASE Provision(m)
  <2>1. CASE DefineDomain(m)
    BY <1>0, <2>1 DEF DefineDomain
  <2>2. CASE BootDomain(m) \/ StartDomain(m)
    <3>1. UNCHANGED dom \/ (PowerOn(m) /\ CanStart(m) /\ op[m] \in {"boot", "start"})
      BY <2>2 DEF BootDomain, StartDomain
    <3>2. QED
      BY <1>1, <3>1
  <2>3. CASE \/ AskAround(m) \/ Purge(m) \/ GetPool(m) \/ MakePool(m) \/ Find(m)
             \/ CreateVol(m) \/ Upload(m) \/ GetPath(m) \/ CheckVolume(m)
             \/ ReadBridgeCount(m) \/ NextInterface(m) \/ Bump(m) \/ SaveSpec(m)
             \/ Advance(m)
    BY <1>1, <2>3 DEF AskAround, Purge, GetPool, MakePool, Find, CreateVol, Upload,
       GetPath, CheckVolume, ReadBridgeCount, NextInterface, Bump, SaveSpec, Advance, hostVars
  <2>4. QED
    BY <1>2, <2>1, <2>2, <2>3 DEF Provision
<1>3. CASE Deprovision(m)
  <2>1. CASE Undefine(m)
    BY <1>0, <2>1 DEF Undefine
  <2>2. CASE Destroy(m)
    BY <1>0, <1>1, <2>2 DEF Destroy, Active
  <2>3. CASE \/ RemoveNvram(m) \/ LookAtDomain(m) \/ WaitForShutdown(m)
             \/ UnknownState(m) \/ RemoveVolume(m) \/ Finish(m)
    BY <1>1, <2>3 DEF RemoveNvram, LookAtDomain, WaitForShutdown, UnknownState,
       RemoveVolume, Finish, hostVars
  <2>4. QED
    BY <1>3, <2>1, <2>2, <2>3 DEF Deprovision
<1>4. CASE \/ Reconcile(m) \/ ReconcileTeardown(m) \/ CallFails(m) \/ UploadFails(m)
           \/ Rerun(m) \/ RequestTeardown(m)
  BY <1>1, <1>4 DEF Reconcile, ReconcileTeardown, Begin, CallFails, UploadFails, Rerun,
                    RequestTeardown, hostVars
<1>5. CASE GuestChanges(m) \/ GuestPowersOff(m)
  BY <1>0, <1>5, GuestsAssumption DEF GuestChanges, GuestPowersOff, Active
<1>6. QED
  BY <1>2, <1>3, <1>4, <1>5 DEF MachineStep

LEMMA DomainStep ==
    ASSUME TypesInv, NEW m \in Machines, MachineStep(m),
           HoldInv(m), DomainInv(m), RemovalInv(m)
    PROVE  DomainInv(m)'
<1>0. /\ vol[m] \in [Kinds -> {"absent", "partial", "full"}]
      /\ "nvram" \in Kinds \ Attached /\ Attached \subseteq Kinds
      /\ step \in [Machines -> generateUUID..allDone]
  BY RecordedByKinds DEF TypesInv, TypeOK, RequestsType, HostType
<1>1. step[m] >= createVM => step'[m] >= createVM
  BY <1>0, StepSame DEF Advance
<1>2. CASE op[m] = "define" /\ vol' = vol /\ dom'[m] = "shutoff"
  <2>1. step[m] = createVM /\ Provisioning(m)
    BY <1>2 DEF TypesInv, OpInv, StepOps, StepsOf, MediumOps, DomainOps, Provisioning
  <2>2. \A k \in Attached : vol[m][k] = "full"
    BY <2>1, HeldFinished, RecordedByKinds
  <2>3. QED
    BY <1>0, <1>1, <1>2, <2>1, <2>2 DEF DomainInv
<1>3. CASE PowerOn(m) /\ CanStart(m)
  <2>1. dom[m] # "none" /\ dom'[m] = "running"
    BY <1>3 DEF PowerOn, CanStart, TypesInv, TypeOK, HostType
  <2>2. OnlyVol(m, "nvram", "full")
    BY <1>3 DEF PowerOn, SetVol, OnlyVol, TypesInv, TypeOK, HostType
  <2>3. QED
    BY <1>0, <1>1, <2>1, <2>2 DEF DomainInv, OnlyVol
<1>4. CASE Undefine(m) /\ dom'[m] = "none"
  <2>1. OnlyVol(m, "nvram", "absent")
    BY <1>4 DEF Undefine, SetVol, OnlyVol, TypesInv, TypeOK, HostType
  <2>2. QED
    BY <1>0, <1>4, <2>1 DEF DomainInv, OnlyVol
<1>5. CASE dom[m] \in Active /\ dom'[m] \in Active \cup {"shutoff"} /\ vol' = vol
  BY <1>0, <1>1, <1>5 DEF DomainInv, Active
<1>6. CASE dom'[m] = dom[m]
  <2>1. CASE dom[m] = "none"
    <3>1. ~(PowerOn(m) /\ CanStart(m))
      BY <2>1 DEF CanStart
    <3>2. op[m] \in {"purge", "create", "upload"} => Kind(m) # "nvram"
      BY <1>0, KindRecorded DEF MediumOps
    <3>3. vol[m]["nvram"] = "absent"
      BY <2>1 DEF DomainInv
    <3>4. vol'[m]["nvram"] = "absent"
      BY <1>0, <3>1, <3>2, <3>3, VolStep DEF OnlyVol
    <3>5. QED
      BY <1>6, <2>1, <3>4 DEF DomainInv
  <2>2. CASE dom[m] # "none"
    <3>1. op[m] # "volume" /\ step[m] >= createVM
      BY <2>2 DEF RemovalInv, DomainInv
    <3>2. op[m] \notin {"purge", "create", "upload"}
      BY <3>1 DEF TypesInv, OpInv, StepOps, StepsOf, MediumOps, DomainOps
    <3>3. \A k \in Attached : vol[m][k] = "full"
      BY <2>2 DEF DomainInv
    <3>4. \A k \in Attached : vol'[m][k] = "full"
      BY <1>0, <3>1, <3>2, <3>3, VolStep DEF OnlyVol
    <3>5. QED
      BY <1>0, <1>1, <1>6, <2>2, <3>1, <3>4 DEF DomainInv
  <2>3. QED
    BY <2>1, <2>2
<1>7. QED
  BY <1>2, <1>3, <1>4, <1>5, <1>6, DomStep

-----------------------------------------------------------------------------
(* A teardown removes what the spec records *)

LEMMA PrependTwo ==
    ASSUME NEW S, NEW s \in Seq(S), NEW a \in S, NEW b \in S
    PROVE  /\ (<<a, b>> \o s) \in Seq(S) /\ Len(<<a, b>> \o s) = Len(s) + 2
           /\ (<<a, b>> \o s)[1] = a /\ (<<a, b>> \o s)[2] = b
           /\ \A i \in 1..Len(s) : (<<a, b>> \o s)[i + 2] = s[i]
  OBVIOUS

LEMMA AppendOne ==
    ASSUME NEW S, NEW s \in Seq(S), NEW a \in S
    PROVE  /\ Len(s \o <<a>>) = Len(s) + 1 /\ (s \o <<a>>)[Len(s) + 1] = a
           /\ \A i \in 1..Len(s) : (s \o <<a>>)[i] = s[i]
  OBVIOUS

(* Every volume a domain refers to is in the order of removal. *)
LEMMA RemovalOrderCovers ==
    /\ Len(RemovalOrder) \in Nat \ {0}
    /\ \A i \in 1..Len(RemovalOrder) : RemovalOrder[i] \in Attached
    /\ \A k \in Attached : \E i \in 1..Len(RemovalOrder) : RemovalOrder[i] = k
<1> DEFINE names == STRING \cup {"main", "iso", "cidata"}
           front == <<"main", "iso">> \o ExtraDisks
<1>1. /\ ExtraDisks \in Seq(names)
      /\ "main" \in names /\ "iso" \in names /\ "cidata" \in names
  BY ExtraDisksAssumption
<1> HIDE DEF names
<1>2. /\ front \in Seq(names) /\ Len(front) = Len(ExtraDisks) + 2
      /\ front[1] = "main" /\ front[2] = "iso"
      /\ \A i \in 1..Len(ExtraDisks) : front[i + 2] = ExtraDisks[i]
  BY <1>1, PrependTwo
<1>3. /\ Len(RemovalOrder) = Len(front) + 1
      /\ \A i \in 1..Len(front) : RemovalOrder[i] = front[i]
      /\ RemovalOrder[Len(front) + 1] = "cidata"
  <2>1. RemovalOrder = front \o <<"cidata">>
    BY <1>1, Zenon DEF RemovalOrder
  <2> HIDE DEF front
  <2>2. QED
    BY <1>1, <1>2, <2>1, AppendOne
<1> HIDE DEF front
<1>4. Len(ExtraDisks) \in Nat
  BY <1>1
<1>5. ASSUME NEW k \in Attached
      PROVE  \E i \in 1..Len(RemovalOrder) : RemovalOrder[i] = k
  <2>1. CASE k = "main"
    BY <1>2, <1>3, <1>4, <2>1
  <2>2. CASE k = "iso"
    BY <1>2, <1>3, <1>4, <2>2
  <2>3. CASE k = "cidata"
    BY <1>2, <1>3, <1>4, <2>3
  <2>4. CASE k \in Extras
    <3>1. PICK i \in 1..Len(ExtraDisks) : k = ExtraDisks[i]
      BY <1>1, <2>4 DEF Extras
    <3>2. RemovalOrder[i + 2] = k /\ i + 2 \in 1..Len(RemovalOrder)
      BY <1>2, <1>3, <1>4, <3>1
    <3>3. QED
      BY <3>2
  <2>5. QED
    BY <2>1, <2>2, <2>3, <2>4 DEF Attached, Media, Disks
<1>6. ASSUME NEW i \in 1..Len(RemovalOrder)
      PROVE  RemovalOrder[i] \in Attached
  <2>1. CASE i \in 1..2
    BY <1>2, <1>3, <1>4, <2>1 DEF Attached, Media, Disks
  <2>2. CASE i - 2 \in 1..Len(ExtraDisks)
    <3>1. RemovalOrder[i] = ExtraDisks[i - 2]
      BY <1>2, <1>3, <1>4, <2>2
    <3>2. QED
      BY <1>1, <2>2, <3>1 DEF Attached, Disks, Extras
  <2>3. CASE i = Len(front) + 1
    BY <1>3, <2>3 DEF Attached, Media
  <2>4. QED
    BY <1>2, <1>3, <1>4, <2>1, <2>2, <2>3
<1>7. QED
  BY <1>2, <1>3, <1>4, <1>5, <1>6

(* A provisioning call is followed by another one, or by none.             *)
LEMMA ProvisionStays ==
    ASSUME TypesInv, NEW m \in Machines, Provision(m)
    PROVE  op'[m] \in StepOps \cup {"none"} /\ UNCHANGED req /\ op[m] # "none"
<1>0. op \in [Machines -> Ops] /\ step[m] \in generateUUID..allDone
  BY DEF TypesInv, TypeOK, RequestsType, JobsType
<1>1. \A o : Go(m, o) => op'[m] = o
  BY <1>0 DEF Go
<1>2. /\ Abort(m) \/ Rejected(m) => op'[m] = "none"
      /\ \A o : Reply(m, o) => op'[m] \in {o, "none"}
  BY <1>0 DEF Rejected, Abort, Reply, Go
<1> USE DEF StepOps, MediumOps, DomainOps
<1>3. CASE AskAround(m) \/ Purge(m) \/ GetPool(m) \/ MakePool(m)
  BY <1>1, <1>2, <1>3 DEF AskAround, NextOp, Purge, GetPool, MakePool, omniVars
<1>4. CASE Find(m) \/ CreateVol(m)
  BY <1>1, <1>2, <1>4 DEF Find, CreateVol, AfterDisk, omniVars
<1>5. CASE Upload(m) \/ GetPath(m) \/ CheckVolume(m) \/ ReadBridgeCount(m) \/ Bump(m)
  BY <1>1, <1>2, <1>5 DEF Upload, GetPath, CheckVolume, ReadBridgeCount, Bump, omniVars
<1>6. CASE NextInterface(m)
  BY <1>1, <1>6 DEF NextInterface, omniVars
<1>7. CASE DefineDomain(m) \/ BootDomain(m) \/ StartDomain(m) \/ SaveSpec(m)
  BY <1>1, <1>2, <1>7 DEF DefineDomain, BootDomain, StartDomain, SaveSpec
<1>8. CASE Advance(m)
  <2>1. step[m] + 1 \in generateUUID..startVM \/ FirstOp(step[m] + 1) = "none"
    BY <1>0 DEF FirstOp
  <2>2. FirstOp(step[m] + 1) \in StepOps \cup {"none"}
    BY <2>1, FirstOps
  <2>3. QED
    BY <1>1, <1>2, <1>8, <2>2 DEF Advance
<1>9. QED
  BY <1>3, <1>4, <1>5, <1>6, <1>7, <1>8 DEF Provision

(* A request that is gone is left alone.                                   *)
LEMMA GoneStays ==
    ASSUME TypesInv, NEW m \in Machines, RemovalInv(m), req[m] = "gone"
    PROVE  ~MachineStep(m)
<1>1. op[m] = "none" /\ dom[m] = "none"
  BY DEF RemovalInv
<1>2. ~Provision(m)
  BY <1>1, ProvisionStays
<1>3. ~Deprovision(m)
  BY <1>1 DEF Deprovision, RemoveNvram, LookAtDomain, Destroy, WaitForShutdown,
     UnknownState, Undefine, RemoveVolume, Finish
<1>4. QED
  BY <1>1, <1>2, <1>3 DEF MachineStep, Reconcile, ReconcileTeardown, CallFails,
     UploadFails, Rerun, RequestTeardown, GuestChanges, GuestPowersOff

LEMMA RemovalStep ==
    ASSUME TypesInv, NEW m \in Machines, MachineStep(m), RemovalInv(m)
    PROVE  RemovalInv(m)'
<1>0. /\ req \in [Machines -> {"running", "tearingDown", "gone"}]
      /\ op \in [Machines -> Ops] /\ pos \in [Machines -> Nat \ {0}]
      /\ vol \in [Machines -> [Kinds -> {"absent", "partial", "full"}]]
      /\ dom \in [Machines -> States]
      /\ saved \in [Machines -> 0..startVM]
      /\ req[m] # "gone"
  BY GoneStays DEF TypesInv, TypeOK, RequestsType, JobsType, HostType
<1>1. \A o : Go(m, o) => op'[m] = o
  BY <1>0 DEF Go
<1>2. /\ Abort(m) \/ Rejected(m) => op'[m] = "none"
      /\ \A o : Reply(m, o) => op'[m] \in {o, "none"}
  BY <1>0 DEF Rejected, Abort, Reply, Go
<1>3. ASSUME op'[m] \notin {"act", "volume", "finish"}, req'[m] # "gone"
      PROVE  RemovalInv(m)'
  BY <1>3 DEF RemovalInv
<1>4. CASE Reconcile(m) \/ ReconcileTeardown(m)
  <2>1. UNCHANGED req /\ op'[m] \in {FirstOp(step[m]), "nvram"}
    BY <1>1, <1>4 DEF Reconcile, ReconcileTeardown, Begin, omniVars
  <2>2. op'[m] \notin {"act", "volume", "finish"}
    BY <2>1 DEF FirstOp
  <2>3. QED
    BY <1>0, <1>3, <2>1, <2>2
<1>5. CASE Provision(m)
  BY <1>0, <1>3, <1>5, ProvisionStays DEF StepOps, MediumOps, DomainOps
<1>6. CASE CallFails(m) \/ UploadFails(m)
  BY <1>0, <1>2, <1>3, <1>6 DEF CallFails, UploadFails
<1>7. CASE Rerun(m) \/ RequestTeardown(m)
  <2>1. /\ UNCHANGED <<op, pos, vol, dom, saved>> /\ req'[m] # "gone"
    BY <1>0, <1>7 DEF Rerun, RequestTeardown, memVars, hostVars
  <2>2. QED
    BY <1>0, <2>1 DEF RemovalInv, Removed, Recorded
<1>8. CASE GuestChanges(m) \/ GuestPowersOff(m)
  <2>1. UNCHANGED <<req, op, pos, vol, saved>> /\ dom[m] # "none"
    BY <1>8 DEF GuestChanges, GuestPowersOff, omniVars, memVars
  <2>2. QED
    BY <1>0, <2>1 DEF RemovalInv, Removed, Recorded
<1>9. CASE RemoveNvram(m)
  BY <1>0, <1>1, <1>2, <1>3, <1>9 DEF RemoveNvram
<1>10. CASE Destroy(m) \/ WaitForShutdown(m) \/ UnknownState(m)
  BY <1>0, <1>2, <1>3, <1>10 DEF Destroy, WaitForShutdown, UnknownState
<1>11. ASSUME op'[m] \in {AfterDomain(m), "none"}, pos'[m] = 1, dom'[m] = "none",
              UNCHANGED <<req, saved>>
       PROVE  RemovalInv(m)'
  <2>1. op'[m] = "finish" => ~(saved'[m] >= provisionVMVolume)
    BY <1>11 DEF AfterDomain
  <2>2. 1 \in 1..Len(RemovalOrder)
    BY RemovalOrderCovers
  <2>3. op'[m] # "act"
    BY <1>11 DEF AfterDomain
  <2>4. QED
    BY <1>0, <1>11, <2>1, <2>2, <2>3 DEF RemovalInv
<1>12. CASE LookAtDomain(m)
  <2>1. /\ UNCHANGED <<req, saved, dom>> /\ pos'[m] = 1
        /\ op'[m] = IF dom[m] = "none" THEN AfterDomain(m) ELSE "act"
    BY <1>0, <1>1, <1>12 DEF LookAtDomain, omniVars, hostVars
  <2>2. CASE dom[m] = "none"
    BY <1>11, <2>1, <2>2
  <2>3. CASE dom[m] # "none"
    BY <1>0, <2>1, <2>3 DEF RemovalInv
  <2>4. QED
    BY <2>2, <2>3
<1>13. CASE Undefine(m)
  <2>1. pos[m] = 1
    BY <1>13 DEF Undefine, RemovalInv
  <2>2. op'[m] \in {AfterDomain(m), "none"} /\ pos'[m] = 1 /\ dom'[m] = "none"
        /\ UNCHANGED <<req, saved>>
    BY <1>0, <1>2, <1>13, <2>1 DEF Undefine, memVars
  <2>3. QED
    BY <1>11, <2>2
<1>14. CASE RemoveVolume(m)
  <2>1. /\ UNCHANGED <<req, saved, dom>> /\ dom[m] = "none"
        /\ pos[m] \in 1..Len(RemovalOrder)
        /\ \A i \in 1..(pos[m] - 1) : Removed(m, RemovalOrder[i])
    BY <1>14 DEF RemoveVolume, RemovalInv
  <2>2. PICK k \in Kinds : k = RemovalOrder[pos[m]]
    BY <2>1, RemovalOrderCovers, RecordedByKinds
  <2>3. CASE Rejected(m)
    BY <1>0, <1>2, <1>3, <2>1, <2>3
  <2>4. CASE /\ \/ SetVol(m, k, "absent")
                \/ UNCHANGED vol /\ (~Recorded(m, k) \/ RemovedAlready(m, k))
             /\ op'[m] \in {AfterVolume(m), "none"} /\ pos'[m] = pos[m] + 1
    <3>1. \A j \in Kinds : Removed(m, j) => Removed(m, j)'
      BY <1>0, <2>1, <2>4 DEF SetVol, Removed, Recorded
    <3>2. Removed(m, k)'
      BY <1>0, <2>1, <2>4 DEF SetVol, Removed, Recorded, RemovedAlready
    <3>3. \A i \in 1..pos[m] : Removed(m, RemovalOrder[i])'
      BY <2>1, <2>2, <3>1, <3>2, RemovalOrderCovers, RecordedByKinds
    <3>4. CASE op'[m] = "volume"
      <4>1. pos'[m] \in 1..Len(RemovalOrder) /\ pos'[m] - 1 = pos[m]
        BY <2>1, <2>4, <3>4, RemovalOrderCovers DEF AfterVolume
      <4>2. QED
        BY <1>0, <2>1, <3>3, <3>4, <4>1 DEF RemovalInv
    <3>5. CASE op'[m] = "finish"
      <4>1. pos[m] = Len(RemovalOrder)
        BY <2>4, <3>5 DEF AfterVolume
      <4>2. \A j \in Attached : Removed(m, j)'
        BY <3>3, <4>1, RemovalOrderCovers
      <4>3. QED
        BY <1>0, <2>1, <3>5, <4>2 DEF RemovalInv
    <3>6. CASE op'[m] = "none"
      BY <1>0, <1>3, <2>1, <3>6
    <3>7. QED
      BY <2>4, <3>4, <3>5, <3>6 DEF AfterVolume
  <2>5. QED
    BY <1>0, <1>1, <1>2, <2>2, <2>3, <2>4, <1>14 DEF RemoveVolume
<1>15. CASE Finish(m)
  <2>1. /\ UNCHANGED <<saved, vol, dom>> /\ dom[m] = "none" /\ op'[m] = "none"
        /\ op[m] = "finish"
    BY <1>1, <1>15 DEF Finish, hostVars, RemovalInv
  <2>2. QED
    BY <1>0, <2>1 DEF RemovalInv, Removed, Recorded
<1>16. QED
  BY <1>4, <1>5, <1>6, <1>7, <1>8, <1>9, <1>10, <1>12, <1>13, <1>14, <1>15
     DEF MachineStep, Deprovision

-----------------------------------------------------------------------------
(* The safety properties are invariant *)

LEMMA InitMachines ==
    ASSUME Init, NEW m \in Machines
    PROVE  MachineInv(m)
<1>1. /\ \A k \in Kinds : vol[m][k] = "absent"
      /\ req[m] = "running" /\ op[m] = "none" /\ dom[m] = "none"
      /\ step[m] = generateUUID
  BY DEF Init
<1>2. DisksWhole(m) /\ DomainInv(m) /\ RemovalInv(m)
  BY <1>1 DEF DisksWhole, DomainInv, RemovalInv, Disks, Kinds
<1>3. HoldInv(m)
  BY <1>1, RecordedByKinds DEF HoldInv, Held
<1>4. QED
  BY <1>2, <1>3 DEF MachineInv

LEMMA SameMachine ==
    ASSUME NEW m \in Machines, Same(m), MachineInv(m)
    PROVE  MachineInv(m)'
  BY DEF Same, MachineInv, DisksWhole, HoldInv, Held, DomainInv, RemovalInv, Removed, Recorded

LEMMA CrashMachine ==
    ASSUME Crash, NEW m \in Machines, MachineInv(m)
    PROVE  MachineInv(m)'
<1>1. op'[m] = "none" /\ UNCHANGED <<req, step, saved, vol, dom>>
  BY DEF Crash, omniVars, hostVars
<1>2. DisksWhole(m)' /\ DomainInv(m)'
  BY <1>1 DEF MachineInv, DisksWhole, DomainInv
<1>3. HoldInv(m)'
  BY <1>1 DEF MachineInv, HoldInv, Held, StepOps, MediumOps, DomainOps
<1>4. RemovalInv(m)'
  BY <1>1 DEF MachineInv, RemovalInv, Removed, Recorded
<1>5. QED
  BY <1>2, <1>3, <1>4 DEF MachineInv

LEMMA Inductive ==
    ASSUME IInv, [Next]_vars
    PROVE  IInv'
<1>0. TypesInv /\ \A n \in Machines : MachineInv(n)
  BY DEF IInv
<1>1. TypesInv'
  BY <1>0, NextTypes, TypesStutter
<1>2. ASSUME NEW m \in Machines, MachineStep(m), NEW n \in Machines
      PROVE  MachineInv(n)'
  <2>1. CASE n = m
    <3>1. DisksWhole(m) /\ HoldInv(m) /\ DomainInv(m) /\ RemovalInv(m)
      BY <1>0 DEF MachineInv
    <3>2. QED
      BY <1>0, <1>2, <2>1, <3>1, WholeStep, HoldStep, DomainStep, RemovalStep DEF MachineInv
  <2>2. CASE n # m
    <3>1. Same(n)
      BY <1>0, <1>2, <2>2, OthersSame DEF TypesInv
    <3>2. QED
      BY <1>0, <3>1, SameMachine
  <2>3. QED
    BY <2>1, <2>2
<1>3. ASSUME Crash, NEW n \in Machines
      PROVE  MachineInv(n)'
  BY <1>0, <1>3, CrashMachine
<1>4. ASSUME UNCHANGED vars, NEW n \in Machines
      PROVE  MachineInv(n)'
  BY <1>0, <1>4, SameMachine DEF vars, Same
<1>5. QED
  BY <1>1, <1>2, <1>3, <1>4 DEF Next, MachineStep, IInv

LEMMA AlwaysIInv == Spec => []IInv
<1>1. Init => IInv
  BY InitTypes, InitMachines DEF IInv
<1>2. IInv /\ [Next]_vars => IInv'
  BY Inductive
<1>3. QED
  BY <1>1, <1>2, PTL DEF Spec

(* From its definition to its end a domain's media are whole and its disks *)
(* exist: createVM is never reached with a half-uploaded image, and no     *)
(* purge, re-run or removal takes a volume from under a domain.            *)
THEOREM DomainsComplete == Spec => []AttachedComplete
<1>1. IInv => AttachedComplete
  BY DEF IInv, MachineInv, DomainInv, AttachedComplete
<1>2. QED
  BY <1>1, AlwaysIInv, PTL

(* What a finished step has made is there as long as the request is wanted.*)
THEOREM FinishedStays == Spec => []FinishedStepsHold
<1>1. IInv => FinishedStepsHold
  <2>1. ASSUME IInv, NEW m \in Machines, req[m] = "running", NEW k \in Attached,
               step[m] > RecordedBy(k)
        PROVE  vol[m][k] = "full"
    <3>1. RecordedBy(k) < step[m]
      BY <2>1, RecordedByKinds DEF IInv, TypesInv, TypeOK, RequestsType
    <3>2. QED
      BY <2>1, <3>1 DEF IInv, MachineInv, HoldInv, Held
  <2>2. QED
    BY <2>1 DEF FinishedStepsHold
<1>2. QED
  BY <1>1, AlwaysIInv, PTL

(* A request Omni has dropped has left no domain, no NVRAM and, from the   *)
(* step that records the pool on, no volume of its spec on the host.       *)
THEOREM GoneIsClean == Spec => []TeardownClean
<1>1. IInv => TeardownClean
  BY DEF IInv, MachineInv, DomainInv, RemovalInv, Removed, TeardownClean
<1>2. QED
  BY <1>1, AlwaysIInv, PTL

-----------------------------------------------------------------------------
(* What a teardown can leave behind *)

(* The recorded step is at most one ahead of the saved one, and no volume  *)
(* of a step after the recorded one has been made.                         *)
AheadInv(m) ==
    /\ step[m] <= saved[m] + 1
    /\ op[m] = "advance" => saved[m] = step[m]
    /\ \A k \in Attached : vol[m][k] # "absent" => RecordedBy(k) <= step[m]

LEMMA SavedSame ==
    ASSUME NEW m \in Machines, MachineStep(m), ~SaveSpec(m)
    PROVE  UNCHANGED saved
  BY DEF MachineStep, Provision, Deprovision, Reconcile, ReconcileTeardown, Begin,
     AskAround, Purge, GetPool, MakePool, Find, CreateVol, Upload, GetPath,
     CheckVolume, ReadBridgeCount, NextInterface, Bump, DefineDomain, BootDomain,
     StartDomain, Advance, RemoveNvram, LookAtDomain, Destroy, WaitForShutdown,
     UnknownState, Undefine, RemoveVolume, Finish, CallFails, UploadFails, Rerun,
     RequestTeardown, GuestChanges, GuestPowersOff, omniVars

(* A step is recorded only after its results have been saved.              *)
LEMMA AdvanceAfterSave ==
    ASSUME TypesInv, NEW m \in Machines, MachineStep(m), op'[m] = "advance"
    PROVE  (op[m] = "advance" /\ ~Advance(m)) \/ SaveSpec(m)
<1>0. op \in [Machines -> Ops]
  BY DEF TypesInv, TypeOK, JobsType
<1>1. \A o : Go(m, o) => o = "advance"
  BY <1>0 DEF Go
<1>2. /\ ~Abort(m) /\ ~Rejected(m)
      /\ \A o : Reply(m, o) => o = "advance"
  BY <1>0, <1>1 DEF Rejected, Abort, Reply, Go
<1>3. \A s : FirstOp(s) # "advance"
  BY DEF FirstOp
<1>4. CASE Reconcile(m) \/ ReconcileTeardown(m)
  BY <1>1, <1>3, <1>4 DEF Reconcile, ReconcileTeardown, Begin
<1>5. CASE Provision(m)
  <2>1. ~AskAround(m) /\ ~Purge(m) /\ ~GetPool(m) /\ ~MakePool(m) /\ ~Find(m)
    BY <1>1, <1>2 DEF AskAround, NextOp, Purge, GetPool, MakePool, Find, AfterDisk
  <2>2. ~CreateVol(m) /\ ~Upload(m) /\ ~GetPath(m) /\ ~CheckVolume(m)
    BY <1>1, <1>2 DEF CreateVol, AfterDisk, Upload, GetPath, CheckVolume
  <2>3. ~ReadBridgeCount(m) /\ ~Bump(m) /\ ~DefineDomain(m)
    BY <1>1, <1>2 DEF ReadBridgeCount, Bump, DefineDomain
  <2>4. ~BootDomain(m) /\ ~StartDomain(m) /\ ~Advance(m)
    BY <1>1, <1>2, <1>3 DEF BootDomain, StartDomain, Advance
  <2>5. ~NextInterface(m)
    BY <1>1 DEF NextInterface
  <2>6. QED
    BY <1>5, <2>1, <2>2, <2>3, <2>4, <2>5 DEF Provision
<1>6. ~Deprovision(m)
  BY <1>1, <1>2 DEF Deprovision, RemoveNvram, LookAtDomain, Destroy, WaitForShutdown,
     UnknownState, Undefine, RemoveVolume, Finish, AfterDomain, AfterVolume
<1>7. ~CallFails(m) /\ ~UploadFails(m)
  BY <1>2 DEF CallFails, UploadFails
<1>8. CASE Rerun(m) \/ RequestTeardown(m) \/ GuestChanges(m) \/ GuestPowersOff(m)
  <2>1. UNCHANGED op
    BY <1>8 DEF Rerun, RequestTeardown, GuestChanges, GuestPowersOff
  <2>2. ~Advance(m)
    BY <1>1, <1>2, <1>3 DEF Advance
  <2>3. QED
    BY <2>1, <2>2
<1>9. QED
  BY <1>4, <1>5, <1>6, <1>7, <1>8 DEF MachineStep

LEMMA AheadStep ==
    ASSUME TypesInv, NEW m \in Machines, MachineStep(m), AheadInv(m)
    PROVE  AheadInv(m)'
<1>0. /\ step \in [Machines -> generateUUID..allDone]
      /\ saved \in [Machines -> 0..startVM]
      /\ vol[m] \in [Kinds -> {"absent", "partial", "full"}]
      /\ op \in [Machines -> Ops]
  BY DEF TypesInv, TypeOK, RequestsType, JobsType, HostType
<1>1. CASE Advance(m)
  <2>1. /\ step'[m] = step[m] + 1 /\ UNCHANGED <<saved, vol>> /\ saved[m] = step[m]
    BY <1>0, <1>1 DEF Advance, hostVars, AheadInv
  <2>2. op'[m] # "advance"
    BY <1>1, AdvanceAfterSave DEF SaveSpec, Advance
  <2>3. QED
    BY <1>0, <2>1, <2>2, RecordedByKinds DEF AheadInv
<1>2. CASE SaveSpec(m)
  <2>1. saved'[m] = step[m] /\ UNCHANGED <<step, vol>>
    BY <1>0, <1>2 DEF SaveSpec, hostVars
  <2>2. QED
    BY <1>0, <2>1, RecordedByKinds DEF AheadInv
<1>3. CASE ~Advance(m) /\ ~SaveSpec(m)
  <2>1. UNCHANGED <<step, saved>>
    BY <1>3, StepSame, SavedSame
  <2>2. op'[m] = "advance" => op[m] = "advance"
    BY <1>3, AdvanceAfterSave
  <2>3. \A k \in Attached : vol'[m][k] # "absent" => vol[m][k] # "absent" \/ RecordedBy(k) = step[m]
    <3>1. op[m] \in {"purge", "create", "upload"} => RecordedBy(Kind(m)) = step[m]
      BY KindRecorded DEF MediumOps
    <3>2. QED
      BY <1>0, <3>1, VolStep, RecordedByKinds DEF OnlyVol
  <2>4. QED
    BY <1>0, <2>1, <2>2, <2>3 DEF AheadInv
<1>4. QED
  BY <1>1, <1>2, <1>3

LEMMA AlwaysAhead == Spec => [](\A m \in Machines : AheadInv(m))
<1> DEFINE Ahead == \A m \in Machines : AheadInv(m)
<1>1. Init => Ahead
  <2> SUFFICES ASSUME Init, NEW m \in Machines
               PROVE  AheadInv(m)
    OBVIOUS
  <2>1. /\ step[m] = generateUUID /\ saved[m] = 0 /\ op[m] = "none"
        /\ \A k \in Attached : vol[m][k] = "absent"
    BY RecordedByKinds DEF Init
  <2>2. QED
    BY <2>1 DEF AheadInv
<1>2. TypesInv /\ Ahead /\ [Next]_vars => Ahead'
  <2> SUFFICES ASSUME TypesInv, Ahead, [Next]_vars, NEW n \in Machines
               PROVE  AheadInv(n)'
    OBVIOUS
  <2>1. ASSUME NEW m \in Machines, MachineStep(m)
        PROVE  AheadInv(n)'
    <3>1. CASE n = m
      BY <2>1, <3>1, AheadStep
    <3>2. CASE n # m
      <4>1. Same(n)
        BY <2>1, <3>2, OthersSame DEF TypesInv
      <4>2. QED
        BY <4>1 DEF Same, AheadInv
    <3>3. QED
      BY <3>1, <3>2
  <2>2. CASE Crash
    BY <2>2 DEF Crash, omniVars, hostVars, AheadInv
  <2>3. CASE UNCHANGED vars
    BY <2>3 DEF vars, AheadInv
  <2>4. QED
    BY <2>1, <2>2, <2>3 DEF Next, MachineStep
<1>3. IInv => TypesInv
  BY DEF IInv
<1> QED
  BY <1>1, <1>2, <1>3, AlwaysIInv, PTL DEF Spec

(* When a request is gone, the volumes on the host that are its own are    *)
(* those of the one step whose results the teardown kept from being saved, *)
(* and, without the pool's name in the spec, those of the steps before.    *)
THEOREM LittleIsLeft == Spec => []LeftByOneStep
<1>1. IInv /\ (\A m \in Machines : AheadInv(m)) => LeftByOneStep
  <2> SUFFICES ASSUME IInv, \A m \in Machines : AheadInv(m),
                      NEW m \in Machines, req[m] = "gone",
                      NEW k \in Kinds, vol[m][k] # "absent"
               PROVE  \/ RecordedBy(k) = saved[m] + 1
                      \/ Recorded(m, k) /\ saved[m] < provisionVMVolume
    BY DEF LeftByOneStep
  <2>1. /\ saved[m] \in 0..startVM /\ step[m] \in generateUUID..allDone
        /\ DomainInv(m) /\ RemovalInv(m) /\ AheadInv(m)
    BY DEF IInv, MachineInv, TypesInv, TypeOK, RequestsType
  <2>2. k \in Attached
    <3>1. vol[m]["nvram"] = "absent"
      BY <2>1 DEF DomainInv, RemovalInv
    <3>2. QED
      BY <3>1 DEF Kinds, Attached
  <2>3. RecordedBy(k) \in provisionISO..provisionCidata /\ RecordedBy(k) <= saved[m] + 1
    BY <2>1, <2>2, RecordedByKinds DEF AheadInv
  <2>4. saved[m] >= provisionVMVolume => ~Recorded(m, k)
    BY <2>1, <2>2 DEF RemovalInv, Removed
  <2>5. QED
    BY <2>1, <2>3, <2>4 DEF Recorded
<1>2. QED
  BY <1>1, AlwaysIInv, AlwaysAhead, PTL

=============================================================================
