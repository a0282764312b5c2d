--------------------------- MODULE ImageUseProofs ---------------------------
(***************************************************************************)
(* Theorems about provisioning together with the image cache, for any set  *)
(* of requests and images: what is proved of Provisioner holds of it, the  *)
(* leases on images, and why a request can fail.                           *)
(***************************************************************************)
EXTENDS ImageUse, ProvisionerRefinement

USE DEF generateUUID, createSchematic, provisionISO, provisionVMVolume,
        provisionAdditionalDisks, provisionCidata, createVM, startVM, allDone

-----------------------------------------------------------------------------
(* Provisioning with the cache is provisioning *)

LEMMA StepOfRequest ==
    ASSUME NEW m \in Machines, OfRequest(m)
    PROVE  MachineStep(m) /\ Next
  BY DEF OfRequest, MachineStep, Next

LEMMA UseNextIsNext == [UseNext]_useVars => [Next]_vars
<1>1. ASSUME NEW m \in Machines, Step(m)
      PROVE  Next
  BY <1>1, StepOfRequest DEF Step
<1>2. ASSUME NEW k \in Images, Grant(k) \/ Evict(k)
      PROVE  UNCHANGED vars
  BY <1>2 DEF Grant, Evict
<1>3. Restart => Next
  BY DEF Restart, Next
<1>4. UNCHANGED useVars => UNCHANGED vars
  BY DEF useVars
<1>5. QED
  BY <1>1, <1>2, <1>3, <1>4 DEF UseNext

(* The leases only ever hold a request back: with them the steps still are *)
(* those of Provisioner, and all that is proved of it holds here.          *)
THEOREM UseImplementsProvisioner == UseSpec => Spec
<1>1. UseInit => Init
  BY DEF UseInit
<1>2. QED
  BY <1>1, UseNextIsNext, PTL DEF UseSpec, Spec

(* A domain is complete and a request that is gone has left nothing of its *)
(* spec behind, also where requests share images.                          *)
THEOREM UseKeepsHost == UseSpec => [](AttachedComplete /\ TeardownClean)
  BY UseImplementsProvisioner, DomainsComplete, GoneIsClean, PTL

-----------------------------------------------------------------------------
(* The leases *)

LeaseType ==
    /\ images \in SUBSET Images
    /\ lease \in [Machines -> Images \cup {None}]

(* A lease is on the request's own image and belongs to provisionISO; from *)
(* the end of Acquire to that of the upload there is one.                  *)
LeaseInv(m) ==
    /\ lease[m] # None =>
        /\ lease[m] = ImageOf[m] /\ ImageOf[m] \in images
        /\ step[m] = provisionISO /\ op[m] \in Reading \cup {"acquire", "path"}
    /\ step[m] = provisionISO /\ op[m] \in Reading => lease[m] # None

(* Where a call of provisionISO leads. *)
LEMMA IsoGoesOn ==
    ASSUME TypesInv, NEW m \in Machines, MachineStep(m),
           step[m] = provisionISO, op[m] \in Reading \cup {"acquire", "path"}
    PROVE  /\ step'[m] = provisionISO
           /\ op'[m] \in Reading \cup {"acquire", "path", "none", "save"}
<1>0. op \in [Machines -> Ops]
  BY DEF TypesInv, TypeOK, JobsType
<1>1. \A o : Go(m, o) => op'[m] = o
  BY <1>0 DEF Go
<1>2. /\ Abort(m) \/ Rejected(m) => op'[m] = "none"
      /\ \A o : Reply(m, o) => op'[m] \in {o, "none"}
  BY <1>0 DEF Rejected, Abort, Reply, Go
<1>3. UNCHANGED step
  BY StepSame DEF Advance, Reading
<1>4. CASE Provision(m)
  <2>0. CASE AskAround(m)
    <3>1. op[m] = "acquire" /\ NextOp["acquire"] = "purge"
      BY <2>0 DEF AskAround, NextOp, Reading
    <3>2. QED
      BY <1>1, <1>3, <2>0, <3>1 DEF AskAround, Reading
  <2>1. CASE Purge(m) \/ GetPool(m) \/ MakePool(m) \/ Upload(m) \/ GetPath(m)
    BY <1>1, <1>2, <1>3, <2>1 DEF Purge, GetPool, MakePool, Upload, GetPath, Reading
  <2>2. CASE CreateVol(m)
    <3>1. Kind(m) \in Media
      BY <2>2, KindRecorded DEF CreateVol
    <3>2. QED
      BY <1>1, <1>2, <1>3, <2>2, <3>1 DEF CreateVol, Reading
  <2>3. /\ ~Find(m) /\ ~CheckVolume(m) /\ ~ReadBridgeCount(m) /\ ~NextInterface(m)
        /\ ~Bump(m) /\ ~DefineDomain(m) /\ ~BootDomain(m) /\ ~StartDomain(m)
        /\ ~SaveSpec(m) /\ ~Advance(m)
    BY DEF Find, CheckVolume, ReadBridgeCount, NextInterface, Bump, DefineDomain,
       BootDomain, StartDomain, SaveSpec, Advance, Reading
  <2>4. QED
    BY <1>4, <2>0, <2>1, <2>2, <2>3 DEF Provision
<1>5. /\ ~Reconcile(m) /\ ~ReconcileTeardown(m) /\ ~Deprovision(m) /\ ~Rerun(m)
  BY DEF Reconcile, ReconcileTeardown, Begin, Deprovision, RemoveNvram, LookAtDomain,
     Destroy, WaitForShutdown, UnknownState, Undefine, RemoveVolume, Finish, Rerun, Reading
<1>6. CASE CallFails(m) \/ UploadFails(m)
  BY <1>2, <1>3, <1>6 DEF CallFails, UploadFails
<1>7. CASE RequestTeardown(m) \/ GuestChanges(m) \/ GuestPowersOff(m)
  BY <1>3, <1>7 DEF RequestTeardown, GuestChanges, GuestPowersOff
<1>8. QED
  BY <1>3, <1>4, <1>5, <1>6, <1>7 DEF MachineStep

(* Where the calls that read the image come from. *)
LEMMA ReadingAfter ==
    ASSUME TypesInv, NEW m \in Machines, MachineStep(m),
           step'[m] = provisionISO, op'[m] \in Reading
    PROVE  step[m] = provisionISO /\ op[m] \in Reading \cup {"acquire"}
<1>0. op \in [Machines -> Ops] /\ step \in [Machines -> generateUUID..allDone]
  BY DEF TypesInv, TypeOK, RequestsType, JobsType
<1>1. \A o : Go(m, o) => op'[m] = o
  BY <1>0 DEF Go
<1>2. /\ ~Abort(m) /\ ~Rejected(m)
      /\ \A o : Reply(m, o) => op'[m] = o
  BY <1>0, <1>1 DEF Rejected, Abort, Reply, Go, Reading
<1>3. FirstOp(provisionISO) = "acquire"
  BY DEF FirstOp
<1>4. ~Advance(m)
  <2>1. ASSUME Advance(m) PROVE FALSE
    <3>1. step[m] + 1 = provisionISO
      BY <1>0, <2>1 DEF Advance
    <3>2. op'[m] = "acquire"
      BY <1>0, <1>1, <1>2, <1>3, <2>1, <3>1 DEF Advance
    <3>3. QED
      BY <3>2 DEF Reading
  <2>2. QED
    BY <2>1
<1>5. step[m] = provisionISO
  BY <1>4, StepSame
<1>6. CASE Reconcile(m) \/ ReconcileTeardown(m)
  BY <1>1, <1>3, <1>5, <1>6 DEF Reconcile, ReconcileTeardown, Begin, Reading
<1>7. CASE Provision(m)
  <2>1. op[m] \in StepOps => provisionISO \in StepsOf(op[m])
    BY <1>5 DEF TypesInv, OpInv
  <2>2. /\ ~Find(m) /\ ~CheckVolume(m) /\ ~ReadBridgeCount(m) /\ ~NextInterface(m)
        /\ ~Bump(m) /\ ~DefineDomain(m) /\ ~BootDomain(m) /\ ~StartDomain(m)
    BY <2>1 DEF Find, CheckVolume, ReadBridgeCount, NextInterface, Bump, DefineDomain,
       BootDomain, StartDomain, StepOps, StepsOf, MediumOps, DomainOps
  <2>3. ~SaveSpec(m) /\ ~GetPath(m)
    BY <1>1, <1>2 DEF SaveSpec, GetPath, Reading
  <2>4. CASE AskAround(m)
    BY <1>5, <2>1, <2>4 DEF AskAround, NextOp, StepOps, StepsOf, MediumOps, DomainOps
  <2>5. CASE Purge(m) \/ GetPool(m) \/ MakePool(m) \/ CreateVol(m) \/ Upload(m)
    BY <1>5, <2>5 DEF Purge, GetPool, MakePool, CreateVol, Upload, Reading
  <2>6. QED
    BY <1>4, <1>7, <2>2, <2>3, <2>4, <2>5 DEF Provision
<1>8. ~Deprovision(m)
  BY <1>1, <1>2 DEF Deprovision, RemoveNvram, LookAtDomain, Destroy, WaitForShutdown,
     UnknownState, Undefine, RemoveVolume, Finish, AfterDomain, AfterVolume, Reading
<1>9. ~CallFails(m) /\ ~UploadFails(m)
  BY <1>2 DEF CallFails, UploadFails
<1>10. CASE Rerun(m) \/ RequestTeardown(m) \/ GuestChanges(m) \/ GuestPowersOff(m)
  BY <1>5, <1>10 DEF Rerun, RequestTeardown, GuestChanges, GuestPowersOff
<1>11. QED
  BY <1>6, <1>7, <1>8, <1>9, <1>10 DEF MachineStep

(* The image is read only after Acquire has returned with it. *)
LEMMA ReadsAfterAcquire ==
    ASSUME TypesInv, NEW m \in Machines, OfRequest(m), op[m] = "acquire", op'[m] \in Reading
    PROVE  ~Waits(m)
<1>0. op \in [Machines -> Ops]
  BY DEF TypesInv, TypeOK, JobsType
<1>1. ~CallFails(m) /\ ~UploadFails(m)
  BY <1>0 DEF CallFails, UploadFails, Abort, Go, Reading
<1>2. /\ ~Reconcile(m) /\ ~ReconcileTeardown(m) /\ ~Deprovision(m) /\ ~Rerun(m)
  BY DEF Reconcile, ReconcileTeardown, Begin, Deprovision, RemoveNvram, LookAtDomain,
     Destroy, WaitForShutdown, UnknownState, Undefine, RemoveVolume, Finish, Rerun
<1>3. ~RequestTeardown(m) /\ ~GuestChanges(m) /\ ~GuestPowersOff(m)
  BY DEF RequestTeardown, GuestChanges, GuestPowersOff, Reading
<1>4. QED
  BY <1>1, <1>2, <1>3 DEF OfRequest

LEMMA StepLeases ==
    ASSUME TypesInv, LeaseType, NEW m \in Machines, Step(m),
           NEW n \in Machines, LeaseInv(n)
    PROVE  LeaseType' /\ LeaseInv(n)'
<1>0. /\ MachineStep(m) /\ OfRequest(m) /\ None \notin Images
      /\ images' = images
      /\ lease' = IF lease[m] # None /\ Returns(m) THEN [lease EXCEPT ![m] = None] ELSE lease
  BY StepOfRequest, ImageOfAssumption DEF Step, Cache!Return
<1>1. LeaseType'
  BY <1>0 DEF LeaseType
<1>2. CASE n # m
  <2>1. Same(n) /\ lease'[n] = lease[n]
    BY <1>0, <1>2, OthersSame DEF TypesInv, LeaseType
  <2>2. QED
    BY <1>0, <1>1, <2>1 DEF Same, LeaseInv
<1>3. CASE n = m /\ lease[m] # None /\ Returns(m)
  BY <1>0, <1>1, <1>3 DEF LeaseType, LeaseInv, Returns, Reading
<1>4. CASE n = m /\ lease[m] # None /\ ~Returns(m)
  <2>1. step[m] = provisionISO /\ op[m] \in Reading \cup {"acquire", "path"}
    BY <1>4 DEF LeaseInv
  <2>2. step'[m] = provisionISO /\ op'[m] \in Reading \cup {"acquire", "path"}
    BY <1>0, <1>4, <2>1, IsoGoesOn DEF Returns
  <2>3. QED
    BY <1>0, <1>1, <1>4, <2>2 DEF LeaseInv
<1>5. CASE n = m /\ lease[m] = None
  <2>1. ~(step'[m] = provisionISO /\ op'[m] \in Reading)
    BY <1>0, <1>5, ReadingAfter, ReadsAfterAcquire DEF LeaseInv, Waits
  <2>2. QED
    BY <1>0, <1>1, <1>5, <2>1 DEF LeaseInv
<1>6. QED
  BY <1>2, <1>3, <1>4, <1>5

LEMMA GrantLeases ==
    ASSUME TypesInv, LeaseType, NEW k \in Images, Grant(k), NEW n \in Machines, LeaseInv(n)
    PROVE  LeaseType' /\ LeaseInv(n)'
<1>1. PICK callers \in SUBSET {m \in Machines : Waits(m) /\ ImageOf[m] = k} :
          /\ images' = images \cup {k}
          /\ lease' = [m \in Machines |-> IF m \in callers THEN k ELSE lease[m]]
  BY DEF Grant, Cache!Grant
<1>2. LeaseType' /\ UNCHANGED <<step, op>>
  BY <1>1 DEF LeaseType, Grant, vars
<1>3. CASE n \in callers
  <2>1. op[n] = "acquire" /\ ImageOf[n] = k
    BY <1>3 DEF Waits
  <2>2. step[n] = provisionISO
    BY <2>1 DEF TypesInv, OpInv, StepOps, StepsOf, MediumOps, DomainOps
  <2>3. QED
    BY <1>1, <1>2, <1>3, <2>1, <2>2 DEF LeaseInv
<1>4. CASE n \notin callers
  BY <1>1, <1>2, <1>4 DEF LeaseInv
<1>5. QED
  BY <1>2, <1>3, <1>4

LEMMA EvictLeases ==
    ASSUME LeaseType, NEW k \in Images, Evict(k), NEW n \in Machines, LeaseInv(n)
    PROVE  LeaseType' /\ LeaseInv(n)'
<1>1. UNCHANGED <<step, op>>
  BY DEF Evict, vars
<1>2. QED
  BY <1>1, ImageOfAssumption DEF LeaseType, LeaseInv, Evict, Cache!Evict

LEMMA RestartLeases ==
    ASSUME LeaseType, Restart, NEW n \in Machines
    PROVE  LeaseType' /\ LeaseInv(n)'
<1>1. op'[n] = "none" /\ images' = images /\ lease' = [m \in Machines |-> None]
  BY DEF Restart, Crash, Cache!Restart, Cache!NoLease
<1>2. QED
  BY <1>1 DEF LeaseType, LeaseInv, Reading

LeasesInv == LeaseType /\ \A m \in Machines : LeaseInv(m)

LEMMA InitLeases == UseInit => LeasesInv
  BY DEF UseInit, Init, Cache!Init, Cache!NoLease, LeasesInv, LeaseType, LeaseInv, Reading

LEMMA NextLeases ==
    ASSUME TypesInv, LeasesInv, [UseNext]_useVars
    PROVE  LeasesInv'
<1>1. LeaseType /\ \A n \in Machines : LeaseInv(n)
  BY DEF LeasesInv
<1>2. ASSUME UNCHANGED useVars
      PROVE  LeasesInv'
  BY <1>1, <1>2 DEF useVars, vars, LeasesInv, LeaseType, LeaseInv
<1>3. CASE UseNext
  <2>1. LeaseType'
    <3>1. CASE Machines = {}
      BY <1>1, <1>3, <3>1 DEF UseNext, LeaseType, Restart, Cache!Restart, Cache!NoLease, Images
    <3>2. CASE Machines # {}
      BY <1>1, <1>3, <3>2, StepLeases, GrantLeases, EvictLeases, RestartLeases DEF UseNext
    <3>3. QED
      BY <3>1, <3>2
  <2>2. ASSUME NEW n \in Machines
        PROVE  LeaseInv(n)'
    BY <1>1, <1>3, <2>2, StepLeases, GrantLeases, EvictLeases, RestartLeases DEF UseNext
  <2>3. QED
    BY <2>1, <2>2 DEF LeasesInv
<1>4. QED
  BY <1>2, <1>3

LEMMA AlwaysLeases == UseSpec => []LeasesInv
<1>1. UseSpec => []TypesInv
  <2>1. IInv => TypesInv
    BY DEF IInv
  <2>2. QED
    BY <2>1, UseImplementsProvisioner, AlwaysIInv, PTL
<1>2. UseInit => LeasesInv
  BY InitLeases
<1>3. TypesInv /\ LeasesInv /\ [UseNext]_useVars => LeasesInv'
  BY NextLeases
<1>4. QED
  BY <1>1, <1>2, <1>3, PTL DEF UseSpec

(* While provisionISO reads its image, from Acquire to the end of the      *)
(* upload, the cache does not let go of it.                                *)
THEOREM ReadImageStays == UseSpec => []UploadReadsImage
<1>1. LeasesInv => UploadReadsImage
  BY DEF LeasesInv, LeaseInv, UploadReadsImage
<1>2. QED
  BY <1>1, AlwaysLeases, PTL

(* A lease ends with its step, however the step ends.                      *)
THEOREM LeasesEnd == UseSpec => []NoLeaseLeaks
<1>1. LeasesInv => NoLeaseLeaks
  BY DEF LeasesInv, LeaseInv, NoLeaseLeaks
<1>2. QED
  BY <1>1, AlwaysLeases, PTL

-----------------------------------------------------------------------------
(* Why a request fails *)

(* What holds of a request none of whose calls has gone wrong: a volume it *)
(* is about to make is not there (as long as the pool is), a pool it tries *)
(* to make is not either, and it is the one that defines its domain, which *)
(* it may have failed to start.                                            *)
Smooth(m) ==
    /\ op[m] = "pool" => vol[m][Kind(m)] = "absent"
    /\ op[m] = "makePool" => PoolOf(Kind(m)) \notin pools
    /\ op[m] = "create" /\ PoolOf(Kind(m)) \in pools => vol[m][Kind(m)] = "absent"
    /\ ~Built(m) => dom[m] = "none" \/ stage[m] = "failed"
    /\ op[m] = "boot" => dom[m] = "shutoff"

UnhitInv(m) == m \notin hit => Smooth(m)

(* Without a fault a call that takes effect has its reply arrive.          *)
LEMMA NoFaultNoLoss ==
    ASSUME TypesInv, NEW m \in Machines, faults' = faults
    PROVE  /\ ~Fault
           /\ \A o : Reply(m, o) => Go(m, o) /\ UNCHANGED stage
<1>1. faults \in 0..MaxFaults /\ MaxFaults \in Nat
  BY BoundsAssumption DEF TypesInv, TypeOK
<1>2. ~Fault
  BY <1>1 DEF Fault
<1>3. QED
  BY <1>2 DEF Reply

(* The request goes on as it is; at most its guest does something.         *)
Stays(m) ==
    /\ UNCHANGED <<op, step, pos, vol, pools>>
    /\ dom'[m] = dom[m] \/ dom[m] \in Active

(* The steps a request comes from to these calls.                          *)
LEMMA ComesFrom ==
    ASSUME TypesInv, NEW m \in Machines, MachineStep(m),
           op'[m] \in {"pool", "makePool", "create", "boot"}
    PROVE  Purge(m) \/ GetPool(m) \/ Find(m) \/ DefineDomain(m) \/ Stays(m)
<1>0. op \in [Machines -> Ops] /\ step \in [Machines -> generateUUID..allDone]
  BY DEF TypesInv, TypeOK, RequestsType, JobsType
<1>1. \A o : Go(m, o) => op'[m] = o
  BY <1>0 DEF Go
<1>2. /\ ~Abort(m) /\ ~Rejected(m)
      /\ \A o : Reply(m, o) => op'[m] = o
  BY <1>0, <1>1 DEF Rejected, Abort, Reply, Go
<1>3. \A s : FirstOp(s) \notin {"pool", "makePool", "create", "boot"}
  BY DEF FirstOp
<1>4. ~Reconcile(m) /\ ~ReconcileTeardown(m) /\ ~Advance(m)
  BY <1>1, <1>2, <1>3 DEF Reconcile, ReconcileTeardown, Begin, Advance
<1>5. CASE Provision(m)
  <2>1. ~AskAround(m)
    BY <1>1 DEF AskAround, NextOp
  <2>2. /\ ~Upload(m) /\ ~GetPath(m) /\ ~CheckVolume(m) /\ ~ReadBridgeCount(m) /\ ~Bump(m)
        /\ ~BootDomain(m) /\ ~StartDomain(m) /\ ~SaveSpec(m) /\ ~CreateVol(m) /\ ~MakePool(m)
    BY <1>1, <1>2 DEF MakePool, Upload, GetPath, CheckVolume, ReadBridgeCount, Bump, BootDomain,
       StartDomain, SaveSpec, CreateVol, AfterDisk
  <2>3. ~NextInterface(m)
    BY <1>1 DEF NextInterface
  <2>4. QED
    BY <1>4, <1>5, <2>1, <2>2, <2>3 DEF Provision
<1>6. ~Deprovision(m)
  BY <1>1, <1>2 DEF Deprovision, RemoveNvram, LookAtDomain, Destroy, WaitForShutdown,
     UnknownState, Undefine, RemoveVolume, Finish, AfterDomain, AfterVolume
<1>7. ~CallFails(m) /\ ~UploadFails(m)
  BY <1>2 DEF CallFails, UploadFails
<1>8. CASE Rerun(m) \/ RequestTeardown(m) \/ GuestChanges(m) \/ GuestPowersOff(m)
  BY <1>8 DEF Rerun, RequestTeardown, GuestChanges, GuestPowersOff, Stays, omniVars,
     memVars, hostVars, Active
<1>9. QED
  BY <1>4, <1>5, <1>6, <1>7, <1>8 DEF MachineStep

(* The volume a request is about to make. *)
LEMMA VolumeAway ==
    ASSUME TypesInv, NEW m \in Machines, MachineStep(m), faults' = faults, Smooth(m)
    PROVE  /\ op'[m] = "pool" => vol'[m][Kind(m)'] = "absent"
           /\ op'[m] = "makePool" => PoolOf(Kind(m)') \notin pools'
           /\ op'[m] = "create" /\ PoolOf(Kind(m)') \in pools' => vol'[m][Kind(m)'] = "absent"
<1>0. /\ op \in [Machines -> Ops]
      /\ vol \in [Machines -> [Kinds -> {"absent", "partial", "full"}]]
  BY DEF TypesInv, TypeOK, JobsType, HostType
<1>1. \A o : Go(m, o) => op'[m] = o
  BY <1>0 DEF Go
<1>2. /\ ~Fault /\ (Rejected(m) => op'[m] = "none")
      /\ \A o : Reply(m, o) => op'[m] = o
  BY <1>0, <1>1, NoFaultNoLoss DEF Rejected, Abort, Go
<1>3. CASE Purge(m)
  <2>1. Kind(m) \in Kinds
    BY <1>3, KindRecorded DEF Purge, MediumOps, Attached, Kinds
  <2>2. op'[m] = "pool" /\ vol'[m][Kind(m)] = "absent"
    BY <1>0, <1>1, <1>2, <1>3, <2>1 DEF Purge, SetVol
  <2>3. Kind(m)' = Kind(m)
    BY <1>3 DEF Purge, memVars, Kind
  <2>4. QED
    BY <2>2, <2>3
<1>4. CASE GetPool(m)
  <2>1. /\ op[m] = "pool" /\ vol' = vol /\ pools' = pools /\ Kind(m)' = Kind(m)
        /\ op'[m] = IF PoolFound(m) THEN "create" ELSE "makePool"
    BY <1>1, <1>4 DEF GetPool, Kind, omniVars, memVars, hostVars
  <2>2. QED
    BY <2>1 DEF Smooth, PoolFound
<1>5. CASE Find(m) /\ op'[m] \in {"pool", "makePool", "create"}
  <2>1. /\ op'[m] = "create" /\ pos' = pos /\ step' = step
        /\ vol' = vol /\ pools' = pools
        /\ PoolOf(Kind(m)) \notin pools \/ vol[m][Kind(m)] = "absent"
    BY <1>1, <1>2, <1>5 DEF Find, AfterDisk, omniVars, hostVars
  <2>2. Kind(m)' = Kind(m)
    BY <2>1 DEF Kind
  <2>3. QED
    BY <2>1, <2>2
<1>6. CASE DefineDomain(m)
  BY <1>2, <1>6 DEF DefineDomain
<1>7. CASE Stays(m)
  BY <1>7 DEF Stays, Kind, Smooth
<1>8. QED
  BY <1>3, <1>4, <1>5, <1>6, <1>7, ComesFrom

(* What VM.Create has defined it can start, if its devices' names are free. *)
LEMMA BootSucceeds ==
    ASSUME NEW m \in Machines, DomainInv(m), Smooth(m), op[m] = "boot", DevicesFree(m)
    PROVE  CanStart(m)
  BY DEF DomainInv, Smooth, CanStart

(* Without a fault a failed request is not tried again.                    *)
LEMMA StaysFailed ==
    ASSUME TypesInv, NEW m \in Machines, MachineStep(m), faults' = faults,
           StageInv(m), stage[m] = "failed"
    PROVE  stage'[m] = "failed"
<1>0. stage \in [Machines -> {"provisioning", "provisioned", "failed"}]
  BY DEF TypesInv, TypeOK, RequestsType
<1>1. /\ ~Fault
      /\ \A o : Reply(m, o) => UNCHANGED stage
  BY NoFaultNoLoss
<1>2. op[m] \notin StepOps
  BY DEF StageInv
<1>3. ~Provision(m)
  BY <1>2 DEF StepOps, MediumOps, DomainOps, Provision, AskAround, NextOp, Purge, GetPool,
     MakePool, Find, CreateVol, Upload, GetPath, CheckVolume, ReadBridgeCount, NextInterface,
     Bump, DefineDomain, BootDomain, StartDomain, SaveSpec, Advance
<1>4. Rejected(m) => stage'[m] = "failed"
  BY <1>0 DEF Rejected, Abort
<1>5. CASE Deprovision(m)
  BY <1>1, <1>4, <1>5 DEF Deprovision, RemoveNvram, LookAtDomain, Destroy, WaitForShutdown,
     UnknownState, Undefine, RemoveVolume, Finish, omniVars
<1>6. ~Rerun(m) /\ ~CallFails(m) /\ ~UploadFails(m)
  BY <1>1 DEF Rerun, CallFails, UploadFails
<1>7. QED
  BY <1>3, <1>5, <1>6 DEF MachineStep, Reconcile, ReconcileTeardown, Begin, RequestTeardown,
     GuestChanges, GuestPowersOff, omniVars

LEMMA StaysBuilt ==
    ASSUME TypesInv, NEW m \in Machines, MachineStep(m), faults' = faults,
           DomainInv(m), Smooth(m), Built(m)
    PROVE  Built(m)' \/ stage'[m] = "failed"
<1>0. /\ op \in [Machines -> Ops] /\ step \in [Machines -> generateUUID..allDone]
      /\ stage \in [Machines -> {"provisioning", "provisioned", "failed"}]
  BY DEF TypesInv, TypeOK, RequestsType, JobsType
<1>1. \A o : Go(m, o) => op'[m] = o
  BY <1>0 DEF Go
<1>2. /\ ~Fault
      /\ \A o : Reply(m, o) => op'[m] = o
  BY <1>1, NoFaultNoLoss
<1>3. CASE Advance(m)
  <2>1. step[m] >= createVM /\ step'[m] = step[m] + 1
    BY <1>0, <1>3 DEF Advance, Built
  <2>2. QED
    BY <1>0, <2>1 DEF Built
<1>4. CASE ~Advance(m) /\ step[m] > createVM
  BY <1>4, StepSame DEF Built
<1>5. CASE ~Advance(m) /\ step[m] = createVM /\ op[m] \in {"boot", "save", "advance"}
  <2>1. UNCHANGED step
    BY <1>5, StepSame
  <2>2. CASE BootDomain(m)
    <3>1. CASE CanStart(m)
      BY <1>2, <1>5, <2>1, <2>2, <3>1 DEF BootDomain, Built
    <3>2. CASE ~CanStart(m)
      BY <1>0, <2>2, <3>2 DEF BootDomain, Rejected, Abort, Retries
    <3>3. QED
      BY <3>1, <3>2
  <2>3. CASE SaveSpec(m)
    BY <1>2, <1>5, <2>1, <2>3 DEF SaveSpec, Built
  <2>4. ~Provision(m) \/ BootDomain(m) \/ SaveSpec(m)
    BY <1>5 DEF Provision, AskAround, NextOp, Purge, GetPool, MakePool, Find, CreateVol,
       Upload, GetPath, CheckVolume, ReadBridgeCount, NextInterface, Bump, DefineDomain,
       StartDomain
  <2>5. /\ ~Reconcile(m) /\ ~ReconcileTeardown(m) /\ ~Deprovision(m) /\ ~Rerun(m)
        /\ ~CallFails(m) /\ ~UploadFails(m)
    BY <1>2, <1>5 DEF Reconcile, ReconcileTeardown, Begin, Deprovision, RemoveNvram,
       LookAtDomain, Destroy, WaitForShutdown, UnknownState, Undefine, RemoveVolume,
       Finish, Rerun, CallFails, UploadFails
  <2>6. CASE RequestTeardown(m) \/ GuestChanges(m) \/ GuestPowersOff(m)
    BY <1>5, <2>1, <2>6 DEF RequestTeardown, GuestChanges, GuestPowersOff, Built
  <2>7. QED
    BY <2>2, <2>3, <2>4, <2>5, <2>6 DEF MachineStep
<1>6. QED
  BY <1>3, <1>4, <1>5 DEF Built

(* A step of the request itself. *)
LEMMA SmoothStep ==
    ASSUME TypesInv, NEW m \in Machines, MachineStep(m), faults' = faults,
           DomainInv(m), StageInv(m), Smooth(m)
    PROVE  Smooth(m)'
<1>0. /\ op \in [Machines -> Ops] /\ dom \in [Machines -> States]
      /\ step \in [Machines -> generateUUID..allDone]
  BY DEF TypesInv, TypeOK, RequestsType, JobsType, HostType
<1>1. ASSUME DefineDomain(m)
      PROVE  dom[m] = "none" /\ dom'[m] = "shutoff" /\ step'[m] = createVM /\ op'[m] = "boot"
  <2>1. step[m] = createVM /\ op[m] = "define"
    BY <1>1 DEF DefineDomain, TypesInv, OpInv, StepOps, StepsOf, MediumOps, DomainOps
  <2>2. dom[m] = "none"
    BY <2>1 DEF Smooth, Built, StageInv, StepOps, DomainOps
  <2>3. op'[m] = "boot"
    BY <1>0, <1>1, NoFaultNoLoss DEF DefineDomain, Go
  <2>4. QED
    BY <1>0, <1>1, <2>1, <2>2, <2>3 DEF DefineDomain
<1>2. ASSUME ~Built(m)', stage'[m] # "failed"
      PROVE  dom'[m] = "none"
  <2>1. ~Built(m) /\ dom[m] = "none"
    BY <1>2, StaysBuilt, StaysFailed DEF Smooth
  <2>2. ~DefineDomain(m)
    BY <1>1, <1>2 DEF Built
  <2>3. dom'[m] = "none" \/ op[m] = "define"
    BY <2>1, DomStep DEF CanStart, Active
  <2>4. CASE op[m] = "define" /\ ~DefineDomain(m)
    BY <2>1, <2>4 DEF MachineStep, Provision, AskAround, NextOp, Purge, GetPool, MakePool,
       Find, CreateVol, Upload, GetPath, CheckVolume, ReadBridgeCount, NextInterface, Bump,
       BootDomain, StartDomain, SaveSpec, Advance, Reconcile, ReconcileTeardown, Begin,
       Deprovision, RemoveNvram, LookAtDomain, Destroy, WaitForShutdown, UnknownState,
       Undefine, RemoveVolume, Finish, CallFails, UploadFails, Rerun, RequestTeardown,
       GuestChanges, GuestPowersOff, hostVars
  <2>5. QED
    BY <2>2, <2>3, <2>4
<1>3. ASSUME op'[m] = "boot"
      PROVE  dom'[m] = "shutoff"
  <2>1. CASE DefineDomain(m)
    BY <1>1, <2>1
  <2>2. CASE Stays(m)
    BY <1>3, <2>2 DEF Stays, Smooth, Active
  <2>3. ~Purge(m) /\ ~GetPool(m) /\ ~Find(m)
    BY <1>0, <1>3, NoFaultNoLoss DEF Purge, GetPool, Find, AfterDisk, Go
  <2>4. QED
    BY <1>3, <2>1, <2>2, <2>3, ComesFrom
<1>4. QED
  BY <1>2, <1>3, VolumeAway DEF Smooth

(* A step of another one: it changes neither this one's volumes nor the    *)
(* pools.                                                                  *)
LEMMA SmoothFrame ==
    ASSUME TypesInv, NEW m \in Machines, MachineStep(m), NEW n \in Machines, n # m, Smooth(n)
    PROVE  Smooth(n)'
<1>1. Same(n)
  BY OthersSame DEF TypesInv
<1>2. Kind(n)' = Kind(n) /\ Built(n)' = Built(n)
  BY <1>1 DEF Same, Kind, Built
<1>3. pools' = pools /\ stage'[n] = stage[n]
  <2>1. stage'[n] = stage[n]
    BY OthersStage DEF TypesInv
  <2>2. pools' = pools
    BY DEF MachineStep, Provision, AskAround, Purge, GetPool, MakePool, Find, CreateVol, Upload,
       GetPath, CheckVolume, ReadBridgeCount, NextInterface, Bump, DefineDomain, BootDomain,
       StartDomain, SaveSpec, Advance, Reconcile, ReconcileTeardown, Begin, Deprovision,
       RemoveNvram, LookAtDomain, Destroy, WaitForShutdown, UnknownState, Undefine,
       RemoveVolume, Finish, CallFails, UploadFails, Rerun, RequestTeardown, GuestChanges,
       GuestPowersOff, hostVars
  <2>3. QED
    BY <2>1, <2>2
<1>4. QED
  BY <1>1, <1>2, <1>3 DEF Same, Smooth

(* What makes a request fail when none of its calls goes wrong. *)
LEMMA FailsForReason ==
    ASSUME TypesInv, NEW m \in Machines, MachineStep(m), faults' = faults,
           DomainInv(m), Smooth(m), stage[m] # "failed", stage'[m] = "failed"
    PROVE  LacksPool(m) \/ SharesTarget(m)
<1>0. stage \in [Machines -> {"provisioning", "provisioned", "failed"}]
  BY DEF TypesInv, TypeOK, RequestsType
<1>1. stage' # stage /\ ~Fault /\ \A o : ~Reply(m, o)
  BY NoFaultNoLoss
<1>2. Rejected(m) => op[m] \notin Retries
  BY DEF Rejected, Abort
<1>3. CASE Provision(m)
  <2>1. CASE MakePool(m)
    BY <2>1 DEF MakePool, Smooth, LacksPool
  <2>2. CASE CreateVol(m)
    BY <1>1, <2>2 DEF CreateVol, Smooth, LacksPool
  <2>3. CASE BootDomain(m)
    BY <1>1, <2>3, BootSucceeds DEF BootDomain, SharesTarget
  <2>4. ~CheckVolume(m) /\ ~StartDomain(m)
    BY <1>1, <1>2 DEF CheckVolume, StartDomain, Retries
  <2>5. /\ ~Purge(m) /\ ~DefineDomain(m) /\ ~SaveSpec(m)
        /\ ~AskAround(m) /\ ~GetPool(m) /\ ~Find(m) /\ ~Upload(m) /\ ~GetPath(m)
        /\ ~ReadBridgeCount(m) /\ ~NextInterface(m) /\ ~Bump(m)
    BY <1>1 DEF Purge, DefineDomain, SaveSpec, AskAround, GetPool, Find, Upload, GetPath,
       ReadBridgeCount, NextInterface, Bump, omniVars
  <2>6. ~Advance(m)
    BY <1>0, <1>1 DEF Advance
  <2>7. QED
    BY <1>3, <2>1, <2>2, <2>3, <2>4, <2>5, <2>6 DEF Provision
<1>4. ~Deprovision(m)
  BY <1>1, <1>2 DEF Deprovision, RemoveNvram, LookAtDomain, Destroy, WaitForShutdown,
     UnknownState, Undefine, RemoveVolume, Finish, Retries, omniVars
<1>5. /\ ~Reconcile(m) /\ ~ReconcileTeardown(m) /\ ~CallFails(m) /\ ~UploadFails(m)
      /\ ~Rerun(m) /\ ~RequestTeardown(m) /\ ~GuestChanges(m) /\ ~GuestPowersOff(m)
  BY <1>1 DEF Reconcile, ReconcileTeardown, Begin, CallFails, UploadFails, Rerun,
     RequestTeardown, GuestChanges, GuestPowersOff, omniVars
<1>6. QED
  BY <1>3, <1>4, <1>5 DEF MachineStep

(* The requests that have gone smoothly so far. *)
HitsInv == hit \subseteq Machines /\ \A m \in Machines : UnhitInv(m)

LEMMA InitHits == UseInit => HitsInv
<1>1. ASSUME UseInit, NEW m \in Machines
      PROVE  UnhitInv(m)
  BY <1>1 DEF UseInit, Init, UnhitInv, Smooth
<1>2. QED
  BY <1>1 DEF UseInit, HitsInv

LEMMA NextHits ==
    ASSUME RefinementInv, HitsInv, [UseNext]_useVars
    PROVE  HitsInv'
<1>0. TypesInv /\ \A n \in Machines : DomainInv(n) /\ StageInv(n) /\ UnhitInv(n)
  BY DEF RefinementInv, LifeInv, IInv, MachineInv, HitsInv
<1>1. ASSUME NEW m \in Machines, Step(m), NEW n \in Machines, n \notin hit'
      PROVE  Smooth(n)'
  <2>1. MachineStep(m) /\ n \notin hit /\ Smooth(n)
    BY <1>0, <1>1, StepOfRequest DEF Step, UnhitInv
  <2>2. CASE n = m
    BY <1>0, <1>1, <2>1, <2>2, SmoothStep DEF Step
  <2>3. CASE n # m
    BY <1>0, <2>1, <2>3, SmoothFrame
  <2>4. QED
    BY <2>2, <2>3
<1>2. ASSUME UNCHANGED vars, NEW n \in Machines, Smooth(n)
      PROVE  Smooth(n)'
  BY <1>2 DEF vars, Smooth, Kind, Built
<1>3. ASSUME Restart, NEW n \in Machines, n \notin hit'
      PROVE  Smooth(n)'
  <2>1. op[n] = "none" /\ op'[n] = "none" /\ UNCHANGED <<step, stage, dom>> /\ Smooth(n)
    BY <1>0, <1>3 DEF Restart, Crash, omniVars, hostVars, UnhitInv
  <2>2. QED
    BY <2>1 DEF Smooth, Built
<1>4. hit' \subseteq Machines /\ hit \subseteq hit'
  BY DEF HitsInv, UseNext, useVars, Step, Grant, Evict, Restart
<1>5. ASSUME NEW n \in Machines, n \notin hit'
      PROVE  Smooth(n)'
  <2>1. Smooth(n)
    BY <1>0, <1>4, <1>5 DEF UnhitInv
  <2>2. QED
    BY <1>1, <1>2, <1>3, <1>5, <2>1 DEF UseNext, useVars, Grant, Evict
<1>6. QED
  BY <1>4, <1>5 DEF HitsInv, UnhitInv

LEMMA FailsAlone ==
    ASSUME IInv, HitsInv, UseNext, NEW n \in Machines,
           stage[n] # "failed", stage'[n] = "failed", n \notin hit'
    PROVE  LacksPool(n) \/ SharesTarget(n)
<1>0. TypesInv /\ DomainInv(n) /\ UnhitInv(n)
  BY DEF IInv, MachineInv, HitsInv
<1>1. ~Restart /\ \A k \in Images : ~Grant(k) /\ ~Evict(k)
  BY DEF Restart, Crash, omniVars, Grant, Evict, vars
<1>2. PICK m \in Machines : Step(m)
  BY <1>1 DEF UseNext
<1>3. MachineStep(m) /\ Smooth(n)
  BY <1>0, <1>2, StepOfRequest DEF Step, UnhitInv
<1>4. n = m /\ faults' = faults
  BY <1>0, <1>2, <1>3, OthersStage DEF Step, TypesInv
<1>5. QED
  BY <1>0, <1>3, <1>4, FailsForReason

(* As long as no call of a request goes wrong and no restart interrupts    *)
(* it, it only fails over a pool the host does not have, or over a device  *)
(* name of its domain that is taken.                                       *)
THEOREM FailureHasItsReason == UseSpec => FailsForItsOwnReason
<1>1. UseInit => HitsInv
  BY InitHits
<1>2. RefinementInv /\ HitsInv /\ [UseNext]_useVars => HitsInv'
  BY NextHits
<1>3. RefinementInv /\ HitsInv /\ [UseNext]_useVars =>
        [\A m \in Machines : stage[m] # "failed" /\ stage'[m] = "failed" =>
            m \in hit' \/ LacksPool(m) \/ SharesTarget(m)]_useVars
  BY FailsAlone DEF RefinementInv
<1>4. UseSpec => []RefinementInv
  BY UseImplementsProvisioner, InitRefinement, NextRefinement, PTL DEF Spec
<1>5. QED
  BY <1>1, <1>2, <1>3, <1>4, PTL DEF UseSpec, FailsForItsOwnReason

=============================================================================
