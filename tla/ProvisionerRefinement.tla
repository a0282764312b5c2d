----------------------- MODULE ProvisionerRefinement -----------------------
(***************************************************************************)
(* Provisioner implements MachineLifecycle: every call, failure, restart   *)
(* and every move of a guest is, for each request, a step its life and its *)
(* machine may take, or leaves them as they are.                           *)
(***************************************************************************)
EXTENDS ProvisionerProofs

USE DEF generateUUID, createSchematic, provisionISO, provisionVMVolume,
        provisionAdditionalDisks, provisionCidata, createVM, startVM, allDone

-----------------------------------------------------------------------------
(* What the refinement rests on, besides IInv *)

(* A step's calls are made while the request is being provisioned.         *)
StageInv(m) == op[m] \in StepOps => stage[m] = "provisioning"

(* A domain that removeDomain has seen shut off stays so until it acts.    *)
SeenInv(m) == op[m] = "act" /\ seen[m] = "shutoff" => dom[m] = "shutoff"

(* VM.Create has defined the domain. *)
Built(m) ==
    \/ step[m] > createVM
    \/ step[m] = createVM /\ op[m] \in {"boot", "save", "advance"}

BuiltInv(m) == Provisioning(m) /\ Built(m) => dom[m] # "none"

LifeInv(m) == StageInv(m) /\ SeenInv(m) /\ BuiltInv(m)

(* A provisioning call is only followed by another one in the same stage.  *)
LEMMA StageStep ==
    ASSUME TypesInv, NEW m \in Machines, MachineStep(m), StageInv(m)
    PROVE  StageInv(m)'
<1>0. /\ op \in [Machines -> Ops]
      /\ stage \in [Machines -> {"provisioning", "provisioned", "failed"}]
  BY DEF TypesInv, TypeOK, RequestsType, JobsType
<1>1. \A o : Go(m, o) => op'[m] = o
  BY <1>0 DEF Go
<1>2. Abort(m) \/ Rejected(m) => op'[m] \notin StepOps
  BY <1>0 DEF Rejected, Abort, Go, StepOps, MediumOps, DomainOps
<1>3. \A o : Reply(m, o) => op'[m] \notin StepOps \/ UNCHANGED stage
  BY <1>2 DEF Reply
<1>4. CASE Reconcile(m) \/ ReconcileTeardown(m)
  BY <1>1, <1>4 DEF Reconcile, ReconcileTeardown, Begin, omniVars, StageInv, StepOps,
                    MediumOps, DomainOps
<1>5. CASE Provision(m)
  <2>1. op[m] \in StepOps
    BY <1>5 DEF StepOps, MediumOps, DomainOps, Provision, AskAround, NextOp, Purge,
       GetPool, MakePool, Find, CreateVol, Upload, GetPath, CheckVolume,
       ReadBridgeCount, NextInterface, Bump, DefineDomain, BootDomain, StartDomain,
       SaveSpec, Advance
  <2>2. CASE Advance(m)
    <3>1. CASE step[m] = startVM
      <4>1. op'[m] = "none"
        BY <1>1, <2>2, <3>1 DEF Advance
      <4>2. QED
        BY <4>1 DEF StageInv, StepOps, MediumOps, DomainOps
    <3>2. CASE step[m] # startVM
      BY <1>3, <2>1, <2>2, <3>2 DEF Advance, StageInv
    <3>3. QED
      BY <3>1, <3>2
  <2>3. op'[m] \notin StepOps \/ UNCHANGED stage
    <3>1. CASE \/ AskAround(m) \/ GetPool(m) \/ Find(m) \/ Upload(m) \/ GetPath(m)
               \/ ReadBridgeCount(m) \/ NextInterface(m) \/ Bump(m)
      BY <3>1 DEF AskAround, GetPool, Find, Upload, GetPath, ReadBridgeCount,
         NextInterface, Bump, omniVars
    <3>2. CASE \/ Purge(m) \/ MakePool(m) \/ CreateVol(m) \/ CheckVolume(m)
               \/ DefineDomain(m) \/ BootDomain(m) \/ StartDomain(m) \/ SaveSpec(m)
      BY <1>2, <1>3, <3>2 DEF Purge, MakePool, CreateVol, CheckVolume, DefineDomain,
         BootDomain, StartDomain, SaveSpec
    <3>3. CASE Advance(m) /\ step[m] = startVM
      BY <1>1, <3>3 DEF Advance, StepOps, MediumOps, DomainOps
    <3>4. CASE Advance(m) /\ step[m] # startVM
      BY <1>3, <3>4 DEF Advance
    <3>5. QED
      BY <1>5, <3>1, <3>2, <3>3, <3>4 DEF Provision
  <2>4. QED
    BY <2>1, <2>3 DEF StageInv
<1>6. CASE Deprovision(m)
  <2>1. op[m] \in RemoveOps
    BY <1>6 DEF Deprovision, RemoveNvram, LookAtDomain, Destroy, WaitForShutdown,
       UnknownState, Undefine, RemoveVolume, Finish, RemoveOps
  <2>2. ~Provisioning(m)
    BY <2>1 DEF TypesInv, OpInv, Provisioning, StepOps, RemoveOps, MediumOps, DomainOps
  <2>3. ~Provisioning(m)'
    BY <2>2, TeardownStays
  <2>4. QED
    BY <2>3 DEF Provisioning, StageInv
<1>7. CASE CallFails(m) \/ UploadFails(m)
  BY <1>2, <1>7 DEF CallFails, UploadFails, StageInv
<1>8. CASE Rerun(m)
  BY <1>0, <1>8 DEF Rerun, StageInv
<1>9. CASE RequestTeardown(m) \/ GuestChanges(m) \/ GuestPowersOff(m)
  BY <1>9 DEF RequestTeardown, GuestChanges, GuestPowersOff, omniVars, StageInv
<1>10. QED
  BY <1>4, <1>5, <1>6, <1>7, <1>8, <1>9 DEF MachineStep

(* Only LookAtDomain is followed by removeDomain's call.                   *)
LEMMA ActAfterLook ==
    ASSUME TypesInv, NEW m \in Machines, MachineStep(m), op'[m] = "act"
    PROVE  LookAtDomain(m) \/ (op[m] = "act" /\ UNCHANGED <<op, seen>> /\ ~Undefine(m))
<1>0. op \in [Machines -> Ops] /\ step[m] \in generateUUID..allDone
  BY DEF TypesInv, TypeOK, RequestsType, JobsType
<1>1. \A o : Go(m, o) => o = "act"
  BY <1>0 DEF Go
<1>2. /\ ~Abort(m) /\ ~Rejected(m)
      /\ \A o : Reply(m, o) => o = "act"
  BY <1>0, <1>1 DEF Rejected, Abort, Reply, Go
<1>3. ~Reconcile(m) /\ ~ReconcileTeardown(m)
  BY <1>1 DEF Reconcile, ReconcileTeardown, Begin, FirstOp
<1>4. ~Provision(m)
  BY <1>0, ProvisionStays DEF StepOps, MediumOps, DomainOps
<1>5. /\ ~RemoveNvram(m) /\ ~Destroy(m) /\ ~WaitForShutdown(m) /\ ~UnknownState(m)
      /\ ~Undefine(m) /\ ~RemoveVolume(m) /\ ~Finish(m)
  BY <1>1, <1>2 DEF RemoveNvram, Destroy, WaitForShutdown, UnknownState, Undefine,
     RemoveVolume, Finish, AfterDomain, AfterVolume
<1>6. ~CallFails(m) /\ ~UploadFails(m)
  BY <1>2 DEF CallFails, UploadFails
<1>7. CASE Rerun(m) \/ RequestTeardown(m) \/ GuestChanges(m) \/ GuestPowersOff(m)
  BY <1>5, <1>7 DEF Rerun, RequestTeardown, GuestChanges, GuestPowersOff, memVars
<1>8. QED
  BY <1>3, <1>4, <1>5, <1>6, <1>7 DEF MachineStep, Deprovision

LEMMA SeenStep ==
    ASSUME TypesInv, NEW m \in Machines, MachineStep(m), SeenInv(m)
    PROVE  SeenInv(m)'
<1> SUFFICES ASSUME op'[m] = "act", seen'[m] = "shutoff"
             PROVE  dom'[m] = "shutoff"
  BY DEF SeenInv
<1>0. op \in [Machines -> Ops] /\ seen \in [Machines -> States]
  BY DEF TypesInv, TypeOK, JobsType
<1>1. CASE LookAtDomain(m)
  BY <1>0, <1>1 DEF LookAtDomain, hostVars
<1>2. CASE op[m] = "act" /\ UNCHANGED <<op, seen>> /\ ~Undefine(m)
  <2>1. dom[m] = "shutoff"
    BY <1>2 DEF SeenInv
  <2>2. QED
    BY <1>2, <2>1, DomStep DEF Active
<1>3. QED
  BY <1>1, <1>2, ActAfterLook

(* VM.Create has defined the domain when it comes to starting it, and the  *)
(* results of createVM are only saved after that.                          *)
LEMMA BuiltAfter ==
    ASSUME TypesInv, NEW m \in Machines, MachineStep(m), Built(m)'
    PROVE  Built(m) \/ (DefineDomain(m) /\ op'[m] = "boot")
<1>0. op \in [Machines -> Ops] /\ step \in [Machines -> generateUUID..allDone]
  BY DEF TypesInv, TypeOK, RequestsType, JobsType
<1>1. CASE Advance(m)
  <2>1. op[m] = "advance" /\ step'[m] = step[m] + 1
    BY <1>0, <1>1 DEF Advance
  <2>2. step[m] = createVM \/ step[m] > createVM \/ (step'[m] = createVM /\ step[m] = provisionCidata)
    BY <1>0, <2>1 DEF Built
  <2>3. ASSUME step[m] = provisionCidata
        PROVE  op'[m] \in {"check", "none"}
    <3>1. FirstOp(step[m] + 1) = "check"
      BY <2>3 DEF FirstOp
    <3>2. QED
      BY <1>0, <1>1, <2>3, <3>1 DEF Advance, Reply, Abort, Go
  <2>4. QED
    BY <2>1, <2>2, <2>3 DEF Built
<1>2. CASE ~Advance(m)
  <2>1. UNCHANGED step
    BY <1>2, StepSame
  <2>2. CASE step[m] = createVM /\ op'[m] \in {"boot", "save", "advance"}
    <3>1. \A o : Go(m, o) => op'[m] = o
      BY <1>0 DEF Go
    <3>2. /\ ~Abort(m) /\ ~Rejected(m)
          /\ \A o : Reply(m, o) => op'[m] = o
      BY <1>0, <2>2, <3>1 DEF Rejected, Abort, Reply, Go
    <3>3. ~Reconcile(m) /\ ~ReconcileTeardown(m)
      BY <2>2, <3>1 DEF Reconcile, ReconcileTeardown, Begin, FirstOp
    <3>4. CASE Provision(m)
      <4>1. op[m] \in StepOps => step[m] \in StepsOf(op[m])
        BY DEF TypesInv, OpInv
      <4>2. /\ ~AskAround(m) /\ ~Purge(m) /\ ~GetPool(m) /\ ~MakePool(m) /\ ~Find(m)
            /\ ~CreateVol(m) /\ ~Upload(m) /\ ~GetPath(m) /\ ~StartDomain(m)
        BY <2>2, <4>1 DEF AskAround, NextOp, Purge, GetPool, MakePool, Find, CreateVol,
           Upload, GetPath, StartDomain, StepOps, StepsOf, MediumOps, DomainOps
      <4>3. ~CheckVolume(m) /\ ~ReadBridgeCount(m) /\ ~Bump(m)
        BY <2>2, <3>1, <3>2 DEF CheckVolume, ReadBridgeCount, Bump
      <4>4. ~NextInterface(m)
        BY <2>2, <3>1 DEF NextInterface
      <4>5. CASE DefineDomain(m)
        BY <3>2, <4>5 DEF DefineDomain
      <4>6. CASE BootDomain(m) \/ SaveSpec(m)
        BY <2>2, <4>6 DEF BootDomain, SaveSpec, Built
      <4>7. QED
        BY <1>2, <3>4, <4>2, <4>3, <4>4, <4>5, <4>6 DEF Provision
    <3>5. ~Deprovision(m)
      BY <2>2, <3>1, <3>2 DEF Deprovision, RemoveNvram, LookAtDomain, Destroy,
         WaitForShutdown, UnknownState, Undefine, RemoveVolume, Finish, AfterDomain, AfterVolume
    <3>6. ~CallFails(m) /\ ~UploadFails(m)
      BY <3>2 DEF CallFails, UploadFails
    <3>7. CASE Rerun(m) \/ RequestTeardown(m) \/ GuestChanges(m) \/ GuestPowersOff(m)
      BY <2>2, <3>7 DEF Rerun, RequestTeardown, GuestChanges, GuestPowersOff, Built
    <3>8. QED
      BY <3>3, <3>4, <3>5, <3>6, <3>7 DEF MachineStep
  <2>3. QED
    BY <2>1, <2>2 DEF Built
<1>3. QED
  BY <1>1, <1>2

LEMMA BuiltStep ==
    ASSUME TypesInv, NEW m \in Machines, MachineStep(m), BuiltInv(m)
    PROVE  BuiltInv(m)'
<1> SUFFICES ASSUME Provisioning(m)', Built(m)'
             PROVE  dom'[m] # "none"
  BY DEF BuiltInv
<1>1. Provisioning(m)
  BY TeardownStays
<1>2. ~Undefine(m)
  BY <1>1 DEF Undefine, Provisioning, TypesInv, OpInv, StepOps, RemoveOps, MediumOps, DomainOps
<1>3. CASE DefineDomain(m)
  BY <1>3 DEF DefineDomain, TypesInv, TypeOK, HostType
<1>4. CASE Built(m)
  <2>1. dom[m] # "none"
    BY <1>1, <1>4 DEF BuiltInv
  <2>2. dom \in [Machines -> States]
    BY DEF TypesInv, TypeOK, HostType
  <2>3. QED
    BY <1>2, <2>1, <2>2, DomStep DEF PowerOn, Active
<1>5. QED
  BY <1>3, <1>4, BuiltAfter

-----------------------------------------------------------------------------
(* The life of a request *)

(* A stage ends well only for a request with a domain, and badly only      *)
(* while it is being provisioned.                                          *)
StageMoves(m) ==
    \/ stage'[m] = stage[m]
    \/ stage[m] = "provisioning" /\ stage'[m] = "provisioned" /\ dom[m] # "none"
    \/ stage[m] = "provisioning" /\ stage'[m] = "failed"
    \/ stage[m] = "failed" /\ stage'[m] = "provisioning"

LEMMA StageMovesOn ==
    ASSUME TypesInv, NEW m \in Machines, MachineStep(m), StageInv(m), BuiltInv(m)
    PROVE  StageMoves(m)
<1>0. /\ op \in [Machines -> Ops]
      /\ stage \in [Machines -> {"provisioning", "provisioned", "failed"}]
  BY DEF TypesInv, TypeOK, RequestsType, JobsType
<1>1. op[m] \in StepOps \/ op[m] \in Retries \cup {"none"}
  BY <1>0 DEF Ops, StepOps, MediumOps, DomainOps, Retries
<1>2. Abort(m) /\ op[m] # "none" => StageMoves(m)
  BY <1>0, <1>1 DEF Abort, StageMoves, StageInv
<1>3. /\ Rejected(m) /\ op[m] # "none" => StageMoves(m)
      /\ \A o : Reply(m, o) /\ op[m] # "none" => StageMoves(m)
      /\ UNCHANGED stage => StageMoves(m)
  BY <1>2 DEF Rejected, Reply, StageMoves
<1>4. CASE Reconcile(m) \/ ReconcileTeardown(m)
  BY <1>3, <1>4 DEF Reconcile, ReconcileTeardown, Begin, omniVars
<1>5. CASE Provision(m)
  <2>1. CASE Advance(m)
    <3>1. CASE step[m] = startVM
      <4>1. Provisioning(m) /\ Built(m) /\ op[m] \in StepOps
        BY <2>1, <3>1 DEF Advance, Provisioning, StepOps, Built
      <4>2. stage[m] = "provisioning" /\ dom[m] # "none"
        BY <4>1 DEF StageInv, BuiltInv
      <4>3. stage'[m] = "provisioned"
        BY <1>0, <2>1, <3>1 DEF Advance
      <4>4. QED
        BY <4>2, <4>3 DEF StageMoves
    <3>2. CASE step[m] # startVM
      BY <1>3, <2>1, <3>2 DEF Advance
    <3>3. QED
      BY <3>1, <3>2
  <2>2. CASE \/ AskAround(m) \/ GetPool(m) \/ Find(m) \/ Upload(m) \/ GetPath(m)
             \/ ReadBridgeCount(m) \/ NextInterface(m) \/ Bump(m)
    BY <1>3, <2>2 DEF AskAround, GetPool, Find, Upload, GetPath, ReadBridgeCount,
       NextInterface, Bump, omniVars
  <2>3. CASE \/ Purge(m) \/ MakePool(m) \/ CreateVol(m) \/ CheckVolume(m)
             \/ DefineDomain(m) \/ BootDomain(m) \/ StartDomain(m) \/ SaveSpec(m)
    BY <1>3, <2>3 DEF Purge, MakePool, CreateVol, CheckVolume, DefineDomain,
       BootDomain, StartDomain, SaveSpec
  <2>4. QED
    BY <1>5, <2>1, <2>2, <2>3 DEF Provision
<1>6. CASE Deprovision(m)
  <2>1. CASE LookAtDomain(m) \/ Finish(m)
    BY <1>3, <2>1 DEF LookAtDomain, Finish, omniVars
  <2>2. CASE \/ RemoveNvram(m) \/ Undefine(m) \/ RemoveVolume(m)
             \/ Destroy(m) \/ WaitForShutdown(m) \/ UnknownState(m)
    BY <1>3, <2>2 DEF RemoveNvram, Undefine, RemoveVolume, Destroy, WaitForShutdown,
       UnknownState
  <2>3. QED
    BY <1>6, <2>1, <2>2 DEF Deprovision
<1>7. CASE CallFails(m) \/ UploadFails(m)
  BY <1>2, <1>7 DEF CallFails, UploadFails
<1>8. CASE Rerun(m)
  BY <1>0, <1>8 DEF Rerun, StageMoves
<1>9. CASE RequestTeardown(m) \/ GuestChanges(m) \/ GuestPowersOff(m)
  BY <1>3, <1>9 DEF RequestTeardown, GuestChanges, GuestPowersOff, omniVars
<1>10. QED
  BY <1>4, <1>5, <1>6, <1>7, <1>8, <1>9 DEF MachineStep

(* How a request is seen from the stage it is in. *)
StageLife(m) ==
    IF stage[m] = "provisioning" THEN "building"
    ELSE IF stage[m] = "provisioned" THEN "ready" ELSE "failed"

LEMMA OpsSplit ==
    /\ Ops = StepOps \cup TeardownOps \cup {"none"}
    /\ StepOps \cap (TeardownOps \cup {"none"}) = {}
  BY DEF Ops, StepOps, MediumOps, DomainOps, TeardownOps

LifeShows(m) ==
    /\ req[m] = "gone" <=> Life(m) = "gone"
    /\ ~Provisioning(m) /\ req[m] # "gone" => Life(m) = "removing"
    /\ Provisioning(m) /\ req[m] # "gone" => Life(m) = StageLife(m)

LEMMA LifeOf ==
    ASSUME TypesInv, NEW m \in Machines
    PROVE  LifeShows(m)
<1>1. req[m] \in {"running", "tearingDown", "gone"} /\ op[m] \in Ops
  BY DEF TypesInv, TypeOK, RequestsType, JobsType
<1>2. QED
  BY <1>1, OpsSplit DEF LifeShows, Life, StageLife, Provisioning

LEMMA LifeOfNext ==
    ASSUME TypesInv', NEW m \in Machines
    PROVE  LifeShows(m)'
<1>1. req'[m] \in {"running", "tearingDown", "gone"} /\ op'[m] \in Ops
  BY DEF TypesInv, TypeOK, RequestsType, JobsType
<1>2. QED
  BY <1>1, OpsSplit DEF LifeShows, Life, StageLife, Provisioning

(* A request is only dropped by Deprovision's end. *)
LEMMA GoneByFinish ==
    ASSUME TypesInv, NEW m \in Machines, MachineStep(m), RemovalInv(m), req'[m] = "gone"
    PROVE  op[m] = "finish" /\ ~Provisioning(m) /\ dom[m] = "none"
<1>0. req \in [Machines -> {"running", "tearingDown", "gone"}] /\ req[m] # "gone"
  BY GoneStays DEF TypesInv, TypeOK, RequestsType
<1>1. ~Provision(m)
  BY <1>0, ProvisionStays
<1>2. Finish(m)
  <2>1. ~RequestTeardown(m)
    BY <1>0 DEF RequestTeardown
  <2>2. UNCHANGED req \/ RequestTeardown(m) \/ Finish(m)
    BY <1>1 DEF MachineStep, Reconcile, ReconcileTeardown, Begin, Deprovision,
       RemoveNvram, LookAtDomain, Destroy, WaitForShutdown, UnknownState, Undefine,
       RemoveVolume, CallFails, UploadFails, Rerun, GuestChanges, GuestPowersOff, omniVars
  <2>3. QED
    BY <1>0, <2>1, <2>2
<1>3. op[m] = "finish"
  BY <1>2 DEF Finish
<1>4. QED
  BY <1>3 DEF TypesInv, OpInv, Provisioning, StepOps, RemoveOps, MediumOps, DomainOps,
              RemovalInv

(* The life of a request goes on as the contract says. *)
LEMMA LivesOn ==
    ASSUME TypesInv, TypesInv', NEW m \in Machines, MachineStep(m),
           DomainInv(m), RemovalInv(m), LifeInv(m)
    PROVE  Lifecycle!Lives(m)
<1>0. req[m] # "gone" /\ StageMoves(m)
  BY GoneStays, StageMovesOn DEF LifeInv
<1>1. /\ req'[m] = "gone" <=> Life(m)' = "gone"
      /\ ~Provisioning(m)' /\ req'[m] # "gone" => Life(m)' = "removing"
      /\ Provisioning(m)' /\ req'[m] # "gone" => Life(m)' = StageLife(m)'
  BY LifeOfNext DEF LifeShows
<1>2. CASE req'[m] = "gone"
  <2>1. /\ Life(m) = "removing" /\ Life(m)' = "gone"
        /\ Power(m) = "none" /\ "nvram" \notin Whole(m)
    BY <1>0, <1>1, <1>2, LifeOf, GoneByFinish DEF LifeShows, DomainInv, Power, Active, Whole
  <2>2. QED
    BY <2>1 DEF Lifecycle!Lives, Lifecycle!Becomes
<1>3. CASE req'[m] # "gone" /\ ~Provisioning(m)'
  <2>1. Life(m) # "gone" /\ Life(m)' = "removing"
    BY <1>0, <1>1, <1>3, LifeOf DEF LifeShows
  <2>2. QED
    BY <2>1 DEF Lifecycle!Lives
<1>4. CASE req'[m] # "gone" /\ Provisioning(m)'
  <2>1. Life(m) = StageLife(m) /\ Life(m)' = StageLife(m)'
    BY <1>0, <1>1, <1>4, LifeOf, TeardownStays DEF LifeShows
  <2>2. \/ StageLife(m)' = StageLife(m)
        \/ StageLife(m) = "building" /\ StageLife(m)' = "ready" /\ Power(m) # "none"
        \/ StageLife(m) = "building" /\ StageLife(m)' = "failed"
        \/ StageLife(m) = "failed" /\ StageLife(m)' = "building"
    <3>1. dom[m] # "none" => Power(m) # "none"
      BY DEF Power, Active, TypesInv, TypeOK, HostType, States
    <3>2. QED
      BY <1>0, <3>1 DEF StageMoves, StageLife
  <2>3. QED
    BY <2>1, <2>2 DEF Lifecycle!Lives, Lifecycle!Becomes
<1>5. QED
  BY <1>2, <1>3, <1>4

-----------------------------------------------------------------------------
(* Its machine and parts on the host *)

(* A provisioning call is made for a request that is being built, and      *)
(* Deprovision's for one that is being removed.                            *)
LEMMA LifeOfCall ==
    ASSUME TypesInv, NEW m \in Machines, StageInv(m), RemovalInv(m)
    PROVE  /\ op[m] \in StepOps => Life(m) = "building"
           /\ op[m] \in RemoveOps => Life(m) = "removing"
<1>1. op[m] \in StepOps => stage[m] = "provisioning" /\ Provisioning(m)
  BY DEF StageInv, Provisioning
<1>2. op[m] \in RemoveOps => req[m] = "tearingDown" /\ ~Provisioning(m)
  BY DEF TypesInv, OpInv, Provisioning, StepOps, RemoveOps, MediumOps, DomainOps
<1>3. op[m] # "none" => req[m] # "gone"
  BY DEF RemovalInv
<1>4. "none" \notin StepOps /\ "none" \notin RemoveOps
  BY DEF StepOps, RemoveOps, MediumOps, DomainOps
<1>5. QED
  BY <1>1, <1>2, <1>3, <1>4, LifeOf DEF LifeShows, StageLife

LEMMA HostedOn ==
    ASSUME TypesInv, NEW m \in Machines, MachineStep(m),
           DomainInv(m), DomainInv(m)', RemovalInv(m), LifeInv(m)
    PROVE  Lifecycle!Hosted(m)
<1>0. /\ vol[m] \in [Kinds -> {"absent", "partial", "full"}]
      /\ dom[m] \in States
      /\ Attached \subseteq Kinds /\ "nvram" \in Kinds \ Attached
      /\ op[m] \in StepOps => Life(m) = "building"
      /\ op[m] \in RemoveOps => Life(m) = "removing"
  BY RecordedByKinds, LifeOfCall DEF TypesInv, TypeOK, HostType, LifeInv
<1>1. vol'[m] = vol[m] => Whole(m)' = Whole(m)
  BY DEF Whole
<1>2. dom'[m] = dom[m] => Power(m)' = Power(m)
  BY DEF Power
<1>3. OnlyVol(m, "nvram", "absent") => Whole(m)' = Whole(m) \ {"nvram"}
  BY <1>0 DEF OnlyVol, Whole
<1>4. CASE op[m] = "define" /\ dom[m] = "none" /\ dom'[m] = "shutoff" /\ vol' = vol
  <2>1. Attached \subseteq Whole(m)
    BY <1>0, <1>4 DEF DomainInv, Whole
  <2>2. Power(m) = "none" /\ Power(m)' = "off" /\ Life(m) = "building"
    BY <1>0, <1>4 DEF Power, Active, StepOps, DomainOps
  <2>3. QED
    BY <1>1, <1>4, <2>1, <2>2
       DEF Lifecycle!Hosted, Lifecycle!Install, Lifecycle!Machine
<1>5. CASE PowerOn(m) /\ CanStart(m) /\ op[m] \in {"boot", "start"}
  <2>1. OnlyVol(m, "nvram", "full") /\ dom[m] = "shutoff" /\ dom'[m] = "running"
    BY <1>5 DEF PowerOn, CanStart, SetVol, OnlyVol, TypesInv, TypeOK, HostType
  <2>2. Whole(m)' = Whole(m) \cup {"nvram"}
    BY <1>0, <2>1 DEF OnlyVol, Whole
  <2>3. Power(m) = "off" /\ Power(m)' = "on" /\ Life(m) = "building"
    BY <1>0, <1>5, <2>1 DEF Power, Active, StepOps, DomainOps
  <2>4. QED
    BY <2>2, <2>3 DEF Lifecycle!Hosted, Lifecycle!PowerOn, Lifecycle!Machine
<1>6. CASE Undefine(m) /\ dom'[m] = "none"
  <2>1. op[m] = "act" /\ dom[m] = "shutoff" /\ OnlyVol(m, "nvram", "absent")
    BY <1>6 DEF Undefine, LifeInv, SeenInv, SetVol, OnlyVol, TypesInv, TypeOK, HostType
  <2>2. Power(m) = "off" /\ Power(m)' = "none" /\ Life(m) = "removing"
    BY <1>0, <1>6, <2>1 DEF Power, Active, RemoveOps
  <2>3. QED
    BY <1>3, <2>1, <2>2 DEF Lifecycle!Hosted, Lifecycle!Uninstall, Lifecycle!Machine
<1>7. CASE dom[m] \in Active /\ dom'[m] \in Active \cup {"shutoff"} /\ vol' = vol
  <2>1. Power(m) = "on" /\ Power(m)' \in {"on", "off"}
    BY <1>7 DEF Power, Active
  <2>2. QED
    BY <1>1, <1>7, <2>1
       DEF Lifecycle!Hosted, Lifecycle!Rest, Lifecycle!PowerOff, Lifecycle!Machine
<1>8. CASE dom'[m] = dom[m]
  <2>1. CASE vol'[m] = vol[m]
    BY <1>1, <1>2, <1>8, <2>1 DEF Lifecycle!Hosted, Lifecycle!Rest
  <2>2. CASE PowerOn(m) /\ CanStart(m)
    BY <1>8, <2>2 DEF PowerOn, CanStart, TypesInv, TypeOK, HostType
  <2>3. CASE OnlyVol(m, "nvram", "absent") /\ op[m] \in {"nvram", "act"}
    <3>1. Life(m) = "removing"
      BY <1>0, <2>3 DEF RemoveOps
    <3>2. QED
      BY <1>2, <1>3, <1>8, <2>3, <3>1 DEF Lifecycle!Hosted, Lifecycle!DropFirmware
  <2>4. CASE op[m] \in {"purge", "create", "upload"}
             /\ \E state : OnlyVol(m, Kind(m), state)
    <3>1. op[m] \in StepOps /\ step[m] < createVM
      BY <2>4 DEF TypesInv, OpInv, StepOps, StepsOf, MediumOps, DomainOps
    <3>2. dom[m] = "none" /\ dom'[m] = "none"
      BY <1>8, <3>1 DEF DomainInv, TypesInv, TypeOK, RequestsType
    <3>3. vol'[m]["nvram"] = "absent"
      BY <3>2 DEF DomainInv
    <3>4. Whole(m)' \in SUBSET (Kinds \ {"nvram"})
      BY <3>3 DEF Whole
    <3>5. Power(m) = "none" /\ Power(m)' = "none" /\ Life(m) = "building"
      BY <1>0, <3>1, <3>2 DEF Power, Active
    <3>6. QED
      BY <3>4, <3>5 DEF Lifecycle!Hosted, Lifecycle!Prepare, Lifecycle!Machine
  <2>5. CASE OnlyVol(m, RemovalOrder[pos[m]], "absent") /\ op[m] = "volume"
    <3>1. dom[m] = "none" /\ Life(m) = "removing"
      BY <1>0, <2>5 DEF RemovalInv, RemoveOps
    <3>2. Whole(m)' \in SUBSET Whole(m)
      BY <1>0, <2>5 DEF OnlyVol, Whole
    <3>3. Power(m) = "none" /\ Power(m)' = "none"
      BY <1>8, <3>1 DEF Power, Active
    <3>4. QED
      BY <3>1, <3>2, <3>3 DEF Lifecycle!Hosted, Lifecycle!Discard, Lifecycle!Machine
  <2>6. QED
    BY <2>1, <2>2, <2>3, <2>4, <2>5, VolStep
<1>9. QED
  BY <1>4, <1>5, <1>6, <1>7, <1>8, DomStep

-----------------------------------------------------------------------------
(* The refinement *)

RefinementInv == IInv /\ \A m \in Machines : LifeInv(m)

LEMMA InitRefinement == Init => RefinementInv /\ Lifecycle!Init
<1> SUFFICES ASSUME Init PROVE RefinementInv /\ Lifecycle!Init
  OBVIOUS
<1>1. IInv
  BY InitTypes, InitMachines DEF IInv
<1>2. ASSUME NEW m \in Machines
      PROVE  LifeInv(m) /\ Life(m) = "building" /\ Power(m) = "none" /\ Whole(m) = {}
  <2>1. /\ req[m] = "running" /\ stage[m] = "provisioning" /\ step[m] = generateUUID
        /\ op[m] = "none" /\ dom[m] = "none"
        /\ \A k \in Kinds : vol[m][k] = "absent"
    BY DEF Init
  <2>2. LifeInv(m)
    BY <2>1 DEF LifeInv, StageInv, SeenInv, BuiltInv, Built, StepOps, MediumOps, DomainOps
  <2>3. Life(m) = "building" /\ Power(m) = "none" /\ Whole(m) = {}
    BY <2>1 DEF Life, Power, Active, Whole
  <2>4. QED
    BY <2>2, <2>3
<1>3. QED
  BY <1>1, <1>2 DEF RefinementInv, Lifecycle!Init

(* What belongs to a request, all that its abstract life depends on. *)
Alike(m) == Same(m) /\ stage'[m] = stage[m] /\ seen'[m] = seen[m]

LEMMA AlikeContract ==
    ASSUME NEW m \in Machines, Alike(m)
    PROVE  Lifecycle!Contract(m) /\ (LifeInv(m) => LifeInv(m)')
<1>1. Life(m)' = Life(m) /\ Power(m)' = Power(m) /\ Whole(m)' = Whole(m)
  BY DEF Alike, Same, Life, Power, Whole
<1>2. LifeInv(m) => LifeInv(m)'
  BY DEF Alike, Same, LifeInv, StageInv, SeenInv, BuiltInv, Built, Provisioning
<1>3. QED
  BY <1>1, <1>2 DEF Lifecycle!Contract, Lifecycle!Lives, Lifecycle!Hosted, Lifecycle!Rest

LEMMA CrashContract ==
    ASSUME TypesInv, TypesInv', Crash, NEW m \in Machines, RemovalInv(m), LifeInv(m)
    PROVE  Lifecycle!Contract(m) /\ LifeInv(m)'
<1>1. op'[m] = "none" /\ UNCHANGED <<req, stage, step, vol, dom>>
  BY DEF Crash, omniVars, hostVars
<1>2. Power(m)' = Power(m) /\ Whole(m)' = Whole(m)
  BY <1>1 DEF Power, Whole
<1>3. Life(m)' = Life(m) \/ (Life(m) # "gone" /\ Life(m)' = "removing")
  BY <1>1, LifeOf DEF LifeShows, Life, TeardownOps
<1>4. LifeInv(m)'
  <2>1. StageInv(m)' /\ SeenInv(m)'
    BY <1>1 DEF StageInv, SeenInv, StepOps, MediumOps, DomainOps
  <2>2. BuiltInv(m)'
    BY <1>1 DEF LifeInv, BuiltInv, Built, Provisioning, StepOps, MediumOps, DomainOps
  <2>3. QED
    BY <2>1, <2>2 DEF LifeInv
<1>5. QED
  BY <1>2, <1>3, <1>4
     DEF Lifecycle!Contract, Lifecycle!Lives, Lifecycle!Hosted, Lifecycle!Rest

LEMMA StepContract ==
    ASSUME RefinementInv, IInv', NEW m \in Machines, MachineStep(m), NEW n \in Machines
    PROVE  Lifecycle!Contract(n) /\ LifeInv(n)'
<1>1. /\ TypesInv /\ TypesInv' /\ LifeInv(n)
      /\ DomainInv(n) /\ DomainInv(n)' /\ RemovalInv(n)
  BY DEF RefinementInv, IInv, MachineInv
<1>2. CASE n = m
  <2>1. LifeInv(m)'
    BY <1>1, <1>2, StageStep, SeenStep, BuiltStep DEF LifeInv
  <2>2. Lifecycle!Lives(m) /\ Lifecycle!Hosted(m)
    BY <1>1, <1>2, LivesOn, HostedOn
  <2>3. QED
    BY <1>2, <2>1, <2>2 DEF Lifecycle!Contract
<1>3. CASE n # m
  <2>1. Alike(n)
    BY <1>1, <1>3, OthersSame, OthersStage DEF Alike, TypesInv
  <2>2. QED
    BY <1>1, <2>1, AlikeContract
<1>4. QED
  BY <1>2, <1>3

LEMMA NextRefinement ==
    ASSUME RefinementInv, [Next]_vars
    PROVE  RefinementInv' /\ [Lifecycle!Next]_(Lifecycle!vars)
<1>1. IInv' /\ TypesInv /\ TypesInv' /\ \A m \in Machines : RemovalInv(m) /\ LifeInv(m)
  BY Inductive DEF RefinementInv, IInv, MachineInv
<1>2. \A m \in Machines : Lifecycle!Contract(m) /\ LifeInv(m)'
  <2>1. ASSUME NEW m \in Machines, MachineStep(m), NEW n \in Machines
        PROVE  Lifecycle!Contract(n) /\ LifeInv(n)'
    BY <1>1, <2>1, StepContract
  <2>2. ASSUME Crash, NEW n \in Machines
        PROVE  Lifecycle!Contract(n) /\ LifeInv(n)'
    BY <1>1, <2>2, CrashContract
  <2>3. ASSUME UNCHANGED vars, NEW n \in Machines
        PROVE  Lifecycle!Contract(n) /\ LifeInv(n)'
    <3>1. Alike(n)
      BY <2>3 DEF vars, Alike, Same
    <3>2. QED
      BY <1>1, <3>1, AlikeContract
  <2>4. QED
    BY <2>1, <2>2, <2>3 DEF Next, MachineStep
<1>3. Lifecycle!Functions
  BY DEF Lifecycle!Functions
<1>4. QED
  BY <1>1, <1>2, <1>3 DEF Lifecycle!Next, RefinementInv

(* Every behaviour of the provider is one the abstract life of a request   *)
(* allows: no domain without all its media and disks, none powered on by a *)
(* request that is ready, failed or being removed, none gone from under    *)
(* its parts, and no way back from a removal, whatever calls fail and      *)
(* wherever the provider restarts.                                         *)
THEOREM ProvisionerImplementsLifecycle == Spec => LifecycleSpec
<1>1. Init => RefinementInv /\ Lifecycle!Init
  BY InitRefinement
<1>2. RefinementInv /\ [Next]_vars => RefinementInv' /\ [Lifecycle!Next]_(Lifecycle!vars)
  BY NextRefinement
<1>3. QED
  BY <1>1, <1>2, PTL DEF Spec, LifecycleSpec, Lifecycle!Spec

=============================================================================
