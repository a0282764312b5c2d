------------------------------ MODULE ImageUse ------------------------------
(***************************************************************************)
(* The provisioning of Provisioner together with the image cache.          *)
(*                                                                         *)
(* provisionISO takes a lease on its image (Acquire, provision.go:121),    *)
(* reads the image's file while it uploads it, and gives the lease back    *)
(* when it returns, however it does (defer Release).  The cache appears by *)
(* its contract, ImageLease, which ImageCache implements: it grants an     *)
(* image to the callers of one flight at once and evicts what nobody has.  *)
(***************************************************************************)
EXTENDS Provisioner

CONSTANTS
    ImageOf,    \* ImageOf[m]: the image of m's schematic and Talos version
    None

Images == {ImageOf[m] : m \in Machines}

ASSUME ImageOfAssumption == ImageOf \in [Machines -> Images] /\ None \notin Images

VARIABLES
    images,     \* the images in the cache
    lease,      \* lease[m]: the image m has acquired, None when it has none
    hit         \* history: the requests one of whose own calls went wrong

useVars == <<vars, images, lease, hit>>

Cache == INSTANCE ImageLease WITH Workers <- Machines, Keys <- Images

UseInit == Init /\ Cache!Init /\ hit = {}

-----------------------------------------------------------------------------

Waits(m) == op[m] = "acquire" /\ lease[m] = None

(* Acquire returns to all callers of its flight. *)
Grant(k) ==
    /\ \E callers \in SUBSET {m \in Machines : Waits(m) /\ ImageOf[m] = k} :
           Cache!Grant(k, callers)
    /\ UNCHANGED <<vars, hit>>

Evict(k) == Cache!Evict(k) /\ UNCHANGED <<vars, hit>>

(* Mutant: only the successful end of the step calls Release. *)
ReturnsMutant(m) == op'[m] = "save"

(* Mutant: Release is called right after Acquire, without defer. *)
ReleasesAtOnce(m) == op'[m] \in {"none", "purge"}

(* The step's function returns: with an error, or with its results. *)
Returns(m) == op'[m] \in {"none", "save"}

(* A caller of Acquire waits, or gets its error; with the lease it goes on. *)
OfRequest(m) ==
    \/ Reconcile(m) \/ ReconcileTeardown(m) \/ Deprovision(m)
    \/ Provision(m) /\ ~Waits(m)
    \/ CallFails(m) /\ (op[m] = "acquire" => Waits(m))
    \/ UploadFails(m) \/ Rerun(m) \/ RequestTeardown(m)
    \/ GuestChanges(m) \/ GuestPowersOff(m)

Step(m) ==
    /\ OfRequest(m)
    /\ IF lease[m] # None /\ Returns(m) THEN Cache!Return(m) ELSE UNCHANGED <<images, lease>>
    /\ hit' = IF faults' # faults THEN hit \cup {m} ELSE hit

Restart ==
    /\ Crash
    /\ Cache!Restart
    /\ hit' = hit \cup {m \in Machines : op[m] # "none"}

UseNext ==
    \/ \E m \in Machines : Step(m)
    \/ \E k \in Images : Grant(k) \/ Evict(k)
    \/ Restart

UseSpec == UseInit /\ [][UseNext]_useVars
-----------------------------------------------------------------------------
(* Correctness *)

Reading == {"purge", "pool", "makePool", "create", "upload"}

(* From Acquire to the end of the upload the image is in the cache: its    *)
(* file may be read, whatever cleanup, the other requests, a teardown or a *)
(* restart do.                                                             *)
UploadReadsImage ==
    \A m \in Machines :
        step[m] = provisionISO /\ op[m] \in Reading =>
            lease[m] = ImageOf[m] /\ ImageOf[m] \in images

(* No lease outlives its step: a failing call, a lost reply, a teardown in *)
(* the middle of the upload or a restart leaves no reference that would    *)
(* keep the image in the cache for ever.                                   *)
NoLeaseLeaks ==
    \A m \in Machines : lease[m] # None => step[m] = provisionISO /\ op[m] \in Reading \cup {"acquire", "path"}

(* A request fails only for a reason of its own: one of its calls went     *)
(* wrong, the provider was restarted in the middle of its work, or its     *)
(* class needs a pool the host does not have; or because the counter gave  *)
(* a device of its domain a name that is taken.  Nothing else another      *)
(* request meets or does, no guest and no eviction makes it fail.          *)
LacksPool(m)    == op[m] \in {"makePool", "create"} /\ PoolOf(Kind(m)) \notin pools
SharesTarget(m) == op[m] = "boot" /\ ~DevicesFree(m)

FailsForItsOwnReason ==
    [][\A m \in Machines : stage[m] # "failed" /\ stage'[m] = "failed" =>
            m \in hit' \/ LacksPool(m) \/ SharesTarget(m)]_useVars
=============================================================================
