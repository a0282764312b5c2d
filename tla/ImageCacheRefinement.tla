------------------------ MODULE ImageCacheRefinement ------------------------
(***************************************************************************)
(* The image cache implements ImageLease: every step of it is a Grant, a   *)
(* Return, an Evict or a Restart of the abstract cache, or leaves the      *)
(* images and the leases alone.                                            *)
(***************************************************************************)
EXTENDS ImageCacheProofs

USE DEF Names

(* What the refinement rests on. *)
RefinementInv == TypeInv /\ RefsMatchHolders /\ FileInv

LEMMA InitRefines == Init => Lease!Init
  BY NamesDistinct DEF Init, Lease!Init, Lease!NoLease, ImagesOnDisk, Leases

(* A step that changes no key's file and gives and takes no image. *)
LEMMA Stutters ==
    ASSUME \A k \in Keys : (disk'[k] = "none") <=> (disk[k] = "none"),
           \A v \in Workers : pc'[v] = "using" <=> pc[v] = "using",
           \A v \in Workers : pc[v] = "using" => key'[v] = key[v]
    PROVE  UNCHANGED Lease!vars
<1>1. ImagesOnDisk' = ImagesOnDisk
  BY DEF ImagesOnDisk
<1>2. Leases' = Leases
  BY DEF Leases
<1>3. QED
  BY <1>1, <1>2 DEF Lease!vars

(* The end of a flight that went well grants a lease to all of its callers. *)
LEMMA FlightGrants ==
    ASSUME WorkersType, NEW w \in Workers, key[w] \in Keys, pc[w] \notin {"idle", "using"},
           Deliver(w, "using"), key' = key,
           ImagesOnDisk' = ImagesOnDisk \cup {key[w]}
    PROVE  Lease!Grant(key[w], Callers(w))
<1>1. w \in Callers(w) /\ Callers(w) \subseteq Workers
  BY DEF Callers
<1>2. \A v \in Callers(w) : Leases[v] = None /\ key[v] = key[w]
  BY DEF Callers, Leases
<1>3. Leases' = [v \in Workers |-> IF v \in Callers(w) THEN key[w] ELSE Leases[v]]
  BY <1>2 DEF WorkersType, Deliver, Leases
<1>4. QED
  BY <1>1, <1>2, <1>3 DEF Lease!Grant

LEMMA FlightRefines ==
    ASSUME RefinementInv, NEW w \in Workers, Flight(w)
    PROVE  [Lease!Next]_Lease!vars
<1>1. CacheType /\ WorkersType /\ KeyInv /\ TempInv
  BY DEF RefinementInv, TypeInv, TypeOK
<1>2. \A v \in Workers : pc[v] # "idle" => key[v] \in Keys
  BY <1>1, NamesDistinct DEF WorkersType, KeyInv
<1>3. pc[w] \in {"fetch", "rename"} => temp[w] \in Temps
  BY <1>1, NamesDistinct DEF WorkersType, TempInv
<1>4. CASE JoinFlight(w) \/ LeadFlight(w) \/ StatMiss(w) \/ RequestFails(w)
  BY <1>1, <1>4, Stutters DEF WorkersType, JoinFlight, LeadFlight, StatMiss, RequestFails,
                              Deliver, Callers, flyVars
<1>5. CASE StatHit(w)
  <2>1. /\ key[w] \in Keys /\ Deliver(w, "using") /\ key' = key /\ disk' = disk
        /\ disk[key[w]] # "none" /\ pc[w] = "stat"
    BY <1>2, <1>5 DEF StatHit, flyVars
  <2>2. ImagesOnDisk' = ImagesOnDisk \cup {key[w]}
    BY <2>1 DEF ImagesOnDisk
  <2>3. Lease!Grant(key[w], Callers(w)) /\ Callers(w) \in SUBSET Workers
    BY <1>1, <2>1, <2>2, FlightGrants DEF Callers
  <2>4. QED
    BY <2>1, <2>3 DEF Lease!Next
<1>6. CASE (\E t \in Temps : CreateTemp(w, t)) \/ CopyDone(w) \/ CopyFails(w) \/ RenameFails(w)
  <2>1. \A k \in Keys : disk'[k] = disk[k]
    BY <1>1, <1>3, <1>6, NamesDistinct
       DEF CacheType, CreateTemp, CopyDone, CopyFails, RenameFails, Abandon
  <2>2. key' = key
    BY <1>6 DEF CreateTemp, CopyDone, CopyFails, RenameFails, Abandon
  <2>3. \A v \in Workers : pc'[v] = "using" <=> pc[v] = "using"
    BY <1>1, <1>6 DEF WorkersType, CreateTemp, CopyDone, CopyFails, RenameFails, Abandon,
                      Deliver, Callers
  <2>4. QED
    BY <2>1, <2>2, <2>3, Stutters
<1>7. CASE Rename(w)
  <2>1. /\ key[w] \in Keys /\ temp[w] \in Temps /\ Deliver(w, "using") /\ key' = key
        /\ disk' = [disk EXCEPT ![key[w]] = disk[temp[w]], ![temp[w]] = "none"]
        /\ disk[temp[w]] # "none" /\ pc[w] = "rename"
    BY <1>2, <1>3, <1>7 DEF Rename
  <2>2. disk'[key[w]] # "none" /\ \A k \in Keys \ {key[w]} : disk'[k] = disk[k]
    BY <1>1, <2>1, NamesDistinct DEF CacheType
  <2>3. ImagesOnDisk' = ImagesOnDisk \cup {key[w]}
    BY <2>1, <2>2 DEF ImagesOnDisk
  <2>4. Lease!Grant(key[w], Callers(w)) /\ Callers(w) \in SUBSET Workers
    BY <1>1, <2>1, <2>3, FlightGrants DEF Callers
  <2>5. QED
    BY <2>1, <2>4 DEF Lease!Next
<1>8. QED
  BY <1>4, <1>5, <1>6, <1>7 DEF Flight

LEMMA CleanupRefines ==
    ASSUME RefinementInv, Cleanup
    PROVE  [Lease!Next]_Lease!vars
<1>1. CacheType /\ WorkersType
  BY DEF RefinementInv, TypeInv, TypeOK
<1>2. UNCHANGED <<pc, key>>
  BY DEF Cleanup, CleanupStep, CleanupStart, CleanupGivesUp, CleanupKeeps, CleanupNotes,
         CleanupExpires, CleanupRemoves, CleanupRemoveFails, CleanupEnds, flyVars
<1>3. CASE UNCHANGED disk
  BY <1>2, <1>3, Stutters
<1>4. CASE CleanupRemoves /\ target \in Keys
  <2>1. refs[target] = 0 /\ target \in Names
    BY <1>4 DEF RefinementInv, FileInv, RemoveInv, CleanupRemoves
  <2>2. Holders(target) = {}
    BY <2>1, HoldersFinite, FS_EmptySet DEF RefinementInv, RefsMatchHolders
  <2>3. \A v \in Workers : Leases[v] # target
    BY <2>1, <2>2, NamesDistinct DEF Holders, Leases
  <2>4. target \in ImagesOnDisk /\ disk' = [disk EXCEPT ![target] = "none"]
    BY <1>4 DEF CleanupRemoves, ImagesOnDisk
  <2>5. ImagesOnDisk' = ImagesOnDisk \ {target}
    BY <1>1, <2>4 DEF CacheType, ImagesOnDisk
  <2>6. Leases' = Leases
    BY <1>2 DEF Leases
  <2>7. Lease!Evict(target)
    BY <2>3, <2>4, <2>5, <2>6 DEF Lease!Evict
  <2>8. QED
    BY <1>4, <2>7 DEF Lease!Next
<1>5. CASE CleanupRemoves /\ target \notin Keys
  <2>1. \A k \in Keys : disk'[k] = disk[k]
    BY <1>1, <1>5 DEF CacheType, CleanupRemoves
  <2>2. QED
    BY <1>2, <2>1, Stutters
<1>6. CleanupRemoves \/ UNCHANGED disk
  BY DEF Cleanup, CleanupStep, CleanupStart, CleanupGivesUp, CleanupKeeps, CleanupNotes,
         CleanupExpires, CleanupRemoveFails, CleanupEnds
<1>7. QED
  BY <1>3, <1>4, <1>5, <1>6

LEMMA NextRefines ==
    ASSUME RefinementInv, [Next]_vars
    PROVE  [Lease!Next]_Lease!vars
<1>1. CacheType /\ WorkersType /\ KeyInv
  BY DEF RefinementInv, TypeInv, TypeOK
<1>2. ASSUME NEW w \in Workers,
             (\E k \in Keys : AcquireRef(w, k)) \/ AcquireFails(w)
      PROVE  [Lease!Next]_Lease!vars
  <2>1. disk' = disk
    BY <1>2 DEF AcquireRef, AcquireFails, Leave
  <2>2. pc[w] # "using" /\ pc'[w] # "using"
    BY <1>1, <1>2 DEF WorkersType, AcquireRef, AcquireFails, Leave
  <2>3. \A v \in Workers \ {w} : pc'[v] = pc[v] /\ key'[v] = key[v]
    BY <1>1, <1>2 DEF WorkersType, AcquireRef, AcquireFails, Leave
  <2>4. QED
    BY <2>1, <2>2, <2>3, Stutters
<1>3. ASSUME NEW w \in Workers, Release(w)
      PROVE  [Lease!Next]_Lease!vars
  <2>1. Leases[w] # None
    BY <1>1, <1>3 DEF KeyInv, Release, Leases
  <2>2. pc' = [pc EXCEPT ![w] = "idle"] /\ key' = [key EXCEPT ![w] = None] /\ disk' = disk
    BY <1>3 DEF Release, Leave
  <2>3. Leases' = [Leases EXCEPT ![w] = None]
    BY <1>1, <2>2 DEF WorkersType, Leases
  <2>4. ImagesOnDisk' = ImagesOnDisk
    BY <2>2 DEF ImagesOnDisk
  <2>5. Lease!Return(w)
    BY <2>1, <2>3, <2>4 DEF Lease!Return
  <2>6. QED
    BY <2>5 DEF Lease!Next
<1>4. CASE Crash
  <2>1. Leases' = [w \in Workers |-> None]
    BY <1>4 DEF Crash, Leases
  <2>2. ImagesOnDisk' = ImagesOnDisk
    BY <1>4 DEF Crash, ImagesOnDisk
  <2>3. Lease!Restart
    BY <2>1, <2>2 DEF Lease!Restart, Lease!NoLease
  <2>4. QED
    BY <2>3 DEF Lease!Next
<1>5. CASE Tick \/ UNCHANGED vars
  BY <1>5, Stutters DEF Tick, vars
<1>6. QED
  BY <1>2, <1>3, <1>4, <1>5, FlightRefines, CleanupRefines DEF Next, Work

(* The cache keeps the promise of ImageLease, for any number of workers,   *)
(* images and restarts: a leased image is evicted by no cleanup pass, and  *)
(* all callers of a shared download are given the same complete image.     *)
THEOREM CacheImplementsLease == Spec => LeaseSpec
<1>1. RefinementInv /\ [Next]_vars => [Lease!Next]_Lease!vars
  BY NextRefines
<1>2. Spec => []RefinementInv
  BY FileInvariant DEF RefinementInv
<1>3. QED
  BY InitRefines, <1>1, <1>2, PTL DEF Spec, LeaseSpec, Lease!Spec
=============================================================================
