----------------------------- MODULE ImageLease -----------------------------
(***************************************************************************)
(* What the image cache promises to the provisioning workers, with none of *)
(* its mechanism: a worker that got an image from Acquire holds a lease on *)
(* it until it calls Release, a leased image is in the cache, and only an  *)
(* image nobody leases is ever evicted.                                    *)
(***************************************************************************)
CONSTANTS Workers, Keys, None

VARIABLES
    images,     \* the keys whose complete image is in the cache
    lease       \* lease[w] is the key worker w holds, None when it holds none

vars == <<images, lease>>

NoLease == [w \in Workers |-> None]

Init ==
    /\ images = {}
    /\ lease = NoLease

(* Acquire returns: the flight of image k ends well for all of its callers. *)
Grant(k, callers) ==
    /\ callers # {}
    /\ \A w \in callers : lease[w] = None
    /\ images' = images \cup {k}
    /\ lease' = [w \in Workers |-> IF w \in callers THEN k ELSE lease[w]]

Return(w) ==
    /\ lease[w] # None
    /\ lease' = [lease EXCEPT ![w] = None]
    /\ UNCHANGED images

Evict(k) ==
    /\ k \in images
    /\ \A w \in Workers : lease[w] # k
    /\ images' = images \ {k}
    /\ UNCHANGED lease

(* The process restarts: leases are memory, images are files. *)
Restart ==
    /\ lease' = NoLease
    /\ UNCHANGED images

Next ==
    \/ \E k \in Keys, callers \in SUBSET Workers : Grant(k, callers)
    \/ \E w \in Workers : Return(w)
    \/ \E k \in Keys : Evict(k)
    \/ Restart

Spec == Init /\ [][Next]_vars
=============================================================================
