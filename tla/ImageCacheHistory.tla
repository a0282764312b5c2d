------------------------- MODULE ImageCacheHistory -------------------------
(***************************************************************************)
(* ImageCache with two history variables, for the property that speaks of  *)
(* the past.                                                               *)
(***************************************************************************)
EXTENDS ImageCache

VARIABLES
    quiet,      \* quiet[k]: ticks since k was last held, up to MaxAge
    doubted     \* images whose file os.Stat failed to see while lastUsed had
                \* an entry for them that no Release has renewed since

history == <<quiet, doubted>>

Held(k) == \E w \in Workers : key[w] = k

HInit == Init /\ quiet = [k \in Keys |-> 0] /\ doubted = {}

Doubts(k) == disk[k] # "none" /\ k \in lastUsed /\ \E w \in Workers : key[w] = k /\ StatMiss(w)
Renews(k) == \E w \in Workers : key[w] = k /\ Release(w) /\ Dropped(k) = 0

Older(k) == IF Held(k) \/ quiet[k] = MaxAge THEN quiet[k] ELSE quiet[k] + 1

(* Being held starts the clock of an image again; what was doubted is      *)
(* forgotten with the entry of lastUsed.                                   *)
Quieten == quiet' = [k \in Keys |-> IF Held(k) THEN 0 ELSE quiet[k]]
Doubt == doubted' = {k \in lastUsed' \cap Keys : Doubts(k) \/ (k \in doubted /\ ~Renews(k))}

(* A tick makes an image that nobody holds one tick quieter.               *)
HNext ==
    \/ Work /\ Quieten /\ Doubt
    \/ /\ Tick
       /\ quiet' = [k \in Keys |-> Older(k)]
       /\ doubted' = doubted

HSpec == HInit /\ [][HNext]_<<vars, history>>

(* An image is removed only after nobody has held it for MaxAge: the       *)
(* clock of an image starts again at its last Release, not before.  There  *)
(* is one way around it: Acquire takes an error of os.Stat for a miss, its *)
(* download fails too, and the reference goes without renewing lastUsed,   *)
(* so an image somebody has just given up is judged by an old entry.       *)
NoEarlyEviction ==
    [][\A k \in Keys : (disk[k] # "none" /\ disk'[k] = "none")
          => quiet[k] >= MaxAge \/ k \in doubted]_vars
=============================================================================
