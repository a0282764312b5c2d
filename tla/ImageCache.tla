----------------------------- MODULE ImageCache -----------------------------
(***************************************************************************)
(* The cache of downloaded Talos images (internal/pkg/provider/images.go). *)
(*                                                                         *)
(* Provisioning workers call Acquire and Release; one background goroutine *)
(* (Run) calls cleanup on every tick.  A lock section of a worker is one   *)
(* step: it calls nothing.  cleanup holds the mutex for its whole pass and *)
(* does file operations in it, so it is a sequence of steps, with the      *)
(* downloads, which never take the mutex, running in between.              *)
(*                                                                         *)
(* Time is counted in ticks.  Local system calls take no tick; a download  *)
(* may take up to Timeout of them, after which the HTTP client aborts it.  *)
(***************************************************************************)
EXTENDS Naturals, FiniteSets

CONSTANTS
    Workers,            \* goroutines that may be inside Acquire..Release at once
    Keys,               \* cache keys: schematic, Talos version, format, arch
    Temps,              \* names os.CreateTemp may return ("download-*.tmp")
    None,               \* no key, no temporary file, no entry
    Timeout,            \* HTTP client timeout, in ticks
    CleanupInterval,    \* period of the cleanup ticker, in ticks
    MaxAge,             \* age at which an unused file is removed, in ticks
    MaxCrashes          \* bound: how many times the process may be restarted

Names == Keys \cup Temps

ASSUME WorkersFinite == IsFiniteSet(Workers)
ASSUME NamesDistinct == Keys \cap Temps = {} /\ None \notin Names
ASSUME TimesNatural  ==
    Timeout \in Nat /\ CleanupInterval \in Nat /\ MaxAge \in Nat /\ MaxCrashes \in Nat
ASSUME TickerRuns    == CleanupInterval > 0
(* images.go:30-36: 120 seconds against one hour *)
ASSUME TimeoutBelowMaxAge == Timeout < MaxAge

VARIABLES
    refs,       \* refs[n]: reference count; 0 stands for no map entry
    lastUsed,   \* the names that have an entry in the lastUsed map
    age,        \* age[n]: ticks since that entry was written, up to MaxAge,
                \*         and 0 when there is none
    disk,       \* disk[n]: the file n in CachePath: "none", "partial", "whole"
    pc,         \* pc[w]: where worker w is in Acquire .. Release
    key,        \* key[w]: the key w was called with, None when w is idle
    temp,       \* temp[w]: the temporary file w downloads to
    spent,      \* spent[w]: ticks since w sent its request, while it downloads
    pass,       \* where the cleanup goroutine is: "wait", "scan", "remove"
    todo,       \* directory entries the pass has not looked at yet
    target,     \* the entry the pass has decided to remove
    ticker,     \* ticks until the ticker has fired next
    due,        \* a tick is waiting in the ticker's channel
    crashes     \* restarts so far

refVars   == <<refs, lastUsed, age>>
flyVars   == <<key, temp, spent>>
passVars  == <<pass, todo, target>>
clockVars == <<ticker, due>>
vars == <<refs, lastUsed, age, disk, pc, key, temp, spent, pass, todo, target,
          ticker, due, crashes>>

Init ==
    /\ refs = [n \in Names |-> 0]
    /\ lastUsed = {}
    /\ age = [n \in Names |-> 0]
    /\ disk = [n \in Names |-> "none"]
    /\ pc = [w \in Workers |-> "idle"]
    /\ key = [w \in Workers |-> None]
    /\ temp = [w \in Workers |-> None]
    /\ spent = [w \in Workers |-> 0]
    /\ pass = "wait" /\ todo = {} /\ target = None
    /\ ticker = 0 /\ due = FALSE
    /\ crashes = 0

MuFree == pass = "wait"

-----------------------------------------------------------------------------
(* Acquire *)

AcquireRef(w, k) ==
    /\ pc[w] = "idle"
    /\ MuFree
    /\ refs' = [refs EXCEPT ![k] = @ + 1]
    /\ key' = [key EXCEPT ![w] = k]
    /\ pc' = [pc EXCEPT ![w] = "do"]
    /\ UNCHANGED <<lastUsed, age, disk, temp, spent, passVars, clockVars, crashes>>

Leading == {"stat", "request", "fetch", "rename"}
InFlight(k) == \E w \in Workers : key[w] = k /\ pc[w] \in Leading

(* singleflight: the first caller of a key runs the function, callers that *)
(* come while it runs wait for its result.                                 *)
JoinFlight(w) ==
    /\ pc[w] = "do"
    /\ InFlight(key[w])
    /\ pc' = [pc EXCEPT ![w] = "wait"]
    /\ UNCHANGED <<refVars, disk, flyVars, passVars, clockVars, crashes>>

LeadFlight(w) ==
    /\ pc[w] = "do"
    /\ ~InFlight(key[w])
    /\ pc' = [pc EXCEPT ![w] = "stat"]
    /\ UNCHANGED <<refVars, disk, flyVars, passVars, clockVars, crashes>>

(* The function returned: its caller and everyone waiting for it go on. *)
Callers(w) == {w} \cup {v \in Workers : pc[v] = "wait" /\ key[v] = key[w]}
Deliver(w, to) == pc' = [v \in Workers |-> IF v \in Callers(w) THEN to ELSE pc[v]]

StatHit(w) ==
    /\ pc[w] = "stat"
    /\ disk[key[w]] # "none"
    /\ Deliver(w, "using")
    /\ UNCHANGED <<refVars, disk, flyVars, passVars, clockVars, crashes>>

(* Any error of os.Stat counts as a miss, also one that has nothing to do  *)
(* with the file, which may be there.                                      *)
StatMiss(w) ==
    /\ pc[w] = "stat"
    /\ pc' = [pc EXCEPT ![w] = "request"]
    /\ UNCHANGED <<refVars, disk, flyVars, passVars, clockVars, crashes>>

-----------------------------------------------------------------------------
(* download *)

(* No response, a bad status, or no temporary file. *)
RequestFails(w) ==
    /\ pc[w] = "request"
    /\ Deliver(w, "failed")
    /\ spent' = [spent EXCEPT ![w] = 0]
    /\ UNCHANGED <<refVars, disk, key, temp, passVars, clockVars, crashes>>

Touch(n) ==
    /\ lastUsed' = lastUsed \cup {n}
    /\ age' = [age EXCEPT ![n] = 0]

Forget(n) ==
    /\ lastUsed' = lastUsed \ {n}
    /\ age' = [age EXCEPT ![n] = 0]

(* os.CreateTemp returns a name no file has.  It is random, so it is also  *)
(* none of the names lastUsed still remembers: forgetting t makes the      *)
(* finite Temps stand for that.                                            *)
CreateTemp(w, t) ==
    /\ pc[w] = "request"
    /\ disk[t] = "none"
    /\ \A v \in Workers : temp[v] # t
    /\ t # target /\ t \notin todo
    /\ temp' = [temp EXCEPT ![w] = t]
    /\ disk' = [disk EXCEPT ![t] = "partial"]
    /\ Forget(t)
    /\ pc' = [pc EXCEPT ![w] = "fetch"]
    /\ UNCHANGED <<refs, key, spent, passVars, clockVars, crashes>>

(* io.Copy reads the body to its end.  The copy does not notice that its   *)
(* file was unlinked.                                                      *)
CopyDone(w) ==
    /\ pc[w] = "fetch"
    /\ disk' = [disk EXCEPT ![temp[w]] = IF @ = "none" THEN "none" ELSE "whole"]
    /\ spent' = [spent EXCEPT ![w] = 0]
    /\ pc' = [pc EXCEPT ![w] = "rename"]
    /\ UNCHANGED <<refVars, key, temp, passVars, clockVars, crashes>>

(* An error of the download: the deferred function removes the temporary   *)
(* file, and ignores it when that fails.                                   *)
Abandon(w) ==
    /\ \E left \in {"none", disk[temp[w]]} : disk' = [disk EXCEPT ![temp[w]] = left]
    /\ temp' = [temp EXCEPT ![w] = None]
    /\ spent' = [spent EXCEPT ![w] = 0]
    /\ Deliver(w, "failed")
    /\ UNCHANGED <<refVars, key, passVars, clockVars, crashes>>

(* Mutant: the error of io.Copy is dropped. *)
CopyFailsMutant(w) ==
    /\ pc[w] = "fetch"
    /\ spent' = [spent EXCEPT ![w] = 0]
    /\ pc' = [pc EXCEPT ![w] = "rename"]
    /\ UNCHANGED <<refVars, disk, key, temp, passVars, clockVars, crashes>>

CopyFails(w) == pc[w] = "fetch" /\ Abandon(w)

Rename(w) ==
    /\ pc[w] = "rename"
    /\ disk[temp[w]] # "none"
    /\ disk' = [disk EXCEPT ![key[w]] = disk[temp[w]], ![temp[w]] = "none"]
    /\ temp' = [temp EXCEPT ![w] = None]
    /\ Deliver(w, "using")
    /\ UNCHANGED <<refVars, key, spent, passVars, clockVars, crashes>>

RenameFails(w) == pc[w] = "rename" /\ Abandon(w)

-----------------------------------------------------------------------------
(* The end of Acquire on an error, and Release *)

DroppedMutant(n) == 0                      \* any caller deletes the entry
Dropped(n) == IF refs[n] <= 1 THEN 0 ELSE refs[n] - 1

Leave(w) ==
    /\ refs' = [refs EXCEPT ![key[w]] = Dropped(key[w])]
    /\ key' = [key EXCEPT ![w] = None]
    /\ pc' = [pc EXCEPT ![w] = "idle"]
    /\ UNCHANGED <<disk, temp, spent, passVars, clockVars, crashes>>

(* Mutant: Acquire returns its error without the decrement. *)
AcquireFailsMutant(w) ==
    /\ pc[w] = "failed"
    /\ MuFree
    /\ key' = [key EXCEPT ![w] = None]
    /\ pc' = [pc EXCEPT ![w] = "idle"]
    /\ UNCHANGED <<refVars, disk, temp, spent, passVars, clockVars, crashes>>

AcquireFails(w) ==
    /\ pc[w] = "failed"
    /\ MuFree
    /\ Leave(w)
    /\ UNCHANGED <<lastUsed, age>>

(* Mutant: Release leaves lastUsed alone. *)
ReleaseMutant(w) ==
    /\ pc[w] = "using"
    /\ MuFree
    /\ Leave(w)
    /\ UNCHANGED <<lastUsed, age>>

Release(w) ==
    /\ pc[w] = "using"
    /\ MuFree
    /\ Leave(w)
    /\ IF Dropped(key[w]) = 0 THEN Touch(key[w]) ELSE UNCHANGED <<lastUsed, age>>

-----------------------------------------------------------------------------
(* Run and cleanup *)

EntriesMutant == {k \in Keys : disk[k] # "none"}   \* temporary files are filtered out
Entries == {n \in Names : disk[n] # "none"}

CleanupStart ==
    /\ pass = "wait" /\ due
    /\ due' = FALSE
    /\ pass' = "scan"
    /\ todo' = Entries
    /\ UNCHANGED <<refVars, disk, pc, flyVars, target, ticker, crashes>>

(* Mutant: cleanup returns without releasing the mutex. *)
CleanupGivesUpMutant ==
    /\ pass = "wait" /\ due
    /\ due' = FALSE
    /\ pass' = "returned"
    /\ UNCHANGED <<refVars, disk, pc, flyVars, todo, target, ticker, crashes>>

(* os.ReadDir fails: the pass is over before it began. *)
CleanupGivesUp ==
    /\ pass = "wait" /\ due
    /\ due' = FALSE
    /\ UNCHANGED <<refVars, disk, pc, flyVars, passVars, ticker, crashes>>

InUseMutant(n) == refs[n] > 1
InUse(n) == refs[n] > 0
ExpiredMutant(n) == n \in lastUsed /\ age[n] + 1 >= MaxAge
Expired(n) == n \in lastUsed /\ age[n] >= MaxAge

CleanupKeeps(n) ==
    /\ pass = "scan" /\ n \in todo
    /\ InUse(n) \/ (n \in lastUsed /\ ~Expired(n))
    /\ todo' = todo \ {n}
    /\ UNCHANGED <<refVars, disk, pc, flyVars, pass, target, clockVars, crashes>>

(* Mutant: a file the map does not know is left alone. *)
CleanupNotesMutant(n) ==
    /\ pass = "scan" /\ n \in todo
    /\ ~InUse(n)
    /\ n \notin lastUsed
    /\ todo' = todo \ {n}
    /\ UNCHANGED <<refVars, disk, pc, flyVars, pass, target, clockVars, crashes>>

(* A file the map does not know, after a restart for instance. *)
CleanupNotes(n) ==
    /\ pass = "scan" /\ n \in todo
    /\ ~InUse(n)
    /\ n \notin lastUsed
    /\ Touch(n)
    /\ todo' = todo \ {n}
    /\ UNCHANGED <<refs, disk, pc, flyVars, pass, target, clockVars, crashes>>

CleanupExpires(n) ==
    /\ pass = "scan" /\ n \in todo
    /\ ~InUse(n)
    /\ Expired(n)
    /\ pass' = "remove"
    /\ target' = n
    /\ todo' = todo \ {n}
    /\ UNCHANGED <<refVars, disk, pc, flyVars, clockVars, crashes>>

CleanupRemoves ==
    /\ pass = "remove"
    /\ disk[target] # "none"
    /\ disk' = [disk EXCEPT ![target] = "none"]
    /\ Forget(target)
    /\ pass' = "scan"
    /\ target' = None
    /\ UNCHANGED <<refs, pc, flyVars, todo, clockVars, crashes>>

(* os.Remove fails, because the file has gone or for any other reason: the *)
(* entry of lastUsed stays.                                                *)
CleanupRemoveFails ==
    /\ pass = "remove"
    /\ pass' = "scan"
    /\ target' = None
    /\ UNCHANGED <<refVars, disk, pc, flyVars, todo, clockVars, crashes>>

CleanupEnds ==
    /\ pass = "scan" /\ todo = {}
    /\ pass' = "wait"
    /\ UNCHANGED <<refVars, disk, pc, flyVars, todo, target, clockVars, crashes>>

-----------------------------------------------------------------------------
(* Time and restarts *)

InTimeMutant(w) == TRUE                    \* an HTTP client without a timeout
Downloading(w) == pc[w] \in {"request", "fetch"}

InTime(w) == Downloading(w) => spent[w] < Timeout

(* A tick passes.  cleanup compares with the time its pass began, and the  *)
(* rename follows the copy at once, so neither spans a tick; a request     *)
(* that has taken Timeout ticks ends before the next one.  A tick that     *)
(* finds the ticker's channel full is dropped.                             *)
Tick ==
    /\ pass = "wait"
    /\ \A w \in Workers : pc[w] # "rename"
    /\ \A w \in Workers : InTime(w)
    /\ age' = [n \in Names |->
                  IF n \in lastUsed /\ age[n] < MaxAge THEN age[n] + 1 ELSE age[n]]
    /\ spent' = [w \in Workers |-> IF Downloading(w) THEN spent[w] + 1 ELSE spent[w]]
    /\ ticker' = IF ticker + 1 >= CleanupInterval THEN 0 ELSE ticker + 1
    /\ due' = (due \/ ticker' = 0)
    /\ UNCHANGED <<refs, lastUsed, disk, pc, key, temp, passVars, crashes>>

(* The process stops and starts again: NewImageCache makes empty maps, the *)
(* files stay.                                                             *)
Crash ==
    /\ crashes < MaxCrashes
    /\ crashes' = crashes + 1
    /\ refs' = [n \in Names |-> 0]
    /\ lastUsed' = {}
    /\ age' = [n \in Names |-> 0]
    /\ pc' = [w \in Workers |-> "idle"]
    /\ key' = [w \in Workers |-> None]
    /\ temp' = [w \in Workers |-> None]
    /\ spent' = [w \in Workers |-> 0]
    /\ pass' = "wait" /\ todo' = {} /\ target' = None
    /\ ticker' = 0 /\ due' = FALSE
    /\ UNCHANGED disk

-----------------------------------------------------------------------------

Flight(w) ==
    \/ JoinFlight(w) \/ LeadFlight(w) \/ StatHit(w) \/ StatMiss(w)
    \/ RequestFails(w) \/ \E t \in Temps : CreateTemp(w, t)
    \/ CopyDone(w) \/ CopyFails(w) \/ Rename(w) \/ RenameFails(w)

CleanupStep ==
    \/ \E n \in Names : CleanupKeeps(n) \/ CleanupNotes(n) \/ CleanupExpires(n)
    \/ CleanupRemoves \/ CleanupRemoveFails \/ CleanupEnds

Cleanup == CleanupStart \/ CleanupGivesUp \/ CleanupStep

Work ==
    \/ \E w \in Workers, k \in Keys : AcquireRef(w, k)
    \/ \E w \in Workers : Flight(w) \/ AcquireFails(w) \/ Release(w)
    \/ Cleanup
    \/ Crash

Next == Work \/ Tick

(* A worker inside Do takes its next step; the only step of the network    *)
(* that is certain is the timeout.  Go's mutex does not starve a waiter.   *)
TimesOut(w) ==
    /\ Downloading(w) /\ spent[w] = Timeout
    /\ RequestFails(w) \/ CopyFails(w)

LocalStep(w) ==
    \/ JoinFlight(w) \/ LeadFlight(w) \/ StatHit(w) \/ StatMiss(w)
    \/ Rename(w) \/ RenameFails(w)

WorkerFairness ==
    \A w \in Workers :
        /\ WF_vars(LocalStep(w))
        /\ WF_vars(TimesOut(w))
        /\ SF_vars(AcquireFails(w))

(* The ticker and the cleanup goroutine run; reading the directory and     *)
(* removing a file do not fail every time.                                 *)
CleanupFairness ==
    /\ SF_vars(Tick)
    /\ SF_vars(CleanupStart)
    /\ WF_vars(CleanupStep)
    /\ \A n \in Names : SF_vars(CleanupRemoves /\ target = n)

Spec == Init /\ [][Next]_vars
FairSpec == Spec /\ WorkerFairness /\ CleanupFairness
-----------------------------------------------------------------------------
(* Correctness *)

CacheType ==
    /\ refs \in [Names -> Nat]
    /\ lastUsed \subseteq Names
    /\ age \in [Names -> 0..MaxAge]
    /\ disk \in [Names -> {"none", "partial", "whole"}]

WorkersType ==
    /\ pc \in [Workers -> {"idle", "do", "wait", "failed", "using"} \cup Leading]
    /\ key \in [Workers -> Keys \cup {None}]
    /\ temp \in [Workers -> Temps \cup {None}]
    /\ spent \in [Workers -> 0..Timeout]

CleanerType ==
    /\ pass \in {"wait", "scan", "remove"}
    /\ todo \subseteq Names
    /\ target \in Names \cup {None}
    /\ ticker \in 0..CleanupInterval
    /\ crashes \in 0..MaxCrashes

TypeOK == CacheType /\ WorkersType /\ CleanerType /\ due \in BOOLEAN

(* The reference count of an image is the number of workers between their  *)
(* Acquire and the end of it (an error, or Release), whatever the order in *)
(* which flights fail, succeed and are shared: Acquire's decrement on an   *)
(* error and Release's are each done exactly once per increment.           *)
Holders(n) == {w \in Workers : key[w] = n}
RefsMatchHolders == \A n \in Names : refs[n] = Cardinality(Holders(n))

(* A worker that Acquire gave an image to finds the complete file, up to   *)
(* its Release: cleanup never takes it away.  provisionISO relies on it    *)
(* when it uses the result of os.Stat without looking at the error.        *)
HeldImageWhole == \A w \in Workers : pc[w] = "using" => disk[key[w]] = "whole"

(* No file in the cache under an image's name is ever partial, over failed *)
(* downloads, time-outs and restarts: the next Acquire trusts whatever     *)
(* os.Stat finds there.                                                    *)
ImagesWhole == \A k \in Keys : disk[k] # "partial"

(* cleanup, which sees temporary files as entries it knows nothing about,  *)
(* never removes the one a download is still writing: the client's timeout *)
(* ends a download before its file is old enough.                          *)
LiveTempKept ==
    \A w \in Workers : pc[w] \in {"fetch", "rename"} => disk[temp[w]] # "none"

(* The cache keeps the contract of ImageLease. *)
ImagesOnDisk == {k \in Keys : disk[k] # "none"}
Leases == [w \in Workers |-> IF pc[w] = "using" THEN key[w] ELSE None]
Lease == INSTANCE ImageLease WITH images <- ImagesOnDisk, lease <- Leases
LeaseSpec == Lease!Spec

(* Every Acquire returns: a caller that shares a flight is not forgotten,  *)
(* and a stuck server costs it no more than the client's timeout.          *)
AcquireReturns ==
    \A w \in Workers : pc[w] \notin {"idle", "using"} ~> pc[w] \in {"idle", "using"}

(* An image nobody uses any more is removed for good, also when the        *)
(* process was restarted and no longer knows when it was used.             *)
IdleImageEvicted ==
    \A k \in Keys : <>[](refs[k] = 0) => <>[](disk[k] = "none")

(* A temporary file that its download left behind (the process died, or    *)
(* the file could not be removed) is cleaned up.                           *)
OrphanTempEvicted ==
    \A t \in Temps : <>[](\A w \in Workers : temp[w] # t) => <>[](disk[t] = "none")
=============================================================================
