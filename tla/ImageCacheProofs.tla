-------------------------- MODULE ImageCacheProofs --------------------------
(***************************************************************************)
(* Theorems about the image cache, for any finite set of workers, any      *)
(* keys and temporary names, and any times with Timeout < MaxAge.          *)
(***************************************************************************)
EXTENDS ImageCacheHistory, FiniteSetTheorems, TLAPS

USE DEF Names

-----------------------------------------------------------------------------
(* Type correctness: one lemma per part of TypeOK. *)

(* A worker has a key exactly while it is inside Acquire .. Release. *)
KeyInv == \A w \in Workers : key[w] = None <=> pc[w] = "idle"

(* It has a temporary file exactly while it writes or renames it. *)
TempInv == \A w \in Workers : temp[w] # None <=> pc[w] \in {"fetch", "rename"}

LEMMA InitType == Init => TypeOK
<1> SUFFICES ASSUME Init PROVE TypeOK
  OBVIOUS
<1>1. CacheType
  BY TimesNatural DEF Init, CacheType
<1>2. WorkersType
  BY TimesNatural DEF Init, WorkersType
<1>3. CleanerType
  BY TimesNatural, TickerRuns DEF Init, CleanerType
<1>4. due \in BOOLEAN
  BY DEF Init
<1>5. QED
  BY <1>1, <1>2, <1>3, <1>4 DEF TypeOK

LEMMA NextCacheType ==
    ASSUME TypeOK, KeyInv, TempInv, [Next]_vars
    PROVE  CacheType'
<1>1. CacheType /\ WorkersType /\ CleanerType
  BY DEF TypeOK
<1>2. ASSUME NEW w \in Workers, NEW k \in Keys, AcquireRef(w, k)
      PROVE  CacheType'
  BY <1>1, <1>2 DEF CacheType, AcquireRef
<1>3. ASSUME NEW w \in Workers, Flight(w)
      PROVE  CacheType'
  <2>1. CASE JoinFlight(w) \/ LeadFlight(w) \/ StatHit(w) \/ StatMiss(w) \/ RequestFails(w)
    BY <1>1, <2>1 DEF CacheType, JoinFlight, LeadFlight, StatHit, StatMiss,
                      RequestFails, refVars
  <2>2. ASSUME NEW t \in Temps, CreateTemp(w, t)
        PROVE  CacheType'
    BY <1>1, <2>2, TimesNatural DEF CacheType, CreateTemp, Forget
  <2>3. CASE CopyDone(w)
    BY <1>1, <2>3 DEF CacheType, CopyDone, refVars
  <2>4. CASE CopyFails(w) \/ RenameFails(w)
    BY <1>1, <2>4 DEF CacheType, CopyFails, RenameFails, Abandon, refVars
  <2>5. CASE Rename(w)
    <3>1. temp[w] \in Names
      BY <1>1, <2>5 DEF WorkersType, TempInv, Rename
    <3>2. QED
      BY <1>1, <2>5, <3>1 DEF CacheType, Rename, refVars
  <2>6. QED
    BY <1>3, <2>1, <2>2, <2>3, <2>4, <2>5 DEF Flight
<1>4. ASSUME NEW w \in Workers, AcquireFails(w) \/ Release(w)
      PROVE  CacheType'
  <2>1. refs' \in [Names -> Nat]
    BY <1>1, <1>4 DEF CacheType, AcquireFails, Release, Leave, Dropped
  <2>2. lastUsed' \subseteq Names /\ age' \in [Names -> 0..MaxAge]
    <3>1. key[w] \in Names
      BY <1>1, <1>4, NamesDistinct DEF WorkersType, KeyInv, AcquireFails, Release
    <3>2. CASE UNCHANGED <<lastUsed, age>>
      BY <1>1, <3>2 DEF CacheType
    <3>3. CASE Touch(key[w])
      BY <1>1, <3>1, <3>3, TimesNatural DEF CacheType, Touch
    <3>4. QED
      BY <1>4, <3>2, <3>3 DEF AcquireFails, Release
  <2>3. disk' = disk
    BY <1>4 DEF AcquireFails, Release, Leave
  <2>4. QED
    BY <1>1, <2>1, <2>2, <2>3 DEF CacheType
<1>5. CASE Cleanup
  <2>1. CASE CleanupStart \/ CleanupGivesUp \/ CleanupEnds
    BY <1>1, <2>1 DEF CacheType, CleanupStart, CleanupGivesUp, CleanupEnds, refVars
  <2>2. ASSUME NEW n \in Names, CleanupKeeps(n) \/ CleanupNotes(n) \/ CleanupExpires(n)
        PROVE  CacheType'
    BY <1>1, <2>2, TimesNatural
       DEF CacheType, CleanupKeeps, CleanupNotes, CleanupExpires, Touch, refVars
  <2>3. CASE CleanupRemoves \/ CleanupRemoveFails
    BY <1>1, <2>3, TimesNatural
       DEF CacheType, CleanupRemoves, CleanupRemoveFails, Forget, refVars
  <2>4. QED
    BY <1>5, <2>1, <2>2, <2>3 DEF Cleanup, CleanupStep
<1>6. CASE Tick
  BY <1>1, <1>6, TimesNatural DEF CacheType, Tick
<1>7. CASE Crash
  BY <1>1, <1>7, TimesNatural DEF CacheType, Crash
<1>8. CASE UNCHANGED vars
  BY <1>1, <1>8 DEF CacheType, vars
<1>9. QED
  BY <1>2, <1>3, <1>4, <1>5, <1>6, <1>7, <1>8 DEF Next, Work

LEMMA NextWorkersType ==
    ASSUME TypeOK, [Next]_vars
    PROVE  WorkersType'
<1>1. WorkersType
  BY DEF TypeOK
<1>2. ASSUME NEW w \in Workers, NEW to \in {"using", "failed"}, Deliver(w, to)
      PROVE  pc' \in [Workers -> {"idle", "do", "wait", "failed", "using"} \cup Leading]
  BY <1>1, <1>2 DEF WorkersType, Deliver
<1>3. ASSUME NEW w \in Workers, NEW k \in Keys, AcquireRef(w, k)
      PROVE  WorkersType'
  BY <1>1, <1>3 DEF WorkersType, AcquireRef
<1>4. ASSUME NEW w \in Workers, Flight(w)
      PROVE  WorkersType'
  <2>1. CASE JoinFlight(w) \/ LeadFlight(w) \/ StatMiss(w)
    BY <1>1, <2>1 DEF WorkersType, JoinFlight, LeadFlight, StatMiss, Leading, flyVars
  <2>2. CASE StatHit(w)
    <3>1. Deliver(w, "using") /\ UNCHANGED flyVars
      BY <2>2 DEF StatHit
    <3>2. QED
      BY <1>1, <1>2, <3>1 DEF WorkersType, flyVars
  <2>3. CASE RequestFails(w)
    <3>1. Deliver(w, "failed") /\ UNCHANGED <<key, temp>> /\ spent' = [spent EXCEPT ![w] = 0]
      BY <2>3 DEF RequestFails
    <3>2. QED
      BY <1>1, <1>2, <3>1, TimesNatural DEF WorkersType
  <2>4. ASSUME NEW t \in Temps, CreateTemp(w, t)
        PROVE  WorkersType'
    BY <1>1, <2>4 DEF WorkersType, CreateTemp, Leading
  <2>5. CASE CopyDone(w)
    BY <1>1, <2>5, TimesNatural DEF WorkersType, CopyDone, Leading
  <2>6. CASE CopyFails(w) \/ RenameFails(w)
    <3>1. /\ Deliver(w, "failed")
          /\ key' = key /\ temp' = [temp EXCEPT ![w] = None]
          /\ spent' = [spent EXCEPT ![w] = 0]
      BY <2>6 DEF CopyFails, RenameFails, Abandon
    <3>2. QED
      BY <1>1, <1>2, <3>1, TimesNatural DEF WorkersType
  <2>7. CASE Rename(w)
    <3>1. /\ Deliver(w, "using")
          /\ UNCHANGED <<key, spent>> /\ temp' = [temp EXCEPT ![w] = None]
      BY <2>7 DEF Rename
    <3>2. QED
      BY <1>1, <1>2, <3>1 DEF WorkersType
  <2>8. QED
    BY <1>4, <2>1, <2>2, <2>3, <2>4, <2>5, <2>6, <2>7 DEF Flight
<1>5. ASSUME NEW w \in Workers, AcquireFails(w) \/ Release(w)
      PROVE  WorkersType'
  BY <1>1, <1>5 DEF WorkersType, AcquireFails, Release, Leave
<1>6. CASE Cleanup
  BY <1>1, <1>6 DEF WorkersType, Cleanup, CleanupStep, CleanupStart, CleanupGivesUp,
                    CleanupKeeps, CleanupNotes, CleanupExpires, CleanupRemoves,
                    CleanupRemoveFails, CleanupEnds, flyVars
<1>7. CASE Tick
  BY <1>1, <1>7, TimesNatural DEF WorkersType, Tick, InTime
<1>8. CASE Crash
  BY <1>1, <1>8, TimesNatural DEF WorkersType, Crash
<1>9. CASE UNCHANGED vars
  BY <1>1, <1>9 DEF WorkersType, vars
<1>10. QED
  BY <1>3, <1>4, <1>5, <1>6, <1>7, <1>8, <1>9 DEF Next, Work

(* Only the cleanup goroutine, the clock and a restart move these. *)
CleanerFrame == UNCHANGED <<pass, todo, target, ticker, due, crashes>>

LEMMA WorkersLeaveTheCleaner ==
    ASSUME NEW w \in Workers
    PROVE  /\ \A k \in Keys : AcquireRef(w, k) => CleanerFrame
           /\ Flight(w) => CleanerFrame
           /\ AcquireFails(w) \/ Release(w) => CleanerFrame
<1>1. \A k \in Keys : AcquireRef(w, k) => CleanerFrame
  BY DEF AcquireRef, CleanerFrame, passVars, clockVars
<1>2. Flight(w) => CleanerFrame
  BY DEF Flight, JoinFlight, LeadFlight, StatHit, StatMiss, RequestFails, CreateTemp,
         CopyDone, CopyFails, Rename, RenameFails, Abandon, CleanerFrame,
         passVars, clockVars
<1>3. AcquireFails(w) \/ Release(w) => CleanerFrame
  BY DEF AcquireFails, Release, Leave, CleanerFrame, passVars, clockVars
<1>4. QED
  BY <1>1, <1>2, <1>3

LEMMA NextCleanerType ==
    ASSUME TypeOK, [Next]_vars
    PROVE  CleanerType' /\ due' \in BOOLEAN
<1>1. CleanerType /\ due \in BOOLEAN
  BY DEF TypeOK
<1>2. CASE CleanerFrame
  BY <1>1, <1>2 DEF CleanerType, CleanerFrame
<1>3. CASE Cleanup
  <2>1. CleanerType'
    BY <1>1, <1>3 DEF CleanerType, Cleanup, CleanupStep, CleanupStart, CleanupGivesUp,
                      CleanupKeeps, CleanupNotes, CleanupExpires, CleanupRemoves,
                      CleanupRemoveFails, CleanupEnds, Entries, passVars, clockVars
  <2>2. due' = FALSE \/ due' = due
    BY <1>3 DEF Cleanup, CleanupStep, CleanupStart, CleanupGivesUp, CleanupKeeps,
                CleanupNotes, CleanupExpires, CleanupRemoves, CleanupRemoveFails,
                CleanupEnds, clockVars
  <2>3. QED
    BY <1>1, <2>1, <2>2
<1>4. CASE Tick
  <2>1. CleanerType'
    BY <1>1, <1>4, TimesNatural, TickerRuns DEF CleanerType, Tick, passVars
  <2>2. due' \in BOOLEAN
    BY <1>4 DEF Tick
  <2>3. QED
    BY <2>1, <2>2
<1>5. CASE Crash
  <2>1. CleanerType'
    BY <1>1, <1>5, TimesNatural, TickerRuns DEF CleanerType, Crash
  <2>2. due' \in BOOLEAN
    BY <1>5 DEF Crash
  <2>3. QED
    BY <2>1, <2>2
<1>6. CASE UNCHANGED vars
  BY <1>2, <1>6 DEF vars, CleanerFrame
<1>7. QED
  BY <1>2, <1>3, <1>4, <1>5, <1>6, WorkersLeaveTheCleaner DEF Next, Work

LEMMA NextKeyInv ==
    ASSUME TypeOK, KeyInv, [Next]_vars
    PROVE  KeyInv'
<1>1. WorkersType
  BY DEF TypeOK
<1>2. ASSUME NEW w \in Workers, NEW k \in Keys, AcquireRef(w, k)
      PROVE  KeyInv'
  BY <1>1, <1>2, NamesDistinct DEF WorkersType, KeyInv, AcquireRef
<1>3. ASSUME NEW w \in Workers, Flight(w)
      PROVE  KeyInv'
  <2>1. key' = key /\ pc[w] # "idle"
    BY <1>3 DEF Flight, JoinFlight, LeadFlight, StatHit, StatMiss, RequestFails,
                CreateTemp, CopyDone, CopyFails, Rename, RenameFails, Abandon, flyVars
  <2>2. \A v \in Workers : pc'[v] = "idle" <=> pc[v] = "idle"
    <3>1. CASE \E to \in {"using", "failed"} : Deliver(w, to)
      BY <1>1, <2>1, <3>1 DEF WorkersType, Deliver, Callers
    <3>2. CASE \E to \in {"wait"} \cup Leading : pc' = [pc EXCEPT ![w] = to]
      BY <1>1, <2>1, <3>2 DEF WorkersType, Leading
    <3>3. QED
      BY <1>3, <3>1, <3>2 DEF Flight, JoinFlight, LeadFlight, StatHit, StatMiss,
                RequestFails, CreateTemp, CopyDone, CopyFails, Rename, RenameFails,
                Abandon, Leading
  <2>3. QED
    BY <2>1, <2>2 DEF KeyInv
<1>4. ASSUME NEW w \in Workers, AcquireFails(w) \/ Release(w)
      PROVE  KeyInv'
  BY <1>1, <1>4 DEF WorkersType, KeyInv, AcquireFails, Release, Leave
<1>5. CASE UNCHANGED <<pc, key>>
  BY <1>5 DEF KeyInv
<1>6. CASE Crash
  BY <1>6 DEF Crash, KeyInv
<1>7. Cleanup \/ Tick \/ UNCHANGED vars => UNCHANGED <<pc, key>>
  BY DEF Cleanup, CleanupStep, CleanupStart, CleanupGivesUp, CleanupKeeps,
         CleanupNotes, CleanupExpires, CleanupRemoves, CleanupRemoveFails,
         CleanupEnds, Tick, flyVars, vars
<1>8. QED
  BY <1>2, <1>3, <1>4, <1>5, <1>6, <1>7 DEF Next, Work

LEMMA NextTempInv ==
    ASSUME TypeOK, TempInv, [Next]_vars
    PROVE  TempInv'
<1>1. WorkersType
  BY DEF TypeOK
<1>2. ASSUME NEW w \in Workers, NEW k \in Keys, AcquireRef(w, k)
      PROVE  TempInv'
  BY <1>1, <1>2 DEF WorkersType, TempInv, AcquireRef
<1>3. ASSUME NEW w \in Workers, Flight(w)
      PROVE  TempInv'
  <2>1. CASE JoinFlight(w) \/ LeadFlight(w) \/ StatMiss(w)
    BY <1>1, <2>1 DEF WorkersType, TempInv, JoinFlight, LeadFlight, StatMiss, flyVars
  <2>2. CASE StatHit(w) \/ RequestFails(w)
    BY <1>1, <2>2 DEF WorkersType, TempInv, StatHit, RequestFails, Deliver, Callers, flyVars
  <2>3. ASSUME NEW t \in Temps, CreateTemp(w, t)
        PROVE  TempInv'
    BY <1>1, <2>3, NamesDistinct DEF WorkersType, TempInv, CreateTemp
  <2>4. CASE CopyDone(w)
    BY <1>1, <2>4 DEF WorkersType, TempInv, CopyDone
  <2>5. CASE CopyFails(w) \/ RenameFails(w)
    BY <1>1, <2>5 DEF WorkersType, TempInv, CopyFails, RenameFails, Abandon, Deliver, Callers
  <2>6. CASE Rename(w)
    BY <1>1, <2>6 DEF WorkersType, TempInv, Rename, Deliver, Callers
  <2>7. QED
    BY <1>3, <2>1, <2>2, <2>3, <2>4, <2>5, <2>6 DEF Flight
<1>4. ASSUME NEW w \in Workers, AcquireFails(w) \/ Release(w)
      PROVE  TempInv'
  BY <1>1, <1>4 DEF WorkersType, TempInv, AcquireFails, Release, Leave
<1>5. CASE UNCHANGED <<pc, temp>>
  BY <1>5 DEF TempInv
<1>6. CASE Crash
  BY <1>6 DEF Crash, TempInv
<1>7. Cleanup \/ Tick \/ UNCHANGED vars => UNCHANGED <<pc, temp>>
  BY DEF Cleanup, CleanupStep, CleanupStart, CleanupGivesUp, CleanupKeeps,
         CleanupNotes, CleanupExpires, CleanupRemoves, CleanupRemoveFails,
         CleanupEnds, Tick, flyVars, vars
<1>8. QED
  BY <1>2, <1>3, <1>4, <1>5, <1>6, <1>7 DEF Next, Work

TypeInv == TypeOK /\ KeyInv /\ TempInv

LEMMA TypeInvariant == Spec => []TypeInv
<1>1. Init => TypeInv
  BY InitType DEF Init, TypeInv, KeyInv, TempInv
<1>2. TypeInv /\ [Next]_vars => TypeInv'
  BY NextCacheType, NextWorkersType, NextCleanerType, NextKeyInv, NextTempInv
     DEF TypeInv, TypeOK
<1>3. QED
  BY <1>1, <1>2, PTL DEF Spec

(* Every variable of the cache keeps its type: no reference count becomes  *)
(* negative, no download outlives the client's timeout.                    *)
THEOREM TypeCorrect == Spec => []TypeOK
<1>1. TypeInv => TypeOK
  BY DEF TypeInv
<1>2. QED
  BY TypeInvariant, <1>1, PTL

-----------------------------------------------------------------------------
(* The reference counts. *)

LEMMA HoldersFinite ==
    ASSUME NEW n
    PROVE  IsFiniteSet(Holders(n)) /\ Cardinality(Holders(n)) \in Nat
  BY WorkersFinite, FS_Subset, FS_CardinalityType DEF Holders

(* A key given to an idle worker has one holder more, and no other has. *)
LEMMA HolderJoins ==
    ASSUME WorkersType, NEW w \in Workers, NEW k \in Keys, key[w] = None,
           key' = [key EXCEPT ![w] = k], NEW n \in Names
    PROVE  Cardinality(Holders(n))' = Cardinality(Holders(n)) + (IF n = k THEN 1 ELSE 0)
<1>1. CASE n = k
  <2>1. Holders(n)' = Holders(n) \cup {w} /\ w \notin Holders(n)
    BY <1>1, NamesDistinct DEF Holders, WorkersType
  <2>2. QED
    BY <1>1, <2>1, HoldersFinite, FS_AddElement
<1>2. CASE n # k
  <2>1. Holders(n)' = Holders(n)
    BY <1>2, NamesDistinct DEF Holders, WorkersType
  <2>2. QED
    BY <1>2, <2>1, HoldersFinite
<1>3. QED
  BY <1>1, <1>2

(* A worker that gives its key up takes one holder away from it. *)
LEMMA HolderLeaves ==
    ASSUME WorkersType, NEW w \in Workers, key[w] # None,
           key' = [key EXCEPT ![w] = None], NEW n \in Names
    PROVE  /\ Cardinality(Holders(n))' =
                Cardinality(Holders(n)) - (IF n = key[w] THEN 1 ELSE 0)
           /\ n = key[w] => Cardinality(Holders(n)) >= 1
<1>1. CASE n = key[w]
  <2>1. Holders(n)' = Holders(n) \ {w} /\ w \in Holders(n)
    BY <1>1, NamesDistinct DEF Holders, WorkersType
  <2>2. Cardinality(Holders(n) \ {w}) = Cardinality(Holders(n)) - 1
    BY <2>1, HoldersFinite, FS_RemoveElement
  <2>3. Cardinality(Holders(n) \ {w}) \in Nat
    BY <2>1, HoldersFinite, FS_RemoveElement, FS_CardinalityType
  <2>4. QED
    BY <1>1, <2>1, <2>2, <2>3, HoldersFinite
<1>2. CASE n # key[w]
  <2>1. Holders(n)' = Holders(n)
    BY <1>2, NamesDistinct DEF Holders, WorkersType
  <2>2. QED
    BY <1>2, <2>1, HoldersFinite
<1>3. QED
  BY <1>1, <1>2

LEMMA InitRefs == Init => RefsMatchHolders
<1> SUFFICES ASSUME Init, NEW n \in Names
             PROVE  refs[n] = Cardinality(Holders(n))
  BY DEF RefsMatchHolders
<1>1. Holders(n) = {}
  BY NamesDistinct DEF Init, Holders
<1>2. QED
  BY <1>1, FS_EmptySet DEF Init

LEMMA NextRefs ==
    ASSUME TypeInv, RefsMatchHolders, [Next]_vars
    PROVE  RefsMatchHolders'
<1>1. WorkersType /\ CacheType /\ KeyInv
  BY DEF TypeInv, TypeOK
<1> SUFFICES ASSUME NEW n \in Names
             PROVE  refs'[n] = Cardinality(Holders(n))'
  BY DEF RefsMatchHolders
<1>2. refs[n] = Cardinality(Holders(n)) /\ refs[n] \in Nat
  BY <1>1 DEF RefsMatchHolders, CacheType
<1>3. ASSUME NEW w \in Workers, NEW k \in Keys, AcquireRef(w, k)
      PROVE  refs'[n] = Cardinality(Holders(n))'
  <2>1. key[w] = None /\ key' = [key EXCEPT ![w] = k]
    BY <1>1, <1>3 DEF KeyInv, AcquireRef
  <2>2. refs'[n] = refs[n] + (IF n = k THEN 1 ELSE 0)
    BY <1>1, <1>2, <1>3 DEF CacheType, AcquireRef
  <2>3. QED
    BY <1>1, <1>2, <2>1, <2>2, HolderJoins
<1>4. ASSUME NEW w \in Workers, AcquireFails(w) \/ Release(w)
      PROVE  refs'[n] = Cardinality(Holders(n))'
  <2>1. key[w] # None /\ key' = [key EXCEPT ![w] = None]
    BY <1>1, <1>4 DEF KeyInv, AcquireFails, Release, Leave
  <2>2. refs'[n] = IF n = key[w] THEN Dropped(n) ELSE refs[n]
    BY <1>1, <1>4 DEF CacheType, AcquireFails, Release, Leave
  <2>3. n = key[w] => refs[n] >= 1
    BY <1>1, <1>2, <2>1, HolderLeaves
  <2>4. refs'[n] = refs[n] - (IF n = key[w] THEN 1 ELSE 0)
    BY <1>2, <2>2, <2>3 DEF Dropped
  <2>5. QED
    BY <1>1, <1>2, <2>1, <2>4, HolderLeaves
<1>5. CASE UNCHANGED <<refs, key>>
  <2>1. Holders(n)' = Holders(n)
    BY <1>5 DEF Holders
  <2>2. QED
    BY <1>2, <1>5, <2>1
<1>6. CASE Crash
  <2>1. Holders(n)' = {}
    BY <1>6, NamesDistinct DEF Crash, Holders
  <2>2. QED
    BY <1>6, <2>1, FS_EmptySet DEF Crash
<1>7. /\ \A w \in Workers : Flight(w) => UNCHANGED <<refs, key>>
      /\ Cleanup \/ Tick \/ UNCHANGED vars => UNCHANGED <<refs, key>>
  BY DEF Flight, JoinFlight, LeadFlight, StatHit, StatMiss, RequestFails, CreateTemp,
         CopyDone, CopyFails, Rename, RenameFails, Abandon, Cleanup, CleanupStep,
         CleanupStart, CleanupGivesUp, CleanupKeeps, CleanupNotes, CleanupExpires,
         CleanupRemoves, CleanupRemoveFails, CleanupEnds, Tick, refVars, flyVars, vars
<1>8. QED
  BY <1>3, <1>4, <1>5, <1>6, <1>7 DEF Next, Work

(* The reference count of every image is the number of workers between     *)
(* their Acquire and its end, for any number of workers: Acquire's         *)
(* decrement after an error and Release's pair off with the increments.    *)
THEOREM RefsCorrect == Spec => []RefsMatchHolders
<1>1. TypeInv /\ RefsMatchHolders /\ [Next]_vars => RefsMatchHolders'
  BY NextRefs
<1>2. QED
  BY InitRefs, TypeInvariant, <1>1, PTL DEF Spec

-----------------------------------------------------------------------------
(* The files.  Two more facts make the contents of the cache inductive: a  *)
(* temporary file belongs to one worker, and the file cleanup is about to  *)
(* remove has no references, which only a worker could give it again, and  *)
(* none can while cleanup holds the mutex.                                 *)

TempsApart ==
    \A v, w \in Workers : temp[v] = temp[w] /\ temp[v] # None => v = w

RenameInv == \A w \in Workers : pc[w] = "rename" => disk[temp[w]] # "partial"

RemoveInv == pass = "remove" => target \in Names /\ refs[target] = 0

FileInv == TempsApart /\ RenameInv /\ RemoveInv /\ ImagesWhole /\ HeldImageWhole

LEMMA NextTempsApart ==
    ASSUME TypeInv, TempsApart, [Next]_vars
    PROVE  TempsApart'
<1>1. WorkersType
  BY DEF TypeInv, TypeOK
<1>2. ASSUME NEW w \in Workers, NEW t \in Temps, CreateTemp(w, t)
      PROVE  TempsApart'
  BY <1>1, <1>2 DEF WorkersType, TempsApart, CreateTemp
<1>3. ASSUME NEW w \in Workers, temp' = [temp EXCEPT ![w] = None]
      PROVE  TempsApart'
  BY <1>1, <1>3 DEF WorkersType, TempsApart
<1>4. CASE UNCHANGED temp
  BY <1>4 DEF TempsApart
<1>5. CASE Crash
  BY <1>5 DEF Crash, TempsApart
<1>6. \A w \in Workers : Flight(w) =>
          \/ \E t \in Temps : CreateTemp(w, t)
          \/ temp' = [temp EXCEPT ![w] = None]
          \/ UNCHANGED temp
  BY DEF Flight, JoinFlight, LeadFlight, StatHit, StatMiss, RequestFails,
         CopyDone, CopyFails, Rename, RenameFails, Abandon, flyVars
<1>7. /\ \A w \in Workers, k \in Keys : AcquireRef(w, k) => UNCHANGED temp
      /\ \A w \in Workers : AcquireFails(w) \/ Release(w) => UNCHANGED temp
      /\ Cleanup \/ Tick \/ UNCHANGED vars => UNCHANGED temp
  BY DEF AcquireRef, AcquireFails, Release, Leave, Cleanup, CleanupStep,
         CleanupStart, CleanupGivesUp, CleanupKeeps, CleanupNotes, CleanupExpires,
         CleanupRemoves, CleanupRemoveFails, CleanupEnds, Tick, flyVars, vars
<1>8. QED
  BY <1>2, <1>3, <1>4, <1>5, <1>6, <1>7 DEF Next, Work

LEMMA NextRemoveInv ==
    ASSUME TypeInv, RemoveInv, [Next]_vars
    PROVE  RemoveInv'
<1>1. CacheType /\ WorkersType
  BY DEF TypeInv, TypeOK
<1>2. CASE pass' # "remove"
  BY <1>2 DEF RemoveInv
<1>3. CASE UNCHANGED <<refs, pass, target>>
  BY <1>3 DEF RemoveInv
<1>4. ASSUME NEW n \in Names, CleanupExpires(n)
      PROVE  RemoveInv'
  BY <1>1, <1>4 DEF CacheType, RemoveInv, CleanupExpires, InUse, refVars
<1>5. /\ \A w \in Workers, k \in Keys : AcquireRef(w, k) => pass' # "remove"
      /\ \A w \in Workers : AcquireFails(w) \/ Release(w) => pass' # "remove"
      /\ Tick \/ Crash => pass' # "remove"
  BY DEF AcquireRef, AcquireFails, Release, Leave, Tick, Crash, MuFree, passVars
<1>6. /\ \A w \in Workers : Flight(w) => UNCHANGED <<refs, pass, target>>
      /\ UNCHANGED vars => UNCHANGED <<refs, pass, target>>
  BY DEF Flight, JoinFlight, LeadFlight, StatHit, StatMiss, RequestFails, CreateTemp,
         CopyDone, CopyFails, Rename, RenameFails, Abandon, refVars, passVars, vars
<1>7. Cleanup => \/ pass' # "remove"
                 \/ UNCHANGED <<refs, pass, target>>
                 \/ \E n \in Names : CleanupExpires(n)
  BY DEF Cleanup, CleanupStep, CleanupStart, CleanupGivesUp, CleanupKeeps, CleanupNotes,
         CleanupRemoves, CleanupRemoveFails, CleanupEnds, refVars, passVars
<1>8. QED
  BY <1>2, <1>3, <1>4, <1>5, <1>6, <1>7 DEF Next, Work

(* What a step of a download does to the files. *)
LEMMA FlightFiles ==
    ASSUME TypeInv, FileInv, NEW w \in Workers, Flight(w)
    PROVE  RenameInv' /\ ImagesWhole' /\ HeldImageWhole'
<1>1. CacheType /\ WorkersType /\ KeyInv /\ TempInv
  BY DEF TypeInv, TypeOK
<1>2. \A v \in Workers : pc[v] # "idle" => key[v] \in Keys
  BY <1>1, NamesDistinct DEF WorkersType, KeyInv
<1>3. \A v \in Workers : pc[v] \in {"fetch", "rename"} => temp[v] \in Temps
  BY <1>1, NamesDistinct DEF WorkersType, TempInv
<1>4. CASE JoinFlight(w) \/ LeadFlight(w) \/ StatMiss(w)
  BY <1>1, <1>4 DEF WorkersType, FileInv, RenameInv, ImagesWhole, HeldImageWhole,
                    JoinFlight, LeadFlight, StatMiss, flyVars
<1>5. CASE StatHit(w)
  <2>1. disk[key[w]] = "whole"
    BY <1>1, <1>2, <1>5 DEF CacheType, FileInv, ImagesWhole, StatHit
  <2>2. QED
    BY <1>1, <1>5, <2>1 DEF WorkersType, FileInv, RenameInv, ImagesWhole,
                            HeldImageWhole, StatHit, Deliver, Callers, flyVars
<1>6. CASE RequestFails(w)
  BY <1>1, <1>6 DEF WorkersType, FileInv, RenameInv, ImagesWhole, HeldImageWhole,
                    RequestFails, Deliver, Callers
<1>7. ASSUME NEW t \in Temps, CreateTemp(w, t)
      PROVE  RenameInv' /\ ImagesWhole' /\ HeldImageWhole'
  BY <1>1, <1>2, <1>3, <1>7, NamesDistinct
     DEF CacheType, WorkersType, FileInv, RenameInv, ImagesWhole, HeldImageWhole,
         CreateTemp
<1>8. CASE CopyDone(w)
  BY <1>1, <1>2, <1>3, <1>8, NamesDistinct
     DEF CacheType, WorkersType, FileInv, TempsApart, RenameInv, ImagesWhole,
         HeldImageWhole, CopyDone
<1>9. CASE CopyFails(w) \/ RenameFails(w)
  <2>1. Abandon(w) /\ temp[w] \in Temps
    BY <1>3, <1>9 DEF CopyFails, RenameFails
  <2>2. \A n \in Names : n # temp[w] => disk'[n] = disk[n]
    BY <1>1, <2>1 DEF CacheType, Abandon
  <2>3. \A v \in Workers : pc'[v] # "failed" => v # w /\ pc'[v] = pc[v] /\ temp'[v] = temp[v]
    BY <1>1, <2>1 DEF WorkersType, Abandon, Deliver, Callers
  <2>4. key' = key
    BY <2>1 DEF Abandon
  <2>5. RenameInv'
    BY <1>3, <2>1, <2>2, <2>3, NamesDistinct DEF FileInv, TempsApart, RenameInv
  <2>6. QED
    BY <1>2, <2>1, <2>2, <2>3, <2>4, <2>5, NamesDistinct
       DEF FileInv, ImagesWhole, HeldImageWhole
<1>10. CASE Rename(w)
  <2>1. temp[w] \in Temps /\ key[w] \in Keys /\ disk[temp[w]] = "whole"
    BY <1>1, <1>2, <1>3, <1>10 DEF CacheType, FileInv, RenameInv, Rename
  <2>2. disk'[key[w]] = "whole"
    BY <1>1, <1>10, <2>1, NamesDistinct DEF CacheType, Rename
  <2>3. \A n \in Names : n \notin {key[w], temp[w]} => disk'[n] = disk[n]
    BY <1>1, <1>10, <2>1 DEF CacheType, Rename
  <2>4. \A v \in Workers :
            \/ pc'[v] = "using" /\ key[v] = key[w]
            \/ v # w /\ pc'[v] = pc[v] /\ temp'[v] = temp[v]
    BY <1>1, <1>10 DEF WorkersType, Rename, Deliver, Callers
  <2>5. key' = key
    BY <1>10 DEF Rename
  <2>6. RenameInv'
    BY <1>3, <2>1, <2>3, <2>4, NamesDistinct DEF FileInv, TempsApart, RenameInv
  <2>7. QED
    BY <1>2, <2>1, <2>2, <2>3, <2>4, <2>5, <2>6, NamesDistinct
       DEF FileInv, ImagesWhole, HeldImageWhole
<1>11. QED
  BY <1>4, <1>5, <1>6, <1>7, <1>8, <1>9, <1>10 DEF Flight

LEMMA CleanupFiles ==
    ASSUME TypeInv, RefsMatchHolders, FileInv, CleanupRemoves
    PROVE  RenameInv' /\ ImagesWhole' /\ HeldImageWhole'
<1>1. CacheType /\ WorkersType /\ KeyInv
  BY DEF TypeInv, TypeOK
<1>2. target \in Names /\ refs[target] = 0
  BY DEF FileInv, RemoveInv, CleanupRemoves
<1>3. \A w \in Workers : key[w] # target
  <2>1. Cardinality(Holders(target)) = 0
    BY <1>2 DEF RefsMatchHolders
  <2>2. Holders(target) = {}
    BY <2>1, HoldersFinite, FS_EmptySet
  <2>3. QED
    BY <2>2 DEF Holders
<1>4. disk' = [disk EXCEPT ![target] = "none"] /\ UNCHANGED <<pc, key, temp>>
  BY DEF CleanupRemoves, flyVars
<1>5. QED
  BY <1>1, <1>2, <1>3, <1>4 DEF CacheType, FileInv, RenameInv, ImagesWhole, HeldImageWhole

LEMMA NextFileInv ==
    ASSUME TypeInv, RefsMatchHolders, FileInv, [Next]_vars
    PROVE  FileInv'
<1>1. TempsApart' /\ RemoveInv'
  BY NextTempsApart, NextRemoveInv DEF FileInv
<1> SUFFICES RenameInv' /\ ImagesWhole' /\ HeldImageWhole'
  BY <1>1 DEF FileInv
<1>2. WorkersType
  BY DEF TypeInv, TypeOK
<1>3. ASSUME NEW w \in Workers, NEW k \in Keys, AcquireRef(w, k)
      PROVE  RenameInv' /\ ImagesWhole' /\ HeldImageWhole'
  BY <1>2, <1>3 DEF WorkersType, FileInv, RenameInv, ImagesWhole, HeldImageWhole, AcquireRef
<1>4. ASSUME NEW w \in Workers, AcquireFails(w) \/ Release(w)
      PROVE  RenameInv' /\ ImagesWhole' /\ HeldImageWhole'
  BY <1>2, <1>4 DEF WorkersType, FileInv, RenameInv, ImagesWhole, HeldImageWhole,
                    AcquireFails, Release, Leave
<1>5. CASE UNCHANGED <<disk, pc, key, temp>>
  BY <1>5 DEF FileInv, RenameInv, ImagesWhole, HeldImageWhole
<1>6. CASE Crash
  BY <1>6 DEF Crash, FileInv, RenameInv, ImagesWhole, HeldImageWhole
<1>7. Cleanup => CleanupRemoves \/ UNCHANGED <<disk, pc, key, temp>>
  BY DEF Cleanup, CleanupStep, CleanupStart, CleanupGivesUp, CleanupKeeps,
         CleanupNotes, CleanupExpires, CleanupRemoveFails, CleanupEnds, flyVars
<1>8. Tick \/ UNCHANGED vars => UNCHANGED <<disk, pc, key, temp>>
  BY DEF Tick, vars
<1>9. QED
  BY <1>3, <1>4, <1>5, <1>6, <1>7, <1>8, FlightFiles, CleanupFiles DEF Next, Work

LEMMA FileInvariant == Spec => [](TypeInv /\ RefsMatchHolders /\ FileInv)
<1>1. Init => FileInv
  BY DEF Init, FileInv, TempsApart, RenameInv, RemoveInv, ImagesWhole, HeldImageWhole
<1>2. TypeInv /\ RefsMatchHolders /\ FileInv /\ [Next]_vars => FileInv'
  BY NextFileInv
<1>3. QED
  BY <1>1, <1>2, TypeInvariant, RefsCorrect, PTL DEF Spec

(* A worker that holds an image finds its complete file, for any number of *)
(* workers and images and whatever cleanup does at the same time.          *)
THEOREM HeldImagesStay == Spec => []HeldImageWhole
<1>1. FileInv => HeldImageWhole
  BY DEF FileInv
<1>2. QED
  BY FileInvariant, <1>1, PTL

(* A file under an image's name is complete, so a hit in the cache is one. *)
THEOREM CachedImagesWhole == Spec => []ImagesWhole
<1>1. FileInv => ImagesWhole
  BY DEF FileInv
<1>2. QED
  BY FileInvariant, <1>1, PTL
-----------------------------------------------------------------------------
(* The temporary files of running downloads.  A file cleanup noted while   *)
(* its download was running is no older than the request, and a request    *)
(* takes no longer than Timeout, which is less than MaxAge.                *)

Live(w) == pc[w] \in {"fetch", "rename"}

Young(w) == age[temp[w]] <= IF pc[w] = "fetch" THEN spent[w] ELSE Timeout

LiveTempInv ==
    \A w \in Workers : Live(w) => disk[temp[w]] # "none" /\ target # temp[w] /\ Young(w)

(* A step that gives no worker a temporary file, leaves the files of the   *)
(* live ones in place and makes none of them older keeps the invariant.    *)
LEMMA LiveTempFrame ==
    ASSUME TypeInv, LiveTempInv,
           \A v \in Workers : Live(v)' =>
               /\ pc'[v] = pc[v] /\ temp'[v] = temp[v] /\ spent'[v] = spent[v]
               /\ disk'[temp[v]] = disk[temp[v]] /\ age'[temp[v]] \in {0, age[temp[v]]}
               /\ target' # temp[v]
    PROVE  LiveTempInv'
<1> SUFFICES ASSUME NEW v \in Workers, Live(v)'
             PROVE  disk'[temp'[v]] # "none" /\ target' # temp'[v] /\ Young(v)'
  BY DEF LiveTempInv
<1>1. CacheType /\ WorkersType /\ TempInv
  BY DEF TypeInv, TypeOK
<1>2. pc'[v] = pc[v] /\ temp'[v] = temp[v] /\ Live(v)
  BY DEF Live
<1>3. disk[temp[v]] # "none" /\ Young(v)
  BY <1>2 DEF LiveTempInv
<1>4. age'[temp[v]] <= IF pc[v] = "fetch" THEN spent[v] ELSE Timeout
  BY <1>1, <1>3, TimesNatural DEF Young, WorkersType
<1>5. QED
  BY <1>2, <1>3, <1>4 DEF Young

LEMMA FlightLiveTemps ==
    ASSUME TypeInv, TempsApart, LiveTempInv, NEW w \in Workers, Flight(w)
    PROVE  LiveTempInv'
<1>1. CacheType /\ WorkersType /\ CleanerType /\ KeyInv /\ TempInv
  BY DEF TypeInv, TypeOK
<1>2. \A v \in Workers : Live(v) => temp[v] \in Temps
  BY <1>1, NamesDistinct DEF WorkersType, TempInv, Live
<1>3. CASE JoinFlight(w) \/ LeadFlight(w) \/ StatMiss(w) \/ StatHit(w) \/ RequestFails(w)
  <2>1. \A v \in Workers : Live(v)' => pc'[v] = pc[v] /\ spent'[v] = spent[v]
    BY <1>1, <1>3 DEF WorkersType, Live, JoinFlight, LeadFlight, StatMiss, StatHit,
                      RequestFails, Deliver, Callers, flyVars
  <2>2. UNCHANGED <<disk, age, temp, target>>
    BY <1>3 DEF JoinFlight, LeadFlight, StatMiss, StatHit, RequestFails, refVars, flyVars,
                passVars
  <2>3. QED
    BY <2>1, <2>2, LiveTempFrame DEF Live, LiveTempInv
<1>4. ASSUME NEW t \in Temps, CreateTemp(w, t)
      PROVE  LiveTempInv'
  <2> SUFFICES ASSUME NEW v \in Workers, Live(v)'
               PROVE  disk'[temp'[v]] # "none" /\ target' # temp'[v] /\ Young(v)'
    BY DEF LiveTempInv
  <2>1. target' = target /\ spent' = spent /\ t # target
    BY <1>4 DEF CreateTemp, passVars
  <2>2. CASE v = w
    <3>1. temp'[v] = t /\ disk'[t] = "partial" /\ age'[t] = 0 /\ pc'[v] = "fetch"
      BY <1>1, <1>4, <2>2 DEF CacheType, WorkersType, CreateTemp, Forget
    <3>2. QED
      BY <1>1, <2>1, <2>2, <3>1, TimesNatural DEF WorkersType, Young
  <2>3. CASE v # w
    <3>1. pc'[v] = pc[v] /\ temp'[v] = temp[v] /\ temp[v] # t
      BY <1>1, <1>4, <2>3 DEF WorkersType, CreateTemp
    <3>2. disk'[temp[v]] = disk[temp[v]] /\ age'[temp[v]] = age[temp[v]]
      BY <1>1, <1>4, <3>1 DEF CacheType, CreateTemp, Forget
    <3>3. QED
      BY <2>1, <3>1, <3>2 DEF LiveTempInv, Live, Young
  <2>4. QED
    BY <2>2, <2>3
<1>5. CASE CopyDone(w)
  <2> SUFFICES ASSUME NEW v \in Workers, Live(v)'
               PROVE  disk'[temp'[v]] # "none" /\ target' # temp'[v] /\ Young(v)'
    BY DEF LiveTempInv
  <2>1. UNCHANGED <<temp, age, target>>
    BY <1>5 DEF CopyDone, refVars, passVars
  <2>2. CASE v = w
    <3>1. Live(w) /\ disk[temp[w]] # "none" /\ age[temp[w]] <= spent[w]
      BY <1>5 DEF CopyDone, LiveTempInv, Live, Young
    <3>2. pc'[w] = "rename" /\ disk'[temp[w]] = "whole"
      BY <1>1, <1>2, <1>5, <3>1 DEF CacheType, WorkersType, CopyDone
    <3>3. age[temp[w]] <= Timeout
      BY <1>1, <1>2, <3>1, TimesNatural DEF CacheType, WorkersType
    <3>4. QED
      BY <2>1, <2>2, <3>1, <3>2, <3>3 DEF LiveTempInv, Young
  <2>3. CASE v # w
    <3>1. pc'[v] = pc[v] /\ spent'[v] = spent[v] /\ Live(v)
      BY <1>1, <1>5, <2>3 DEF WorkersType, CopyDone, Live
    <3>2. temp[v] # temp[w]
      BY <1>2, <2>3, <3>1, NamesDistinct DEF TempsApart
    <3>3. disk'[temp[v]] = disk[temp[v]]
      BY <1>1, <1>5, <3>2 DEF CacheType, CopyDone
    <3>4. QED
      BY <2>1, <3>1, <3>3 DEF LiveTempInv, Young
  <2>4. QED
    BY <2>2, <2>3
<1>6. CASE CopyFails(w) \/ RenameFails(w) \/ Rename(w)
  <2>1. temp[w] \in Temps
    BY <1>2, <1>6 DEF CopyFails, RenameFails, Rename, Live
  <2>2. key[w] \in Keys
    BY <1>1, <1>6, NamesDistinct DEF WorkersType, KeyInv, CopyFails, RenameFails, Rename
  <2>3. UNCHANGED <<age, target>>
    BY <1>6 DEF CopyFails, RenameFails, Rename, Abandon, refVars, passVars
  <2>4. \A n \in Names : n \notin {key[w], temp[w]} => disk'[n] = disk[n]
    BY <1>1, <1>6 DEF CacheType, CopyFails, RenameFails, Rename, Abandon
  <2>5. \A v \in Workers : Live(v)' =>
            v # w /\ pc'[v] = pc[v] /\ temp'[v] = temp[v] /\ spent'[v] = spent[v]
    BY <1>1, <1>6 DEF WorkersType, Live, CopyFails, RenameFails, Rename, Abandon, Deliver,
                      Callers
  <2>6. \A v \in Workers : Live(v)' => Live(v) /\ temp[v] \in Temps /\ temp[v] # temp[w]
    BY <1>2, <2>1, <2>5, NamesDistinct DEF Live, TempsApart
  <2>7. \A v \in Workers : Live(v)' => disk'[temp[v]] = disk[temp[v]]
    BY <2>2, <2>4, <2>6, NamesDistinct
  <2>8. QED
    BY <2>3, <2>5, <2>6, <2>7, LiveTempFrame DEF LiveTempInv
<1>7. QED
  BY <1>3, <1>4, <1>5, <1>6 DEF Flight

LEMMA CleanupLiveTemps ==
    ASSUME TypeInv, LiveTempInv, Cleanup
    PROVE  LiveTempInv'
<1>1. CacheType /\ WorkersType /\ TempInv
  BY DEF TypeInv, TypeOK
<1>2. \A v \in Workers : Live(v) => temp[v] \in Temps /\ temp[v] # None
  BY <1>1, NamesDistinct DEF WorkersType, TempInv, Live
<1>3. UNCHANGED <<pc, temp, spent>>
  BY DEF Cleanup, CleanupStep, CleanupStart, CleanupGivesUp, CleanupKeeps, CleanupNotes,
         CleanupExpires, CleanupRemoves, CleanupRemoveFails, CleanupEnds, flyVars
<1>4. CASE UNCHANGED <<disk, age>> /\ target' \in {target, None}
  BY <1>2, <1>3, <1>4, LiveTempFrame DEF LiveTempInv, Live
<1>5. ASSUME NEW n \in Names, CleanupNotes(n)
      PROVE  LiveTempInv'
  <2>1. UNCHANGED <<disk, target>> /\ age' = [age EXCEPT ![n] = 0]
    BY <1>5 DEF CleanupNotes, Touch
  <2>2. \A v \in Workers : Live(v) => age'[temp[v]] \in {0, age[temp[v]]}
    BY <1>1, <1>2, <2>1 DEF CacheType
  <2>3. QED
    BY <1>3, <2>1, <2>2, LiveTempFrame DEF LiveTempInv, Live
<1>6. ASSUME NEW n \in Names, CleanupExpires(n)
      PROVE  LiveTempInv'
  <2>1. UNCHANGED <<disk, age>> /\ target' = n /\ age[n] >= MaxAge
    BY <1>6 DEF CleanupExpires, Expired, refVars
  <2>2. ASSUME NEW v \in Workers, Live(v)
        PROVE  target' # temp[v]
    <3>1. age[temp[v]] <= Timeout
      BY <1>1, <1>2, <2>2, TimesNatural DEF CacheType, WorkersType, LiveTempInv, Young
    <3>2. age[temp[v]] < MaxAge
      BY <1>1, <1>2, <2>2, <3>1, TimesNatural, TimeoutBelowMaxAge DEF CacheType
    <3>3. QED
      BY <1>1, <1>2, <2>1, <2>2, <3>2, TimesNatural DEF CacheType
  <2>3. QED
    BY <1>3, <2>1, <2>2, LiveTempFrame DEF Live
<1>7. CASE CleanupRemoves
  <2>1. /\ disk' = [disk EXCEPT ![target] = "none"] /\ target' = None
        /\ age' = [age EXCEPT ![target] = 0]
    BY <1>7 DEF CleanupRemoves, Forget
  <2>2. \A v \in Workers : Live(v) =>
            disk'[temp[v]] = disk[temp[v]] /\ age'[temp[v]] = age[temp[v]]
    BY <1>1, <1>2, <2>1 DEF CacheType, LiveTempInv
  <2>3. QED
    BY <1>2, <1>3, <2>1, <2>2, LiveTempFrame DEF Live
<1>8. \/ UNCHANGED <<disk, age>> /\ target' \in {target, None}
      \/ \E n \in Names : CleanupNotes(n) \/ CleanupExpires(n)
      \/ CleanupRemoves
  BY DEF Cleanup, CleanupStep, CleanupStart, CleanupGivesUp, CleanupKeeps,
         CleanupRemoveFails, CleanupEnds, refVars, passVars
<1>9. QED
  BY <1>4, <1>5, <1>6, <1>7, <1>8

LEMMA NextLiveTemps ==
    ASSUME TypeInv, TempsApart, LiveTempInv, [Next]_vars
    PROVE  LiveTempInv'
<1>1. CacheType /\ WorkersType /\ KeyInv /\ TempInv
  BY DEF TypeInv, TypeOK
<1>2. \A v \in Workers : Live(v) => temp[v] \in Temps
  BY <1>1, NamesDistinct DEF WorkersType, TempInv, Live
<1>3. ASSUME NEW w \in Workers, NEW k \in Keys, AcquireRef(w, k)
      PROVE  LiveTempInv'
  <2>1. \A v \in Workers : Live(v)' => pc'[v] = pc[v]
    BY <1>1, <1>3 DEF WorkersType, Live, AcquireRef
  <2>2. UNCHANGED <<disk, age, temp, spent, target>>
    BY <1>3 DEF AcquireRef, passVars
  <2>3. QED
    BY <2>1, <2>2, LiveTempFrame DEF Live, LiveTempInv
<1>4. ASSUME NEW w \in Workers, AcquireFails(w) \/ Release(w)
      PROVE  LiveTempInv'
  <2>1. key[w] \in Keys
    BY <1>1, <1>4, NamesDistinct DEF WorkersType, KeyInv, AcquireFails, Release
  <2>2. \A v \in Workers : Live(v)' => pc'[v] = pc[v]
    BY <1>1, <1>4 DEF WorkersType, Live, AcquireFails, Release, Leave
  <2>3. UNCHANGED <<disk, temp, spent, target>>
    BY <1>4 DEF AcquireFails, Release, Leave, passVars
  <2>4. age' = age \/ age' = [age EXCEPT ![key[w]] = 0]
    BY <1>4 DEF AcquireFails, Release, Touch
  <2>5. \A v \in Workers : Live(v)' => age'[temp[v]] = age[temp[v]]
    BY <1>1, <1>2, <2>1, <2>2, <2>4, NamesDistinct DEF CacheType, Live
  <2>6. QED
    BY <2>2, <2>3, <2>5, LiveTempFrame DEF Live, LiveTempInv
<1>5. CASE Tick
  <2> SUFFICES ASSUME NEW v \in Workers, Live(v)'
               PROVE  disk'[temp'[v]] # "none" /\ target' # temp'[v] /\ Young(v)'
    BY DEF LiveTempInv
  <2>1. UNCHANGED <<disk, pc, temp, target>>
    BY <1>5 DEF Tick, passVars
  <2>2. pc[v] = "fetch" /\ Live(v)
    BY <1>5, <2>1 DEF Tick, Live
  <2>3. age[temp[v]] <= spent[v]
    BY <2>2 DEF LiveTempInv, Young
  <2>4. spent'[v] = spent[v] + 1 /\ age'[temp[v]] <= age[temp[v]] + 1
    BY <1>1, <1>2, <1>5, <2>2, TimesNatural DEF CacheType, WorkersType, Tick, Downloading
  <2>5. age'[temp[v]] <= spent'[v]
    <3>1. age[temp[v]] \in Nat /\ spent[v] \in Nat /\ age'[temp[v]] \in Nat
      BY <1>1, <1>2, <1>5, <2>2, TimesNatural DEF CacheType, WorkersType, Tick
    <3>2. QED
      BY <2>3, <2>4, <3>1
  <2>6. QED
    BY <2>1, <2>2, <2>5 DEF LiveTempInv, Young
<1>6. CASE Crash
  BY <1>6 DEF Crash, LiveTempInv, Live
<1>7. CASE UNCHANGED vars
  BY <1>7, LiveTempFrame DEF LiveTempInv, Live, vars
<1>8. QED
  BY <1>3, <1>4, <1>5, <1>6, <1>7, FlightLiveTemps, CleanupLiveTemps DEF Next, Work

(* cleanup never removes the file a download is still writing or about to  *)
(* rename, for any timeout below MaxAge and any period of the ticker.      *)
THEOREM LiveTempsStay == Spec => []LiveTempKept
<1>1. Init => LiveTempInv
  BY DEF Init, LiveTempInv, Live
<1>2. TypeInv /\ FileInv /\ LiveTempInv /\ [Next]_vars => LiveTempInv'
  BY NextLiveTemps DEF FileInv
<1>3. LiveTempInv => LiveTempKept
  BY DEF LiveTempInv, LiveTempKept, Live
<1>4. QED
  BY <1>1, <1>2, <1>3, FileInvariant, PTL DEF Spec

-----------------------------------------------------------------------------
(* The age of the images cleanup removes.  lastUsed knows an image only    *)
(* while its file is there.  So a flight that missed a file that was not   *)
(* there leaves no old entry behind when it ends in an error; one that     *)
(* missed a file that was there may, and the image is doubted.  The entry  *)
(* of any other image is no older than the time since it was held.         *)

ListedInv ==
    /\ \A k \in Keys : k \in lastUsed \cup todo => disk[k] # "none"
    /\ pass = "remove" => target \notin todo

LEMMA NotHeld ==
    ASSUME RefsMatchHolders, NEW n \in Names, refs[n] = 0
    PROVE  \A w \in Workers : key[w] # n
<1>1. Holders(n) = {}
  BY HoldersFinite, FS_EmptySet DEF RefsMatchHolders
<1>2. QED
  BY <1>1 DEF Holders

(* The last one to leave is alone, and one that is not has left another.   *)
LEMMA LastHolder ==
    ASSUME RefsMatchHolders, NEW w \in Workers, key[w] \in Names
    PROVE  Dropped(key[w]) = 0 <=> \A v \in Workers : key[v] = key[w] => v = w
<1> DEFINE H == Holders(key[w])
<1>1. /\ IsFiniteSet(H) /\ refs[key[w]] = Cardinality(H) /\ Cardinality(H) \in Nat
      /\ w \in H
  BY HoldersFinite DEF RefsMatchHolders, Holders
<1>2. Dropped(key[w]) = 0 <=> Cardinality(H) <= 1
  BY <1>1 DEF Dropped
<1>3. IsFiniteSet({w}) /\ Cardinality({w}) = 1
  BY FS_Singleton
<1>4. {w} \in SUBSET H
  BY <1>1
<1> HIDE DEF H
<1>5. Cardinality({w}) <= Cardinality(H) /\ (Cardinality(H) = Cardinality({w}) => H = {w})
  BY <1>1, <1>4, FS_Subset
<1>6. Cardinality(H) <= 1 <=> H = {w}
  BY <1>1, <1>3, <1>5
<1>7. H = {w} <=> \A v \in Workers : key[v] = key[w] => v = w
  BY <1>1 DEF H, Holders
<1>8. QED
  BY <1>2, <1>6, <1>7

LEMMA FlightListed ==
    ASSUME TypeInv, ListedInv, NEW w \in Workers, Flight(w)
    PROVE  ListedInv'
<1>1. CacheType /\ WorkersType /\ KeyInv /\ TempInv
  BY DEF TypeInv, TypeOK
<1>2. UNCHANGED <<todo, target, pass>>
  BY DEF Flight, JoinFlight, LeadFlight, StatMiss, StatHit, RequestFails, CreateTemp, CopyDone,
         CopyFails, RenameFails, Abandon, Rename, passVars
<1>3. lastUsed' \subseteq lastUsed
  BY DEF Flight, JoinFlight, LeadFlight, StatMiss, StatHit, RequestFails, CreateTemp, Forget,
         CopyDone, CopyFails, RenameFails, Abandon, Rename, refVars
<1>4. \A k \in Keys : disk[k] # "none" => disk'[k] # "none"
  <2>1. CASE UNCHANGED disk
    BY <2>1
  <2>2. ASSUME NEW t \in Temps, CreateTemp(w, t)
        PROVE  \A k \in Keys : disk'[k] = disk[k]
    BY <1>1, <2>2, NamesDistinct DEF CacheType, CreateTemp
  <2>3. CASE CopyDone(w) \/ CopyFails(w) \/ RenameFails(w)
    <3>1. temp[w] \in Temps
      BY <1>1, <2>3 DEF WorkersType, TempInv, CopyDone, CopyFails, RenameFails
    <3>2. \A k \in Keys : disk'[k] = disk[k]
      BY <1>1, <2>3, <3>1, NamesDistinct DEF CacheType, CopyDone, CopyFails, RenameFails, Abandon
    <3>3. QED
      BY <3>2
  <2>4. CASE Rename(w)
    <3>1. temp[w] \in Temps /\ disk[temp[w]] # "none"
      BY <1>1, <2>4 DEF WorkersType, TempInv, Rename
    <3>2. \A k \in Keys : disk'[k] \in {disk[k], disk[temp[w]]}
      BY <1>1, <2>4, <3>1, NamesDistinct DEF CacheType, Rename
    <3>3. QED
      BY <3>1, <3>2
  <2>5. QED
    BY <2>1, <2>2, <2>3, <2>4
       DEF Flight, JoinFlight, LeadFlight, StatMiss, StatHit, RequestFails
<1>5. QED
  BY <1>2, <1>3, <1>4 DEF ListedInv

LEMMA NextListed ==
    ASSUME TypeInv, FileInv, ListedInv, [Next]_vars
    PROVE  ListedInv'
<1>1. CacheType /\ WorkersType /\ CleanerType /\ KeyInv /\ TempInv
  BY DEF TypeInv, TypeOK
<1>2. ASSUME NEW w \in Workers, NEW k \in Keys, AcquireRef(w, k)
      PROVE  ListedInv'
  BY <1>2 DEF AcquireRef, passVars, ListedInv
<1>3. ASSUME NEW w \in Workers, AcquireFails(w) \/ Release(w)
      PROVE  ListedInv'
  <2>1. UNCHANGED <<todo, disk, pass, target>>
    BY <1>3 DEF AcquireFails, Release, Leave, passVars
  <2>2. CASE lastUsed' = lastUsed
    BY <2>1, <2>2 DEF ListedInv
  <2>3. CASE lastUsed' # lastUsed
    <3>1. Release(w) /\ lastUsed' = lastUsed \cup {key[w]}
      BY <1>3, <2>3 DEF AcquireFails, Release, Touch
    <3>2. disk[key[w]] = "whole"
      BY <3>1 DEF Release, FileInv, HeldImageWhole
    <3>3. QED
      BY <2>1, <3>1, <3>2 DEF ListedInv
  <2>4. QED
    BY <2>2, <2>3
<1>4. CASE Cleanup
  <2>1. CASE CleanupStart
    BY <2>1 DEF CleanupStart, Entries, ListedInv, refVars
  <2>2. CASE CleanupGivesUp \/ CleanupRemoveFails \/ CleanupEnds
    BY <2>2 DEF CleanupGivesUp, CleanupRemoveFails, CleanupEnds, ListedInv, refVars, passVars
  <2>3. ASSUME NEW n \in Names, CleanupKeeps(n) \/ CleanupNotes(n) \/ CleanupExpires(n)
        PROVE  ListedInv'
    BY <2>3 DEF CleanupKeeps, CleanupNotes, CleanupExpires, Touch, ListedInv, refVars
  <2>4. CASE CleanupRemoves
    BY <1>1, <2>4 DEF CleanupRemoves, Forget, ListedInv, CacheType
  <2>5. QED
    BY <1>4, <2>1, <2>2, <2>3, <2>4 DEF Cleanup, CleanupStep
<1>5. CASE Tick \/ UNCHANGED vars
  BY <1>5 DEF Tick, vars, passVars, ListedInv
<1>6. CASE Crash
  BY <1>6 DEF Crash, ListedInv
<1>7. QED
  BY <1>2, <1>3, <1>4, <1>5, <1>6, FlightListed DEF Next, Work

LEMMA ListedInvariant == Spec => []ListedInv
<1>1. Init => ListedInv
  BY DEF Init, ListedInv
<1>2. TypeInv /\ FileInv /\ ListedInv /\ [Next]_vars => ListedInv'
  BY NextListed
<1>3. QED
  BY <1>1, <1>2, FileInvariant, PTL DEF Spec

(* The history. *)
HistoryType == quiet \in [Keys -> 0..MaxAge] /\ doubted \subseteq Keys

(* A flight that went past os.Stat has found no entry in lastUsed, or the  *)
(* image is doubted.                                                       *)
Missed == {"request", "fetch", "rename", "failed"}

MissInv == \A w \in Workers : pc[w] \in Missed /\ key[w] \in lastUsed => key[w] \in doubted

(* The entry of an image nobody holds is no older than the image is quiet, *)
(* and while cleanup holds the mutex nobody takes its target.              *)
AgeInv ==
    \A k \in Keys : k \in lastUsed /\ ~Held(k) => age[k] <= quiet[k] \/ k \in doubted

TargetInv ==
    pass = "remove" /\ target \in Keys =>
        ~Held(target) /\ target \in lastUsed /\ (quiet[target] >= MaxAge \/ target \in doubted)

HistoryInv == HistoryType /\ MissInv /\ AgeInv /\ TargetInv

(* What the steps of the cache rely on. *)
CacheInv == TypeInv /\ RefsMatchHolders /\ FileInv /\ ListedInv

LEMMA HNextIsNext == [HNext]_<<vars, history>> => [Next]_vars
  BY DEF HNext, Next, history

LEMMA NextHistoryType ==
    ASSUME HistoryType, [HNext]_<<vars, history>>
    PROVE  HistoryType'
<1>1. ASSUME NEW k \in Keys
      PROVE  Older(k) \in 0..MaxAge
  BY TimesNatural DEF HistoryType, Older
<1>2. CASE Quieten /\ Doubt
  BY <1>2, TimesNatural DEF HistoryType, Quieten, Doubt
<1>3. CASE quiet' = [k \in Keys |-> Older(k)] /\ doubted' = doubted
  BY <1>1, <1>3 DEF HistoryType
<1>4. CASE UNCHANGED history
  BY <1>4 DEF HistoryType, history
<1>5. QED
  BY <1>2, <1>3, <1>4 DEF HNext

(* The Release that renews an image leaves nobody inside Acquire and       *)
(* Release of it.                                                          *)
LEMMA RenewsAlone ==
    ASSUME TypeInv, RefsMatchHolders, NEW k \in Keys, Renews(k)
    PROVE  \A v \in Workers : key[v] = k => pc[v] = "using" /\ pc'[v] = "idle"
<1>1. PICK w \in Workers : key[w] = k /\ Release(w) /\ Dropped(k) = 0
  BY DEF Renews
<1>2. pc[w] = "using" /\ pc'[w] = "idle"
  BY <1>1 DEF Release, Leave, TypeInv, TypeOK, WorkersType
<1>3. \A v \in Workers : key[v] = k => v = w
  BY <1>1, LastHolder
<1>4. QED
  BY <1>2, <1>3

(* A doubt lasts while somebody is still inside Acquire .. Release. *)
LEMMA DoubtLasts ==
    ASSUME TypeInv, RefsMatchHolders, Doubt, NEW k \in Keys, k \in doubted, k \in lastUsed',
           ~Held(k) \/ \E v \in Workers : key[v] = k /\ (pc[v] # "using" \/ pc'[v] # "idle")
    PROVE  k \in doubted'
<1>1. ~Renews(k)
  BY RenewsAlone DEF Held, Renews
<1>2. QED
  BY <1>1 DEF Doubt

(* Another worker's step gives no entry to an image somebody holds. *)
LEMMA HeldGetsNoEntry ==
    ASSUME TypeInv, RefsMatchHolders, Work, NEW v \in Workers, key[v] \in Keys, key[v] \in lastUsed',
           pc[v] # "using" \/ pc'[v] # "idle"
    PROVE  key[v] \in lastUsed
<1>1. CacheType /\ WorkersType /\ KeyInv
  BY DEF TypeInv, TypeOK
<1>2. ASSUME NEW w \in Workers, NEW k \in Keys, AcquireRef(w, k)
      PROVE  lastUsed' = lastUsed
  BY <1>2 DEF AcquireRef
<1>3. ASSUME NEW w \in Workers, Flight(w)
      PROVE  lastUsed' \subseteq lastUsed
  BY <1>3 DEF Flight, JoinFlight, LeadFlight, StatMiss, StatHit, RequestFails, CreateTemp, Forget,
              CopyDone, CopyFails, RenameFails, Abandon, Rename, refVars
<1>4. ASSUME NEW w \in Workers, AcquireFails(w)
      PROVE  lastUsed' = lastUsed
  BY <1>4 DEF AcquireFails
<1>5. ASSUME NEW w \in Workers, Release(w)
      PROVE  key[v] \in lastUsed
  <2>1. CASE lastUsed' = lastUsed
    BY <2>1
  <2>2. CASE lastUsed' # lastUsed
    <3>1. Dropped(key[w]) = 0 /\ lastUsed' = lastUsed \cup {key[w]}
      BY <1>5, <2>2 DEF Release, Touch
    <3>2. key[w] \in Keys
      BY <1>1, <1>5, NamesDistinct DEF WorkersType, KeyInv, Release
    <3>3. v # w
      BY <1>1, <1>5 DEF Release, Leave, WorkersType
    <3>4. key[v] # key[w]
      BY <3>1, <3>2, <3>3, LastHolder
    <3>5. QED
      BY <3>1, <3>4
  <2>3. QED
    BY <2>1, <2>2
<1>6. CASE Cleanup
  <2>1. ASSUME NEW n \in Names, CleanupNotes(n)
        PROVE  key[v] \in lastUsed
    <3>1. refs[n] = 0 /\ lastUsed' = lastUsed \cup {n}
      BY <1>1, <2>1 DEF CleanupNotes, InUse, Touch, CacheType
    <3>2. QED
      BY <3>1, NotHeld
  <2>2. CASE lastUsed' \subseteq lastUsed
    BY <2>2
  <2>3. QED
    BY <1>6, <2>1, <2>2 DEF Cleanup, CleanupStep, CleanupStart, CleanupGivesUp, CleanupKeeps,
           CleanupExpires, CleanupRemoves, Forget, CleanupRemoveFails, CleanupEnds, refVars
<1>7. CASE Crash
  BY <1>7 DEF Crash
<1>8. QED
  BY <1>2, <1>3, <1>4, <1>5, <1>6, <1>7 DEF Work

(* A worker that is past os.Stat after a step was so before it, or shares  *)
(* its key with one that was, or has just missed the file.                 *)
LEMMA MissedBefore ==
    ASSUME TypeInv, Work, NEW v \in Workers, pc'[v] \in Missed
    PROVE  /\ key'[v] = key[v] /\ key[v] \in Keys /\ pc[v] # "using"
           /\ \/ StatMiss(v)
              \/ \E u \in Workers : pc[u] \in Missed /\ key[u] = key[v]
<1>1. WorkersType /\ KeyInv
  BY DEF TypeInv, TypeOK
<1>2. \A u \in Workers : pc[u] # "idle" => key[u] \in Keys
  BY <1>1, NamesDistinct DEF WorkersType, KeyInv
<1>3. CASE pc'[v] = pc[v] /\ key'[v] = key[v]
  BY <1>2, <1>3 DEF Missed
<1>4. ASSUME NEW w \in Workers, NEW k \in Keys, AcquireRef(w, k)
      PROVE  pc'[v] = pc[v] /\ key'[v] = key[v]
  BY <1>1, <1>4 DEF AcquireRef, WorkersType, Missed
<1>5. ASSUME NEW w \in Workers, AcquireFails(w) \/ Release(w)
      PROVE  pc'[v] = pc[v] /\ key'[v] = key[v]
  BY <1>1, <1>5 DEF AcquireFails, Release, Leave, WorkersType, Missed
<1>6. CASE Cleanup
  BY <1>3, <1>6 DEF Cleanup, CleanupStep, CleanupStart, CleanupGivesUp, CleanupKeeps, CleanupNotes,
                    CleanupExpires, CleanupRemoves, CleanupRemoveFails, CleanupEnds, flyVars
<1>7. ~Crash
  BY DEF Crash, Missed
<1>8. ASSUME NEW w \in Workers, Flight(w), pc'[v] # pc[v]
      PROVE  /\ key'[v] = key[v] /\ key[v] \in Keys /\ pc[v] # "using"
             /\ \/ StatMiss(v)
                \/ \E u \in Workers : pc[u] \in Missed /\ key[u] = key[v]
  <2>1. key' = key
    BY <1>8 DEF Flight, JoinFlight, LeadFlight, StatMiss, StatHit, RequestFails, CreateTemp, CopyDone,
                CopyFails, RenameFails, Abandon, Rename, flyVars
  <2>2. CASE StatMiss(w)
    <3>1. v = w /\ pc[v] = "stat"
      BY <1>1, <1>8, <2>2 DEF StatMiss, WorkersType
    <3>2. QED
      BY <1>2, <2>1, <2>2, <3>1
  <2>3. CASE (\E t \in Temps : CreateTemp(w, t)) \/ CopyDone(w)
    <3>1. v = w /\ pc[w] \in {"request", "fetch"}
      BY <1>1, <1>8, <2>3 DEF CreateTemp, CopyDone, WorkersType
    <3>2. QED
      BY <1>2, <2>1, <3>1 DEF Missed
  <2>4. CASE RequestFails(w) \/ CopyFails(w) \/ RenameFails(w)
    <3>1. pc[w] \in {"request", "fetch", "rename"} /\ Deliver(w, "failed")
      BY <2>4 DEF RequestFails, CopyFails, RenameFails, Abandon
    <3>2. v \in Callers(w)
      BY <1>1, <1>8, <3>1 DEF Deliver, WorkersType
    <3>3. key[v] = key[w] /\ pc[v] # "using" /\ key[w] \in Keys
      BY <1>2, <3>1, <3>2 DEF Callers
    <3>4. QED
      BY <2>1, <3>1, <3>3 DEF Missed
  <2>5. CASE StatHit(w) \/ Rename(w) \/ JoinFlight(w) \/ LeadFlight(w)
    BY <1>1, <1>8, <2>5 DEF StatHit, Rename, JoinFlight, LeadFlight, Deliver, Callers,
                            WorkersType, Missed
  <2>6. QED
    BY <1>8, <2>2, <2>3, <2>4, <2>5 DEF Flight
<1>9. \A w \in Workers : Flight(w) => key' = key
  BY DEF Flight, JoinFlight, LeadFlight, StatMiss, StatHit, RequestFails, CreateTemp, CopyDone,
         CopyFails, RenameFails, Abandon, Rename, flyVars
<1>10. QED
  BY <1>3, <1>4, <1>5, <1>6, <1>7, <1>8, <1>9 DEF Work

LEMMA WorkMissInv ==
    ASSUME CacheInv, HistoryType, MissInv, Work, Doubt
    PROVE  MissInv'
<1> SUFFICES ASSUME NEW v \in Workers, pc'[v] \in Missed, key'[v] \in lastUsed'
             PROVE  key'[v] \in doubted'
  BY DEF MissInv
<1>1. TypeInv /\ RefsMatchHolders /\ ListedInv
  BY DEF CacheInv
<1>2. key'[v] = key[v] /\ key[v] \in Keys /\ pc[v] # "using"
  BY <1>1, MissedBefore
<1>3. key[v] \in lastUsed
  BY <1>1, <1>2, HeldGetsNoEntry
<1>4. CASE StatMiss(v)
  <2>1. disk[key[v]] # "none"
    BY <1>1, <1>2, <1>3 DEF ListedInv
  <2>2. Doubts(key[v])
    BY <1>3, <1>4, <2>1 DEF Doubts
  <2>3. QED
    BY <1>2, <2>2 DEF Doubt
<1>5. ASSUME NEW u \in Workers, pc[u] \in Missed, key[u] = key[v]
      PROVE  key'[v] \in doubted'
  <2>1. key[v] \in doubted
    BY <1>3, <1>5 DEF MissInv
  <2>2. QED
    BY <1>1, <1>2, <2>1, DoubtLasts
<1>6. QED
  BY <1>1, <1>4, <1>5, MissedBefore

(* A step that makes no entry older and takes no image that is not doubted *)
(* from its last holder keeps AgeInv.                                      *)
LEMMA AgeFrame ==
    ASSUME TypeInv, RefsMatchHolders, HistoryType, AgeInv, Quieten, Doubt,
           \A k \in Keys : k \in lastUsed' /\ ~Held(k)' =>
               \/ age'[k] = 0
               \/ ~Held(k) /\ k \in lastUsed /\ age'[k] = age[k]
               \/ k \in doubted'
    PROVE  AgeInv'
<1> SUFFICES ASSUME NEW k \in Keys, k \in lastUsed', ~Held(k)'
             PROVE  age'[k] <= quiet'[k] \/ k \in doubted'
  BY DEF AgeInv
<1>1. quiet'[k] \in Nat /\ (~Held(k) => quiet'[k] = quiet[k])
  BY TimesNatural DEF HistoryType, Quieten
<1>2. CASE age'[k] = 0 \/ k \in doubted'
  BY <1>1, <1>2
<1>3. CASE ~Held(k) /\ k \in lastUsed /\ age'[k] = age[k]
  <2>1. k \in doubted => k \in doubted'
    BY <1>3, DoubtLasts
  <2>2. QED
    BY <1>1, <1>3, <2>1 DEF AgeInv
<1>4. QED
  BY <1>2, <1>3

LEMMA WorkAgeInv ==
    ASSUME CacheInv, HistoryType, MissInv, AgeInv, Work, Quieten, Doubt
    PROVE  AgeInv'
<1>1. /\ CacheType /\ WorkersType /\ CleanerType /\ KeyInv /\ TempInv
      /\ TypeInv /\ RefsMatchHolders
  BY DEF CacheInv, TypeInv, TypeOK
<1>2. ASSUME NEW w \in Workers, NEW k \in Keys, AcquireRef(w, k)
      PROVE  AgeInv'
  <2>1. UNCHANGED <<lastUsed, age>>
    BY <1>2 DEF AcquireRef
  <2>2. \A l \in Keys : ~Held(l)' => ~Held(l)
    BY <1>1, <1>2, NamesDistinct DEF AcquireRef, Held, WorkersType, KeyInv
  <2>3. QED
    BY <1>1, <2>1, <2>2, AgeFrame
<1>3. ASSUME NEW w \in Workers, Flight(w)
      PROVE  AgeInv'
  <2>1. key' = key
    BY <1>3 DEF Flight, JoinFlight, LeadFlight, StatMiss, StatHit, RequestFails, CreateTemp, CopyDone,
                CopyFails, RenameFails, Abandon, Rename, flyVars
  <2>2. \A k \in Keys : k \in lastUsed' => k \in lastUsed /\ age'[k] = age[k]
    <3>1. ASSUME NEW t \in Temps, CreateTemp(w, t)
          PROVE  \A k \in Keys : k \in lastUsed' => k \in lastUsed /\ age'[k] = age[k]
      BY <1>1, <3>1, NamesDistinct DEF CreateTemp, Forget, CacheType
    <3>2. CASE UNCHANGED <<lastUsed, age>>
      BY <3>2
    <3>3. QED
      BY <1>3, <3>1, <3>2 DEF Flight, JoinFlight, LeadFlight, StatMiss, StatHit, RequestFails, CopyDone,
                              CopyFails, RenameFails, Abandon, Rename, refVars
  <2>3. \A k \in Keys : Held(k)' <=> Held(k)
    BY <2>1 DEF Held
  <2>4. QED
    BY <1>1, <2>2, <2>3, AgeFrame
<1>4. ASSUME NEW w \in Workers, AcquireFails(w) \/ Release(w)
      PROVE  AgeInv'
  <2>1. key[w] \in Keys /\ key' = [key EXCEPT ![w] = None]
    BY <1>1, <1>4, NamesDistinct DEF WorkersType, KeyInv, AcquireFails, Release, Leave
  <2>2. \A k \in Keys : ~Held(k)' => ~Held(k) \/ k = key[w]
    BY <1>1, <2>1 DEF Held, WorkersType
  <2>3. CASE Release(w) /\ Dropped(key[w]) = 0
    <3>1. lastUsed' = lastUsed \cup {key[w]} /\ age' = [age EXCEPT ![key[w]] = 0]
      BY <2>3 DEF Release, Touch
    <3>2. QED
      BY <1>1, <2>1, <2>2, <3>1, AgeFrame DEF CacheType
  <2>4. CASE Release(w) /\ Dropped(key[w]) # 0
    <3>1. UNCHANGED <<lastUsed, age>>
      BY <2>4 DEF Release
    <3>2. PICK v \in Workers : key[v] = key[w] /\ v # w
      BY <1>1, <2>1, <2>4, LastHolder
    <3>3. key'[v] = key[w]
      BY <1>1, <2>1, <3>2 DEF WorkersType
    <3>4. \A k \in Keys : ~Held(k)' => ~Held(k)
      <4> SUFFICES ASSUME NEW k \in Keys, \A x \in Workers : key'[x] # k
                   PROVE  ~Held(k)
        BY DEF Held
      <4>1. k # key[w]
        BY <3>3
      <4>2. QED
        BY <2>2, <4>1 DEF Held
    <3>5. QED
      BY <1>1, <3>1, <3>4, AgeFrame
  <2>5. CASE AcquireFails(w)
    <3>1. UNCHANGED <<lastUsed, age>> /\ pc[w] = "failed"
      BY <2>5 DEF AcquireFails
    <3>2. key[w] \in lastUsed => key[w] \in doubted
      BY <3>1 DEF MissInv, Missed
    <3>3. key[w] \in lastUsed => key[w] \in doubted'
      BY <1>1, <2>1, <3>1, <3>2, DoubtLasts
    <3>4. QED
      BY <1>1, <2>2, <3>1, <3>3, AgeFrame
  <2>6. QED
    BY <1>4, <2>3, <2>4, <2>5
<1>5. CASE Cleanup
  <2>1. key' = key
    BY <1>5 DEF Cleanup, CleanupStep, CleanupStart, CleanupGivesUp, CleanupKeeps, CleanupNotes,
                CleanupExpires, CleanupRemoves, CleanupRemoveFails, CleanupEnds, flyVars
  <2>2. \A k \in Keys : Held(k)' <=> Held(k)
    BY <2>1 DEF Held
  <2>3. \A k \in Keys : k \in lastUsed' => age'[k] = 0 \/ (k \in lastUsed /\ age'[k] = age[k])
    <3>1. CASE UNCHANGED <<lastUsed, age>>
      BY <3>1
    <3>2. ASSUME NEW n \in Names, CleanupNotes(n)
          PROVE  \A k \in Keys : k \in lastUsed' => age'[k] = 0 \/ (k \in lastUsed /\ age'[k] = age[k])
      BY <1>1, <3>2 DEF CleanupNotes, Touch, CacheType
    <3>3. CASE CleanupRemoves
      BY <1>1, <3>3 DEF CleanupRemoves, Forget, CacheType
    <3>4. QED
      BY <1>5, <3>1, <3>2, <3>3 DEF Cleanup, CleanupStep, CleanupStart, CleanupGivesUp, CleanupKeeps,
                                    CleanupExpires, CleanupRemoveFails, CleanupEnds, refVars
  <2>4. QED
    BY <1>1, <2>2, <2>3, AgeFrame
<1>6. CASE Crash
  BY <1>6 DEF Crash, AgeInv
<1>7. QED
  BY <1>2, <1>3, <1>4, <1>5, <1>6 DEF Work

LEMMA NextHistoryInv ==
    ASSUME CacheInv, HistoryInv, [HNext]_<<vars, history>>
    PROVE  HistoryInv'
<1>1. /\ CacheType /\ WorkersType /\ CleanerType /\ KeyInv /\ TempInv
      /\ TypeInv /\ RefsMatchHolders
  BY DEF CacheInv, TypeInv, TypeOK
<1>2. HistoryType /\ MissInv /\ AgeInv /\ TargetInv /\ HistoryType'
  BY NextHistoryType DEF HistoryInv
<1>3. CASE Work /\ Quieten /\ Doubt
  <2>1. AgeInv' /\ MissInv'
    BY <1>2, <1>3, WorkAgeInv, WorkMissInv
  <2>2. SUFFICES ASSUME pass' = "remove", target' \in Keys
                 PROVE  /\ (\A w \in Workers : key'[w] # target') /\ target' \in lastUsed'
                        /\ quiet'[target'] >= MaxAge \/ target' \in doubted'
    BY <1>2, <2>1 DEF HistoryInv, TargetInv, Held
  <2>3. key' = key /\ \A k \in Keys : k \in lastUsed => k \in lastUsed'
    <3>1. ASSUME NEW w \in Workers, Flight(w)
          PROVE  key' = key /\ \A k \in Keys : k \in lastUsed => k \in lastUsed'
      BY <3>1, NamesDistinct
         DEF Flight, JoinFlight, LeadFlight, StatMiss, StatHit, RequestFails, CreateTemp, Forget,
             CopyDone, CopyFails, RenameFails, Abandon, Rename, flyVars, refVars
    <3>2. CASE Cleanup
      BY <2>2, <3>2 DEF Cleanup, CleanupStep, CleanupStart, CleanupGivesUp, CleanupKeeps,
           CleanupNotes, Touch, CleanupExpires, CleanupRemoves, CleanupRemoveFails, CleanupEnds,
           flyVars, refVars, passVars
    <3>3. QED
      BY <1>3, <2>2, <3>1, <3>2 DEF Work, MuFree, AcquireRef, AcquireFails, Release, Leave, Crash,
                                    passVars
  <2>4. CASE pass = "remove" /\ target' = target
    <3>1. ~Held(target) /\ target \in lastUsed /\ (quiet[target] >= MaxAge \/ target \in doubted)
      BY <1>2, <2>2, <2>4 DEF TargetInv
    <3>2. quiet'[target] = quiet[target]
      BY <1>2, <1>3, <2>2, <2>4, <3>1 DEF HistoryType, Quieten
    <3>3. target \in doubted => target \in doubted'
      BY <1>1, <1>3, <2>2, <2>3, <2>4, <3>1, DoubtLasts
    <3>4. QED
      BY <2>2, <2>3, <2>4, <3>1, <3>2, <3>3 DEF Held
  <2>5. ASSUME NEW n \in Names, CleanupExpires(n)
        PROVE  /\ (\A w \in Workers : key'[w] # target') /\ target' \in lastUsed'
               /\ quiet'[target'] >= MaxAge \/ target' \in doubted'
    <3>1. target' = n /\ refs[n] = 0 /\ n \in lastUsed /\ age[n] >= MaxAge /\ n \in Keys
      BY <1>1, <2>2, <2>5 DEF CleanupExpires, InUse, Expired, CacheType
    <3>2. ~Held(n)
      BY <1>1, <3>1, NotHeld DEF Held
    <3>3. (age[n] <= quiet[n] \/ n \in doubted) /\ quiet'[n] = quiet[n]
      BY <1>2, <1>3, <3>1, <3>2 DEF AgeInv, Quieten
    <3>4. quiet[n] >= MaxAge \/ n \in doubted
      BY <1>1, <1>2, <3>1, <3>3, TimesNatural DEF CacheType, HistoryType
    <3>5. n \in doubted => n \in doubted'
      BY <1>1, <1>3, <2>3, <3>1, <3>2, DoubtLasts
    <3>6. QED
      BY <2>3, <3>1, <3>2, <3>3, <3>4, <3>5 DEF Held
  <2>6. (pass = "remove" /\ target' = target) \/ \E n \in Names : CleanupExpires(n)
    BY <1>3, <2>2 DEF Work, MuFree, AcquireRef, Flight, JoinFlight, LeadFlight, StatMiss, StatHit,
           RequestFails, CreateTemp, CopyDone, CopyFails, RenameFails, Abandon, Rename, AcquireFails,
           Release, Leave, Cleanup, CleanupStep, CleanupStart, CleanupGivesUp, CleanupKeeps,
           CleanupNotes, CleanupRemoves, CleanupRemoveFails, CleanupEnds, Crash, passVars
  <2>7. QED
    BY <2>4, <2>5, <2>6
<1>4. CASE Tick /\ quiet' = [k \in Keys |-> Older(k)] /\ doubted' = doubted
  <2>1. UNCHANGED <<key, pc, lastUsed, pass>> /\ pass = "wait"
    BY <1>4 DEF Tick, passVars
  <2>2. ASSUME NEW k \in Keys, k \in lastUsed, ~Held(k), k \notin doubted
        PROVE  age'[k] <= quiet'[k]
    <3>1. age[k] <= quiet[k] /\ age[k] \in 0..MaxAge /\ quiet[k] \in 0..MaxAge
      BY <1>1, <1>2, <2>2 DEF AgeInv, CacheType, HistoryType
    <3>2. age'[k] = IF age[k] < MaxAge THEN age[k] + 1 ELSE age[k]
      BY <1>4, <2>2 DEF Tick
    <3>3. quiet'[k] = IF quiet[k] = MaxAge THEN quiet[k] ELSE quiet[k] + 1
      BY <1>4, <2>2 DEF Older
    <3>4. QED
      BY <3>1, <3>2, <3>3, TimesNatural
  <2>3. QED
    BY <1>2, <1>4, <2>1, <2>2 DEF HistoryInv, MissInv, AgeInv, TargetInv, Held
<1>5. CASE UNCHANGED <<vars, history>>
  BY <1>2, <1>5 DEF HistoryInv, MissInv, AgeInv, TargetInv, Held, vars, history
<1>6. QED
  BY <1>3, <1>4, <1>5 DEF HNext

(* cleanup removes no image before MaxAge has passed since its last holder *)
(* gave it up, whoever failed to get it in between, unless os.Stat failed  *)
(* on the file of the image while it was there.                            *)
THEOREM NoImageTooEarly == HSpec => NoEarlyEviction
<1>1. HSpec => Spec
  BY HNextIsNext, PTL DEF HSpec, HInit, Spec
<1>2. HInit => HistoryInv
  BY TimesNatural DEF HInit, Init, HistoryInv, HistoryType, MissInv, AgeInv, TargetInv
<1>3. CacheInv /\ HistoryInv /\ [HNext]_<<vars, history>> => HistoryInv'
  BY NextHistoryInv
<1>4. TypeInv /\ HistoryInv /\ [Next]_vars =>
          [\A k \in Keys : (disk[k] # "none" /\ disk'[k] = "none")
              => quiet[k] >= MaxAge \/ k \in doubted]_vars
  <2> SUFFICES ASSUME TypeInv, HistoryInv, Next, NEW k \in Keys, disk[k] # "none", disk'[k] = "none"
               PROVE  quiet[k] >= MaxAge \/ k \in doubted
    OBVIOUS
  <2>1. CacheType /\ WorkersType /\ KeyInv /\ TempInv
    BY DEF TypeInv, TypeOK
  <2>2. ASSUME NEW w \in Workers
        PROVE  ~Flight(w)
    <3>1. ~CopyDone(w)
      BY <2>1, NamesDistinct DEF CopyDone, CacheType, WorkersType, TempInv
    <3>2. ~Rename(w)
      BY <2>1, NamesDistinct DEF Rename, CacheType, WorkersType, TempInv
    <3>3. ~CopyFails(w) /\ ~RenameFails(w)
      BY <2>1, NamesDistinct DEF CopyFails, RenameFails, Abandon, CacheType, WorkersType, TempInv
    <3>4. \A t \in Temps : ~CreateTemp(w, t)
      BY <2>1, NamesDistinct DEF CreateTemp, CacheType
    <3>5. QED
      BY <3>1, <3>2, <3>3, <3>4 DEF Flight, JoinFlight, LeadFlight, StatMiss, StatHit, RequestFails
  <2>3. CleanupRemoves
    BY <2>2 DEF Next, Work, AcquireRef, AcquireFails, Release, Leave, Cleanup, CleanupStep,
                CleanupStart, CleanupGivesUp, CleanupKeeps, CleanupNotes, CleanupExpires,
                CleanupRemoveFails, CleanupEnds, Tick, Crash
  <2>4. pass = "remove" /\ target = k
    BY <2>1, <2>3 DEF CleanupRemoves, CacheType
  <2>5. QED
    BY <2>4 DEF HistoryInv, TargetInv
<1>5. HSpec => []CacheInv
  BY <1>1, FileInvariant, ListedInvariant, PTL DEF CacheInv
<1>6. HSpec => []HistoryInv
  BY <1>2, <1>3, <1>5, PTL DEF HSpec
<1>7. CacheInv => TypeInv
  BY DEF CacheInv
<1>8. QED
  BY <1>1, <1>4, <1>5, <1>6, <1>7, PTL DEF Spec, NoEarlyEviction
=============================================================================
