--------------------------- MODULE ProcessProofs ---------------------------
(***************************************************************************)
(* Process ends with nothing cut off and with the exit code that says how, *)
(* for any number of requests it works on at once.                         *)
(***************************************************************************)
EXTENDS Process, TLAPS

(* Before the goroutines are started they are off. *)
BeforeInv ==
    phase \in Steps => code = 0 /\ cache = "off" /\ provider = "off"

WaitInv ==
    phase = "wait" => cache # "off" /\ provider # "off"

(* A provider goroutine that has come back has no work under way, and has  *)
(* come back without an error only because of a signal.                    *)
BackInv ==
    /\ provider \notin {"running", "broken"} => jobs = 0
    /\ provider = "returned" => signalled

(* After the exit nothing runs. *)
AfterInv ==
    phase = "exited" =>
        /\ cache \in {"off", "returned"}
        /\ provider \in {"off", "returned", "failed"}
        /\ code = 0 <=> provider = "returned"

PInv == TypeOK /\ BeforeInv /\ WaitInv /\ BackInv /\ AfterInv

(* The invariant holds at the start. *)
LEMMA InitPInv == Init => PInv
<1> SUFFICES ASSUME Init PROVE PInv
    OBVIOUS
<1>1. TypeOK
  <2>1. signalled \in BOOLEAN /\ tick \in BOOLEAN
    BY Zenon DEF Init
  <2>2. /\ phase \in Steps /\ code \in {0, 1} /\ cache = "off" /\ provider = "off"
        /\ jobs \in 0..Concurrency
    BY ConcurrencyAssumption DEF Init, Steps
  <2> QED
    BY <2>1, <2>2 DEF TypeOK
<1>2. BeforeInv /\ WaitInv /\ BackInv /\ AfterInv
    BY DEF Init, BeforeInv, WaitInv, BackInv, AfterInv
<1> QED
    BY <1>1, <1>2 DEF PInv

(* Every step keeps it. *)
LEMMA NextPInv == PInv /\ [Next]_vars => PInv'
<1> SUFFICES ASSUME PInv, [Next]_vars PROVE PInv'
    OBVIOUS
<1> USE ConcurrencyAssumption DEF PInv, TypeOK, BeforeInv, WaitInv, BackInv, AfterInv, Steps
<1>1. CASE StartupFails
    BY <1>1 DEF StartupFails, Exit, groupVars
<1>2. CASE ReadConfig \/ Connect \/ MakeCacheDirs \/ NewLibvirtManager
    BY <1>2 DEF ReadConfig, Connect, MakeCacheDirs, NewLibvirtManager, Done, groupVars
<1>3. CASE StartGoroutines
    BY <1>3 DEF StartGoroutines
<1>4. CASE Tick
    BY <1>4 DEF Tick
<1>5. CASE CacheGoroutine
    BY <1>5 DEF CacheGoroutine, Cleanup, CleanupDone, CacheStops
<1>6. CASE JobBegins
    BY <1>6 DEF JobBegins
<1>7. CASE JobEnds
    BY <1>7 DEF JobEnds
<1>8. CASE ProviderBreaks
    BY <1>8 DEF ProviderBreaks
<1>9. CASE ProviderReturns
    BY <1>9 DEF ProviderReturns, Cancelled
<1>10. CASE Wait
    BY <1>10 DEF Wait, Exit, groupVars
<1>11. CASE Signal
    BY <1>11 DEF Signal
<1>12. CASE UNCHANGED vars
    BY <1>12 DEF vars
<1> QED
    BY <1>1, <1>2, <1>3, <1>4, <1>5, <1>6, <1>7, <1>8, <1>9, <1>10, <1>11, <1>12
    DEF Next, Startup

LEMMA AlwaysPInv == Spec => []PInv
BY InitPInv, NextPInv, PTL DEF Spec

(* The variables stay in their types; no more than Concurrency requests    *)
(* are worked on at once.                                                  *)
THEOREM TypeCorrect == Spec => []TypeOK
<1>1. PInv => TypeOK
    BY DEF PInv
<1> QED
    BY <1>1, AlwaysPInv, PTL

(* The process does not exit in the middle of a request or a cleanup pass. *)
THEOREM NothingIsCutOff == Spec => []NothingCutOff
<1>1. PInv => NothingCutOff
    BY DEF PInv, BackInv, AfterInv, NothingCutOff
<1> QED
    BY <1>1, AlwaysPInv, PTL

(* Exit code 0 means: told to stop, and both goroutines ended well. *)
THEOREM ExitCodeRight == Spec => []ExitCodeTells
<1>1. PInv => ExitCodeTells
    BY DEF PInv, BackInv, AfterInv, ExitCodeTells
<1> QED
    BY <1>1, AlwaysPInv, PTL
=============================================================================
