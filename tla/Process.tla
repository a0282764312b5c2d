------------------------------ MODULE Process ------------------------------
(***************************************************************************)
(* The provider's process (cmd/omni-infra-provider-libvirt/main.go): its   *)
(* start-up, the two goroutines of its error group, and how it ends.       *)
(*                                                                         *)
(* Signals cancel a context nobody looks at before the goroutines run.     *)
(* One goroutine is ImageCache.Run; the other is the Omni library's Run,   *)
(* which works on several requests at once until it is cancelled or        *)
(* breaks.                                                                 *)
(***************************************************************************)
EXTENDS Naturals

CONSTANT Concurrency        \* infra.WithConcurrency

ASSUME ConcurrencyAssumption == Concurrency \in Nat \ {0}

VARIABLES
    phase,      \* what the main goroutine does
    code,       \* the exit code
    signalled,  \* SIGINT, SIGHUP or SIGTERM has been caught
    tick,       \* the channel of the cache's ticker holds a tick
    cache,      \* the cache goroutine: "off", "select", "cleanup", "returned"
    provider,   \* the provider goroutine: "off", "running", "broken", "returned", "failed"
    jobs        \* requests it is working on

vars == <<phase, code, signalled, tick, cache, provider, jobs>>

groupVars == <<signalled, tick, cache, provider, jobs>>

Init ==
    /\ phase = "config" /\ code = 0
    /\ signalled = FALSE
    /\ tick = FALSE /\ cache = "off" /\ provider = "off"
    /\ jobs = 0

-----------------------------------------------------------------------------
(* Start-up: each step can fail, and then the command returns its error;   *)
(* a signal is not looked at.                                              *)
Steps == {"config", "connect", "cacheDirs", "manager", "provider"}

Exit(c) == phase' = "exited" /\ code' = c /\ UNCHANGED groupVars

StartupFails == phase \in Steps /\ Exit(1)

Done(p, q) == phase = p /\ phase' = q /\ UNCHANGED <<code, groupVars>>

(* The flags, the configuration file and the URI in it. *)
ReadConfig == Done("config", "connect")

(* The provisioner's connection to libvirt, and libvirt's version over it. *)
Connect == Done("connect", "cacheDirs")

MakeCacheDirs == Done("cacheDirs", "manager")

(* The managers' own connection, and the version once more. *)
NewLibvirtManager == Done("manager", "provider")

(* infra.NewProvider, and the two goroutines are started. *)
StartGoroutines ==
    /\ phase = "provider"
    /\ phase' = "wait"
    /\ cache' = "select" /\ provider' = "running"
    /\ UNCHANGED <<code, signalled, tick, jobs>>

Startup ==
    \/ StartupFails \/ ReadConfig \/ Connect \/ MakeCacheDirs
    \/ NewLibvirtManager \/ StartGoroutines

-----------------------------------------------------------------------------
(* The error group *)

(* Mutant: a group without a context of its own. *)
CancelledMutant == signalled

(* The group's context ends with a signal and with the first error. *)
Cancelled == signalled \/ provider = "failed"

(* ImageCache.Run: its select takes any case that is ready. *)
Tick ==
    /\ cache \in {"select", "cleanup"} /\ ~tick
    /\ tick' = TRUE
    /\ UNCHANGED <<phase, code, signalled, cache, provider, jobs>>

Cleanup ==
    /\ cache = "select" /\ tick
    /\ cache' = "cleanup" /\ tick' = FALSE
    /\ UNCHANGED <<phase, code, signalled, provider, jobs>>

CleanupDone ==
    /\ cache = "cleanup"
    /\ cache' = "select"
    /\ UNCHANGED <<phase, code, signalled, tick, provider, jobs>>

(* Mutant: cancellation is only looked at when there is no tick. *)
CacheStopsMutant ==
    /\ cache = "select" /\ Cancelled /\ ~tick
    /\ cache' = "returned"
    /\ UNCHANGED <<phase, code, signalled, tick, provider, jobs>>

CacheStops ==
    /\ cache = "select" /\ Cancelled
    /\ cache' = "returned"
    /\ UNCHANGED <<phase, code, signalled, tick, provider, jobs>>

CacheGoroutine == Cleanup \/ CleanupDone \/ CacheStops

(* Provider.Run *)
(* Mutant: one request too many. *)
JobBeginsMutant ==
    /\ provider = "running" /\ ~Cancelled /\ jobs <= Concurrency
    /\ jobs' = jobs + 1
    /\ UNCHANGED <<phase, code, signalled, tick, cache, provider>>

JobBegins ==
    /\ provider = "running" /\ ~Cancelled /\ jobs < Concurrency
    /\ jobs' = jobs + 1
    /\ UNCHANGED <<phase, code, signalled, tick, cache, provider>>

JobEnds ==
    /\ jobs > 0
    /\ jobs' = jobs - 1
    /\ UNCHANGED <<phase, code, signalled, tick, cache, provider>>

ProviderBreaks ==
    /\ provider = "running"
    /\ provider' = "broken"
    /\ UNCHANGED <<phase, code, signalled, tick, cache, jobs>>

(* Cancelled, it returns nil or what the cancellation broke; broken, its   *)
(* error; in each case after the requests it was working on.               *)
ProviderReturns ==
    /\ provider \in {"running", "broken"} /\ jobs = 0
    /\ \/ Cancelled /\ provider = "running" /\ provider' = "returned"
       \/ (Cancelled \/ provider = "broken") /\ provider' = "failed"
    /\ UNCHANGED <<phase, code, signalled, tick, cache, jobs>>

(* Mutant: does not wait for the cache goroutine. *)
WaitMutant ==
    /\ phase = "wait" /\ provider \in {"returned", "failed"}
    /\ Exit(IF provider = "failed" THEN 1 ELSE 0)

(* Mutant: the error of the group is dropped. *)
WaitDropsError ==
    /\ phase = "wait"
    /\ cache = "returned" /\ provider \in {"returned", "failed"}
    /\ Exit(0)

(* eg.Wait returns, and main with it. *)
Wait ==
    /\ phase = "wait"
    /\ cache = "returned" /\ provider \in {"returned", "failed"}
    /\ Exit(IF provider = "failed" THEN 1 ELSE 0)

-----------------------------------------------------------------------------
(* The world around it *)

Signal ==
    /\ phase # "exited" /\ ~signalled
    /\ signalled' = TRUE
    /\ UNCHANGED <<phase, code, tick, cache, provider, jobs>>

Next ==
    \/ Startup
    \/ Tick \/ CacheGoroutine
    \/ JobBegins \/ JobEnds \/ ProviderBreaks \/ ProviderReturns
    \/ Wait
    \/ Signal

(* The goroutines run; calls to the network and to libvirt come back; Go's *)
(* select picks at random among the cases that are ready; a cancelled or   *)
(* broken Run returns.                                                     *)
Fairness ==
    /\ WF_vars(Startup) /\ WF_vars(CacheGoroutine) /\ SF_vars(CacheStops)
    /\ WF_vars(JobEnds) /\ WF_vars(ProviderReturns)
    /\ WF_vars(Wait)

Spec == Init /\ [][Next]_vars /\ Fairness
-----------------------------------------------------------------------------
(* Correctness *)

TypeOK ==
    /\ phase \in Steps \cup {"wait", "exited"}
    /\ code \in {0, 1}
    /\ signalled \in BOOLEAN /\ tick \in BOOLEAN
    /\ cache \in {"off", "select", "cleanup", "returned"}
    /\ provider \in {"off", "running", "broken", "returned", "failed"}
    /\ jobs \in 0..Concurrency

(* "this blocks until all goroutines are done" (main.go:164): the process  *)
(* does not end in the middle of a request or of a cleanup pass.           *)
NothingCutOff ==
    phase = "exited" => jobs = 0 /\ cache \in {"off", "returned"}

(* The exit code is 0 only for a process that ran, was told to stop, and   *)
(* whose goroutines both ended well.                                       *)
ExitCodeTells ==
    phase = "exited" => (code = 0 <=> signalled /\ provider = "returned")

(* A signal ends the process, whatever it is doing: during start-up, in    *)
(* the middle of a cleanup pass, with requests being worked on.            *)
SignalEnds == signalled ~> phase = "exited"

(* A goroutine that breaks ends the other one, and the process with code   *)
(* 1, so that whoever started it can see it.                               *)
BreakEnds == provider = "broken" ~> phase = "exited" /\ code = 1
=============================================================================
