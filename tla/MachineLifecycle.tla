-------------------------- MODULE MachineLifecycle --------------------------
(***************************************************************************)
(* What the provider promises for a machine request, with none of its      *)
(* steps: a machine is installed only when everything it needs is there,   *)
(* it keeps that for as long as it exists, and a request that is being     *)
(* removed is never built again; its machine goes first, its parts after.  *)
(*                                                                         *)
(* Requests are independent of each other, and one step of the host or a   *)
(* restart of the provider may move several of them: each by the contract. *)
(***************************************************************************)
CONSTANTS
    Machines,
    Parts,      \* what a machine may leave on the host
    Needed,     \* the parts it needs to exist
    Firmware    \* the part that comes with running it, not a needed one

VARIABLES
    life,       \* life[m]: "building", "ready", "failed", "removing", "gone"
    machine,    \* machine[m]: "none", "off", "on"
    parts       \* parts[m]: the complete parts of m on the host

vars == <<life, machine, parts>>

Init ==
    /\ life = [m \in Machines |-> "building"]
    /\ machine = [m \in Machines |-> "none"]
    /\ parts = [m \in Machines |-> {}]

(* Where a request goes. *)
Becomes(m, from, to) == life[m] = from /\ life'[m] = to

Lives(m) ==
    \/ life'[m] = life[m]
    \/ Becomes(m, "building", "ready") /\ machine[m] # "none"
    \/ Becomes(m, "building", "failed")
    \/ Becomes(m, "failed", "building")
    \/ life[m] # "gone" /\ life'[m] = "removing"
    \/ Becomes(m, "removing", "gone") /\ machine[m] = "none" /\ Firmware \notin parts[m]

(* What may happen to its machine and parts on the host. *)
Machine(m, from, to) == machine[m] = from /\ machine'[m] = to

Rest(m) == machine'[m] = machine[m] /\ parts'[m] = parts[m]

Prepare(m) ==
    /\ life[m] = "building" /\ Machine(m, "none", "none")
    /\ parts'[m] \in SUBSET (Parts \ {Firmware})

Install(m) ==
    /\ life[m] = "building" /\ Machine(m, "none", "off")
    /\ Needed \subseteq parts[m] /\ parts'[m] = parts[m]

PowerOn(m) ==
    /\ life[m] = "building" /\ Machine(m, "off", "on")
    /\ parts'[m] = parts[m] \cup {Firmware}

PowerOff(m) == Machine(m, "on", "off") /\ parts'[m] = parts[m]

Uninstall(m) ==
    /\ life[m] = "removing" /\ Machine(m, "off", "none")
    /\ parts'[m] = parts[m] \ {Firmware}

DropFirmware(m) ==
    /\ life[m] = "removing" /\ machine'[m] = machine[m]
    /\ parts'[m] = parts[m] \ {Firmware}

Discard(m) ==
    /\ life[m] = "removing" /\ Machine(m, "none", "none")
    /\ parts'[m] \in SUBSET parts[m]

Hosted(m) ==
    \/ Rest(m) \/ Prepare(m) \/ Install(m) \/ PowerOn(m) \/ PowerOff(m)
    \/ Uninstall(m) \/ DropFirmware(m) \/ Discard(m)

Contract(m) == Lives(m) /\ Hosted(m)

Functions ==
    /\ life' = [m \in Machines |-> life'[m]]
    /\ machine' = [m \in Machines |-> machine'[m]]
    /\ parts' = [m \in Machines |-> parts'[m]]

Next == Functions /\ \A m \in Machines : Contract(m)

Spec == Init /\ [][Next]_vars
=============================================================================
