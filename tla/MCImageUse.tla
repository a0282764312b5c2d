----------------------------- MODULE MCImageUse -----------------------------
(***************************************************************************)
(* Two requests for the same image.                                        *)
(***************************************************************************)
EXTENDS ImageUse, TLC

CONSTANT k1

SameImage == [m \in Machines |-> k1]
NoDisks == <<>>
OneBridged == <<TRUE>>
AnyHost == {Pools, Pools \ {"isos"}, Pools \ {"data"}}
Symmetry == Permutations(Machines)
=============================================================================
