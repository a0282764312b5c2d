---------------------------- MODULE MCImageCache ----------------------------
(***************************************************************************)
(* The instances of ImageCache that TLC checks.                            *)
(***************************************************************************)
EXTENDS ImageCache, TLC

(* images.go:46 says of lastUsed: "Reset whenever Acquire() is called on a *)
(* given image key".  So when Acquire returns an image, the map has an     *)
(* entry for it.                                                           *)
AcquireResetsLastUsed ==
    [][\A w \in Workers : (pc[w] # "using" /\ pc'[w] = "using") => key[w] \in lastUsed']_vars

Symmetry == Permutations(Workers) \cup Permutations(Keys) \cup Permutations(Temps)
=============================================================================
