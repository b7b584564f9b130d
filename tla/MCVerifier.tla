----------------------------- MODULE MCVerifier -----------------------------
(***************************************************************************)
(* Instances of Verifier for TLC.                                          *)
(***************************************************************************)
EXTENDS Verifier, TLC

(* The Pods that are not there yet are interchangeable. *)
PodSymmetry == Permutations(UIDs \ {OriginalUID})

=============================================================================
