--------------------------- MODULE MCLiveRegistry ---------------------------
(***************************************************************************)
(* The readers of a live registry are alike: neither the publisher nor any *)
(* property tells one from another.                                        *)
(***************************************************************************)
EXTENDS LiveRegistry, TLC
Symmetry == Permutations(Readers)
=============================================================================
