---------------------------- MODULE MCRingOracle ----------------------------
(***************************************************************************)
(* Every world size up to 8 and the odd 15, tensors with fewer elements    *)
(* than ranks, as many, and more, in one to three segments.                *)
(***************************************************************************)
EXTENDS RingOracle
MCWorlds == 2 .. 8 \cup {15}
MCElementCounts == 1 .. 11
=============================================================================
