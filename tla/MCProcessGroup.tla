--------------------------- MODULE MCProcessGroup ---------------------------
(***************************************************************************)
(* A program for the check of ProcessGroup: two barriers around and        *)
(* between all-reduces.                                                    *)
(***************************************************************************)
EXTENDS ProcessGroup
ReduceBarrierTwice == <<"allreduce", "barrier", "allreduce", "barrier">>
=============================================================================
