---------------------------- MODULE MCAllReduce ----------------------------
(***************************************************************************)
(* Values for the checks of AllReduceEngine: a call of one segment, and a    *)
(* call of two segments followed by a call of one.                         *)
(***************************************************************************)
EXTENDS AllReduceEngine
OneCall == {1}
TwoSegmentsThenOne == {2, 3}
LocalOnly == {"local"}

(***************************************************************************)
(* The ring is the same seen from every rank (only the relay of an abort   *)
(* follows the numbers of the ranks), so the run with three of them        *)
(* explores the behaviours in which rank 0 is the first to leave.          *)
(***************************************************************************)
RankZeroLeavesFirst ==
  (\E r \in Ranks : st[r] \in Finished) => st[0] \in Finished
=============================================================================
