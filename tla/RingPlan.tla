------------------------------ MODULE RingPlan ------------------------------
(***************************************************************************)
(* The ring all-reduce plan of gemsim_ccl as pure operators: who talks to  *)
(* whom, which chunk travels at which step, where a chunk lies in a        *)
(* segment, and how one tensor is cut into descriptor-sized segments.      *)
(* The planner itself is native code; the acceptance tool restates it as   *)
(* independent_plan and compares the two step by step.                     *)
(*                                                                         *)
(* The operators named ...OffByOne, ...RoundedDown and the like, here and  *)
(* in the other modules, stand before the definition they are a plausible  *)
(* mistake in; no specification uses them.                                 *)
(***************************************************************************)
EXTENDS Integers, Sequences

RanksOf(world) == 0 .. world - 1

(***************************************************************************)
(* Ring order: every rank sends to its successor and receives from its     *)
(* predecessor in both phases.                                             *)
(***************************************************************************)
NextRank(world, r) == (r + 1) % world
PrevRank(world, r) == (r + world - 1) % world

(***************************************************************************)
(* 2 * (world - 1) steps, the first world - 1 of them reduce-scatter.      *)
(***************************************************************************)
StepCountOfOnePhase(world) == world - 1
StepCount(world) == 2 * (world - 1)
InReduceScatterOffByOne(world, k) == k <= world - 1
InReduceScatter(world, k) == k < world - 1
PhaseStep(world, k) == IF InReduceScatter(world, k) THEN k ELSE k - (world - 1)

SendChunk(world, r, k) ==
  IF InReduceScatter(world, k)
    THEN (r + world - PhaseStep(world, k) - 1) % world
    ELSE (r + world - PhaseStep(world, k)) % world

ReceiveChunkOfReduceScatter(world, r, k) ==
  (r + world - PhaseStep(world, k) - 2) % world
ReceiveChunk(world, r, k) ==
  IF InReduceScatter(world, k)
    THEN (r + world - PhaseStep(world, k) - 2) % world
    ELSE (r + world - PhaseStep(world, k) - 1) % world

(***************************************************************************)
(* Chunk c of a segment of total elements: the first total % world chunks  *)
(* hold one element more than the others, and some may hold none.          *)
(***************************************************************************)
ChunkOffset(total, world, c) ==
  LET remainder == total % world
  IN  c * (total \div world) + (IF c < remainder THEN c ELSE remainder)
ChunkLength(total, world, c) ==
  (total \div world) + (IF c < total % world THEN 1 ELSE 0)
ChunkElements(total, world, c) ==
  ChunkOffset(total, world, c) ..
    ChunkOffset(total, world, c) + ChunkLength(total, world, c) - 1

(***************************************************************************)
(* The segments of one all-reduce of count elements that starts at         *)
(* sequence first: at most limit elements each, consecutive sequences.     *)
(***************************************************************************)
SegmentCount(count, limit) == (count + limit - 1) \div limit
PlanSegments(count, limit, first) ==
  [i \in 1 .. SegmentCount(count, limit) |->
     [sequence |-> first + i - 1,
      offset   |-> (i - 1) * limit,
      length   |-> IF limit < count - (i - 1) * limit
                     THEN limit ELSE count - (i - 1) * limit]]
=============================================================================
