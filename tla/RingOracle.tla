----------------------------- MODULE RingOracle -----------------------------
(***************************************************************************)
(* The lock-step execution of the ring plan that the acceptance tool uses  *)
(* as its numeric oracle (ring_oracle): segment by segment, all ranks      *)
(* exchange one chunk per step.  A value is the sequence of the ranks      *)
(* whose contributions it holds, in the order they were added: addition of *)
(* bfloat16 or float32 values is not associative, so the order is part of  *)
(* the result.  It is commutative, so the partial sum that is received may *)
(* stand first whichever operand the code names first.                     *)
(***************************************************************************)
EXTENDS RingPlan, FiniteSets

CONSTANTS Worlds,        \* world sizes to execute
          ElementCounts, \* tensor sizes to execute
          SegmentLimit   \* elements in the largest segment

ASSUME OracleAssumption ==
  /\ Worlds \subseteq Nat \ {0, 1}
  /\ ElementCounts \subseteq Nat \ {0}
  /\ SegmentLimit \in Nat \ {0}

VARIABLES world,      \* number of ranks of this execution
          count,      \* elements of the tensor
          segment,    \* index of the segment being reduced
          ordinal,    \* next step of the plan
          workspaces, \* workspaces[r][e]: value of element e of the segment
          outputs     \* outputs[r]: concatenated finished segments

vars == <<world, count, segment, ordinal, workspaces, outputs>>

Segments == PlanSegments(count, SegmentLimit, 1)
Length(i) == Segments[i].length
Inputs(i) == [r \in RanksOf(world) |->
                [e \in 0 .. Length(i) - 1 |-> <<r>>]]

Init ==
  /\ world \in Worlds
  /\ count \in ElementCounts
  /\ segment = 1
  /\ ordinal = 0
  /\ workspaces = Inputs(1)
  /\ outputs = [r \in RanksOf(world) |-> <<>>]

(***************************************************************************)
(* One step of one rank: the elements of its receive chunk take the sum    *)
(* with, or a copy of, what the predecessor held before the step.          *)
(***************************************************************************)
Delivered(r) ==
  LET source == PrevRank(world, r)
      chunk  == ReceiveChunk(world, r, ordinal)
      sent   == SendChunk(world, source, ordinal)
      shift  == ChunkOffset(Length(segment), world, sent)
                  - ChunkOffset(Length(segment), world, chunk)
  IN  [e \in DOMAIN workspaces[r] |->
         IF e \notin ChunkElements(Length(segment), world, chunk)
           THEN workspaces[r][e]
         ELSE IF InReduceScatter(world, ordinal)
           THEN workspaces[source][e + shift] \o workspaces[r][e]
           ELSE workspaces[source][e + shift]]

ExecuteStep ==
  /\ segment <= Len(Segments)
  /\ ordinal < StepCount(world)
  /\ workspaces' = [r \in RanksOf(world) |-> Delivered(r)]
  /\ ordinal' = ordinal + 1
  /\ UNCHANGED <<world, count, segment, outputs>>

(***************************************************************************)
(* The segment is finished: its values join the outputs and the next       *)
(* segment, if any, starts from the inputs.                                *)
(***************************************************************************)
FinishSegment ==
  /\ segment <= Len(Segments)
  /\ ordinal = StepCount(world)
  /\ outputs' = [r \in RanksOf(world) |->
                   outputs[r] \o [i \in 1 .. Length(segment) |->
                                    workspaces[r][i - 1]]]
  /\ segment' = segment + 1
  /\ ordinal' = 0
  /\ workspaces' = IF segment = Len(Segments)
                     THEN [r \in RanksOf(world) |-> <<>>]
                     ELSE Inputs(segment + 1)
  /\ UNCHANGED <<world, count>>

Done == segment > Len(Segments) /\ UNCHANGED vars

Next == ExecuteStep \/ FinishSegment \/ Done
Spec == Init /\ [][Next]_vars

-----------------------------------------------------------------------------
(***************************************************************************)
(* The contribution order of a chunk: it starts at the successor of the    *)
(* chunk's owner and follows the ring once.                                *)
(***************************************************************************)
RingOrder(c) == [i \in 1 .. world |-> (c + i) % world]
ChunkOf(length, e) ==
  CHOOSE c \in RanksOf(world) : e \in ChunkElements(length, world, c)

(***************************************************************************)
(* Every element of every rank's output is the sum of exactly one          *)
(* contribution of each rank, and of the same bits on all ranks because it *)
(* was added in the ring order of its chunk (the numeric contract of       *)
(* ENGINEERING_CONSTRAINTS.md and the acceptance rule "all ranks exact and *)
(* same result SHA").                                                      *)
(***************************************************************************)
OracleSumsEveryRankOnce ==
  segment > Len(Segments) =>
    \A r \in RanksOf(world) :
      /\ Len(outputs[r]) = count
      /\ \A i \in 1 .. Len(Segments) : \A e \in 0 .. Length(i) - 1 :
           outputs[r][Segments[i].offset + e + 1]
             = RingOrder(ChunkOf(Length(i), e))

(***************************************************************************)
(* No step adds a contribution a value already holds: a partial sum never  *)
(* counts one rank twice, also in the middle of the plan.                  *)
(***************************************************************************)
NoContributionTwice ==
  \A r \in RanksOf(world) : \A e \in DOMAIN workspaces[r] :
    \A i, j \in DOMAIN workspaces[r][e] :
      workspaces[r][e][i] = workspaces[r][e][j] => i = j

(***************************************************************************)
(* What a rank sends at a step is what its successor expects to receive,   *)
(* to the element ("planner peer symmetry mismatch" in validate_design,    *)
(* "oracle planner peer delivery mismatch" in ring_oracle).                *)
(***************************************************************************)
PlannerPeerSymmetry ==
  segment <= Len(Segments) =>
    \A r \in RanksOf(world) : \A k \in 0 .. StepCount(world) - 1 :
      LET peer == NextRank(world, r)
      IN  /\ PrevRank(world, peer) = r
          /\ ChunkElements(Length(segment), world, SendChunk(world, r, k))
               = ChunkElements(Length(segment), world, ReceiveChunk(world, peer, k))

=============================================================================
