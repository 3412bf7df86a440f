------------------------- MODULE ProcessGroupProofs -------------------------
(***************************************************************************)
(* Theorems about ProcessGroup, for any world size, program, number of     *)
(* tensors, constructions and faults.                                      *)
(***************************************************************************)
EXTENDS ProcessGroup, FiniteSetTheorems, SequenceTheorems, TLAPS

-----------------------------------------------------------------------------
(***************************************************************************)
(* Counting the calls of a program.                                        *)
(***************************************************************************)
Length == Len(Program)
Reduces(i) == Before(i, "allreduce")
Meets(i) == Before(i, "barrier")

LEMMA Constants ==
  /\ Length \in Nat /\ Calls = 1 .. Length /\ Tensors \in Nat /\ Tensors > 0
  /\ World \in Nat /\ World > 1 /\ FaultBudget \in Nat
  /\ \A i \in Calls : Program[i] \in {"allreduce", "barrier"}
<1>1. Program \in Seq({"allreduce", "barrier"})
  BY ProcessGroupAssumption
<1>2. Length \in Nat /\ \A i \in 1 .. Length : Program[i] \in {"allreduce", "barrier"}
  BY <1>1, LenProperties, ElementOfSeq DEF Length
<1>3. Tensors \in Nat /\ Tensors # 0 /\ World \in Nat /\ World # 0 /\ World # 1 /\ FaultBudget \in Nat
  BY ProcessGroupAssumption
<1> QED
  BY <1>2, <1>3 DEF Calls, Length

LEMMA BeforeIsNat ==
  ASSUME NEW i \in 1 .. Length + 1, NEW kind
  PROVE  Before(i, kind) \in Nat
<1>1. IsFiniteSet(1 .. i - 1)
  BY Constants, FS_Interval
<1>2. {j \in 1 .. i - 1 : Program[j] = kind} \in SUBSET (1 .. i - 1)
  OBVIOUS
<1> QED
  BY <1>1, <1>2, FS_Subset, FS_CardinalityType DEF Before

LEMMA BeforeNext ==
  ASSUME NEW i \in Calls, NEW kind
  PROVE  Before(i + 1, kind) = Before(i, kind) + (IF Program[i] = kind THEN 1 ELSE 0)
<1> DEFINE S(k) == {j \in 1 .. k - 1 : Program[j] = kind}
<1>1. i \in Nat /\ i > 0 /\ i \in 1 .. Length + 1
  BY Constants
<1>2. IsFiniteSet(S(i))
  <2>1. IsFiniteSet(1 .. i - 1)
    BY <1>1, FS_Interval
  <2>2. S(i) \in SUBSET (1 .. i - 1)
    OBVIOUS
  <2> QED
    BY <2>1, <2>2, FS_Subset
<1>3. i \notin S(i)
  BY <1>1
<1>4. S(i + 1) = IF Program[i] = kind THEN S(i) \cup {i} ELSE S(i)
  <2>1. \A j : j \in 1 .. (i + 1) - 1 <=> j \in 1 .. i - 1 \/ j = i
    BY <1>1
  <2> QED
    BY <1>3, <2>1
<1>5. Cardinality(S(i)) \in Nat
  BY <1>1, BeforeIsNat DEF Before
<1>6. Cardinality(S(i) \cup {i}) = Cardinality(S(i)) + 1
  BY <1>2, <1>3, FS_AddElement
<1> QED
  BY <1>4, <1>5, <1>6 DEF Before

LEMMA BeforeGrows ==
  ASSUME NEW i \in 1 .. Length + 1, NEW j \in 1 .. Length + 1, i <= j, NEW kind
  PROVE  Before(i, kind) <= Before(j, kind)
<1>1. IsFiniteSet(1 .. j - 1)
  BY Constants, FS_Interval
<1>2. {k \in 1 .. j - 1 : Program[k] = kind} \in SUBSET (1 .. j - 1)
  OBVIOUS
<1>3. IsFiniteSet({k \in 1 .. j - 1 : Program[k] = kind})
  BY <1>1, <1>2, FS_Subset
<1>4. {k \in 1 .. i - 1 : Program[k] = kind} \in SUBSET {k \in 1 .. j - 1 : Program[k] = kind}
  BY Constants
<1> QED
  BY <1>3, <1>4, FS_Subset DEF Before

LEMMA Products ==
  ASSUME NEW i \in 1 .. Length + 1
  PROVE  /\ Reduces(i) * Tensors \in Nat
         /\ (Reduces(i) + 1) * Tensors = Reduces(i) * Tensors + Tensors
<1>1. Reduces(i) \in Nat /\ Tensors \in Nat
  BY Constants, BeforeIsNat DEF Reduces
<1> QED
  BY <1>1

\* What Return gives a caller is as long as it says.
LEMMA ResultLength ==
  ASSUME NEW n \in Nat
  PROVE  /\ [i \in 1 .. n |-> Ranks] \in Seq({Ranks})
         /\ Len([i \in 1 .. n |-> Ranks]) = n
OBVIOUS

-----------------------------------------------------------------------------
(***************************************************************************)
(* The inductive invariant.                                                *)
(***************************************************************************)
Types ==
  /\ at \in [Ranks -> Places] /\ call \in [Ranks -> 1 .. Length + 1]
  /\ claimed \in [Ranks -> BOOLEAN] /\ stray \in [Ranks -> BOOLEAN]
  /\ fd \in [Ranks -> {"capability", "free", "reused"}]
  /\ outputs \in [Ranks -> Nat] /\ copied \in [Ranks -> Nat]
  /\ public \in [Ranks -> [Calls -> Nat]]
  /\ barrier \in [Ranks -> Nat] /\ entered \in [Ranks -> Nat]
  /\ results \in [Ranks -> Seq({Ranks})]
  /\ arrived \in [Barriers -> Nat] /\ complete \subseteq Barriers

Quiet == {"new", "build", "join", "joined", "ready"}
Reducing == {"reduce", "check", "commit"}
Meeting == {"arrive", "complete", "wait"}

\* Where a rank is, it is in a call of that kind.
InCall(r) ==
  /\ at[r] \in Reducing => call[r] \in Calls /\ Program[call[r]] = "allreduce"
  /\ at[r] \in Meeting => call[r] \in Calls /\ Program[call[r]] = "barrier"

\* The capability is the rank's until it is closed, which takes a claim.
Owns(r) ==
  /\ ~stray[r]
  /\ ~claimed[r] /\ at[r] # "dead" => fd[r] = "capability"
  /\ at[r] \in {"build", "join", "joined"} => claimed[r] /\ fd[r] = "capability"
  /\ at[r] = "closed" /\ claimed[r] => fd[r] # "capability"

\* The engine has one sequence for each tensor of the calls so far.
Base(r) == Reduces(call[r]) * Tensors
Sums(r) ==
  /\ Base(r) <= entered[r] /\ Len(results[r]) <= entered[r]
  /\ at[r] \in Quiet \cup Meeting => entered[r] = Base(r) /\ Len(results[r]) = Base(r)
  /\ at[r] = "reduce" =>
       /\ outputs[r] < Tensors /\ Len(results[r]) = Base(r) + outputs[r]
       /\ entered[r] \in {Base(r) + outputs[r], Base(r) + outputs[r] + 1}
  /\ at[r] \in {"check", "commit"} =>
       /\ entered[r] = Base(r) + Tensors /\ Len(results[r]) = Base(r) + Tensors
       /\ \A q \in Ranks : entered[q] >= Base(r) + Tensors

\* What was written to the caller's tensors.
Writes(r) ==
  /\ \A i \in Calls : i < call[r] /\ Program[i] = "allreduce" => public[r][i] = Tensors
  /\ \A i \in Calls : i > call[r] => public[r][i] = 0
  /\ call[r] \in Calls /\ at[r] \notin {"commit", "dead"} => public[r][call[r]] = 0
  /\ at[r] = "commit" => public[r][call[r]] = copied[r] /\ copied[r] < Tensors
  /\ at[r] \in {"reduce", "check"} => copied[r] = 0
  /\ \A i \in Calls : public[r][i] # 0 =>
       \A q \in Ranks : entered[q] >= Reduces(i) * Tensors + Tensors

\* The sequence a barrier uses is the number of the barriers before it.
Numbered(r) ==
  /\ Meets(call[r]) <= barrier[r] /\ barrier[r] <= Meets(call[r]) + 1
  /\ at[r] \in Quiet \cup Reducing => barrier[r] = Meets(call[r])
  /\ at[r] \in Meeting => barrier[r] = Meets(call[r]) + 1
  /\ barrier[r] = Meets(call[r]) + 1 => call[r] \in Calls /\ Program[call[r]] = "barrier"

RankInv(r) == InCall(r) /\ Owns(r) /\ Sums(r) /\ Writes(r) /\ Numbered(r)

\* The store counts no rank that has not arrived, and a barrier completes when
\* every rank has entered it.
Counted(s) == {q \in Ranks : barrier[q] > s /\ ~(at[q] = "arrive" /\ barrier[q] = s + 1)}
Entered(s) == \A q \in Ranks : barrier[q] > s
StoreInv ==
  /\ \A s \in Barriers : arrived[s] <= Cardinality(Counted(s))
  /\ \A r \in Ranks : at[r] = "complete" => Entered(barrier[r] - 1)
  /\ \A s \in complete : Entered(s)
  /\ \A r \in Ranks : \A i \in Calls :
       i < call[r] /\ Program[i] = "barrier" => Entered(Meets(i))

GroupInv == Types /\ StoreInv /\ \A r \in Ranks : RankInv(r)

-----------------------------------------------------------------------------
(***************************************************************************)
(* A step is one rank's, and the others see only engines that go on.       *)
(***************************************************************************)
Moves(r) == Step(r) \/ NumberReused(r) \/ Dies(r)

\* What RankInv says of a rank.
Own(q) == <<at[q], call[q], claimed[q], fd[q], stray[q], outputs[q], copied[q], public[q],
            barrier[q], entered[q], results[q]>>
Forward == \A q \in Ranks : entered[q] <= entered'[q] /\ barrier[q] <= barrier'[q]

\* What a step of a rank may write.
Written(r) ==
  /\ at' = at \/ \E place \in Places : at' = [at EXCEPT ![r] = place]
  /\ \/ call' = call
     \/ at[r] \in {"commit", "wait"} /\ call' = [call EXCEPT ![r] = @ + 1]
  /\ claimed' = claimed \/ claimed' = [claimed EXCEPT ![r] = TRUE]
  /\ fd' = fd \/ \E number \in {"free", "reused"} : fd' = [fd EXCEPT ![r] = number]
  /\ stray' = stray \/ stray' = [stray EXCEPT ![r] = @ \/ fd[r] # "capability"]
  /\ outputs' \in {outputs, [outputs EXCEPT ![r] = 0], [outputs EXCEPT ![r] = @ + 1]}
  /\ copied' \in {copied, [copied EXCEPT ![r] = 0], [copied EXCEPT ![r] = @ + 1]}
  /\ public' = public \/ public' = [public EXCEPT ![r][call[r]] = @ + 1]
  /\ barrier' \in {barrier, [barrier EXCEPT ![r] = @ + 1]}
  /\ entered' \in {entered, [entered EXCEPT ![r] = @ + 1]}
  /\ results' \in {results, [results EXCEPT ![r] = [i \in 1 .. entered[r] |-> Ranks]]}
  /\ \/ arrived' = arrived
     \/ at[r] = "arrive" /\ arrived' = [arrived EXCEPT ![Sequence(r)] = @ + 1]
  /\ \/ complete' = complete
     \/ at[r] = "complete" /\ complete' = complete \cup {Sequence(r)}

USE DEF Moves, Step, Claim, BuildRaises, Transfer, JoinRaises, JoinRank, JoinedRaises, Constructed,
   AllReduce, AllReduceRefused, ReduceTensor, TensorReduced, ReduceRaises, CheckPasses, CheckRaises,
   CommitTensor, Barrier, Arrive, SetComplete, Released, WaitRaises, Shutdown, Abort, ConstructAgain,
   NumberReused, Dies, End, CloseNumber, Goto, Engine!Contribute, Engine!Return, Engine!Leave,
   processVars, claimVars, callVars, engineVars, storeVars

LEMMA WrittenByStep ==
  ASSUME Types, NEW r \in Ranks, Moves(r)
  PROVE  Written(r)
<1>1. at' = at \/ \E place \in Places : at' = [at EXCEPT ![r] = place]
  BY DEF Places
<1>2. \/ call' = call
      \/ at[r] \in {"commit", "wait"} /\ call' = [call EXCEPT ![r] = @ + 1]
  OBVIOUS
<1>3. claimed' = claimed \/ claimed' = [claimed EXCEPT ![r] = TRUE]
  OBVIOUS
<1>4. fd' = fd \/ \E number \in {"free", "reused"} : fd' = [fd EXCEPT ![r] = number]
  OBVIOUS
<1>5. stray' = stray \/ stray' = [stray EXCEPT ![r] = @ \/ fd[r] # "capability"]
  OBVIOUS
<1>6. outputs' \in {outputs, [outputs EXCEPT ![r] = 0], [outputs EXCEPT ![r] = @ + 1]}
  OBVIOUS
<1>7. copied' \in {copied, [copied EXCEPT ![r] = 0], [copied EXCEPT ![r] = @ + 1]}
  OBVIOUS
<1>8. public' = public \/ public' = [public EXCEPT ![r][call[r]] = @ + 1]
  OBVIOUS
<1>9. barrier' \in {barrier, [barrier EXCEPT ![r] = @ + 1]}
  OBVIOUS
<1>10. entered' \in {entered, [entered EXCEPT ![r] = @ + 1]}
  OBVIOUS
<1>11. results' \in {results, [results EXCEPT ![r] = [i \in 1 .. entered[r] |-> Ranks]]}
  OBVIOUS
<1>12. \/ arrived' = arrived
       \/ at[r] = "arrive" /\ arrived' = [arrived EXCEPT ![Sequence(r)] = @ + 1]
  OBVIOUS
<1>13. \/ complete' = complete
       \/ at[r] = "complete" /\ complete' = complete \cup {Sequence(r)}
  OBVIOUS
<1> HIDE DEF Moves
<1> QED
  BY <1>1, <1>2, <1>3, <1>4, <1>5, <1>6, <1>7, <1>8, <1>9, <1>10, <1>11, <1>12, <1>13 DEF Written

HIDE DEF Moves, Step, Claim, BuildRaises, Transfer, JoinRaises, JoinRank, JoinedRaises, Constructed,
   AllReduce, AllReduceRefused, ReduceTensor, TensorReduced, ReduceRaises, CheckPasses, CheckRaises,
   CommitTensor, Barrier, Arrive, SetComplete, Released, WaitRaises, Shutdown, Abort, ConstructAgain,
   NumberReused, Dies, End, CloseNumber, Goto, Engine!Contribute, Engine!Return, Engine!Leave,
   processVars, claimVars, callVars, engineVars, storeVars

LEMMA OthersUnmoved ==
  ASSUME Types, NEW r \in Ranks, Moves(r), NEW q \in Ranks, q # r
  PROVE  Own(q)' = Own(q)
<1>0. Written(r)
  BY WrittenByStep
<1>1. at'[q] = at[q] /\ call'[q] = call[q] /\ claimed'[q] = claimed[q]
  BY <1>0 DEF Types, Written
<1>2. fd'[q] = fd[q] /\ stray'[q] = stray[q]
  BY <1>0 DEF Types, Written
<1>3. outputs'[q] = outputs[q] /\ copied'[q] = copied[q]
  BY <1>0 DEF Types, Written
<1>4. public'[q] = public[q]
  BY <1>0 DEF Types, Written
<1>5. barrier'[q] = barrier[q] /\ entered'[q] = entered[q]
  BY <1>0 DEF Types, Written
<1>6. results'[q] = results[q]
  BY <1>0 DEF Types, Written
<1> QED
  BY <1>1, <1>2, <1>3, <1>4, <1>5, <1>6 DEF Own

LEMMA GoesForward ==
  ASSUME Types, NEW r \in Ranks, Moves(r)
  PROVE  Forward
<1>1. entered \in [Ranks -> Nat] /\ barrier \in [Ranks -> Nat]
  BY DEF Types
<1>0. Written(r)
  BY WrittenByStep
<1>2. ASSUME NEW q \in Ranks
      PROVE  entered[q] <= entered'[q]
  BY <1>1, <1>0 DEF Written
<1>3. ASSUME NEW q \in Ranks
      PROVE  barrier[q] <= barrier'[q]
  BY <1>1, <1>0 DEF Written
<1> QED
  BY <1>2, <1>3 DEF Forward

\* A rank that does not move keeps its part of the invariant.
LEMMA RankKept ==
  ASSUME Types, Types', Forward, NEW q \in Ranks, RankInv(q), Own(q)' = Own(q)
  PROVE  RankInv(q)'
<1>1. /\ at'[q] = at[q] /\ call'[q] = call[q] /\ claimed'[q] = claimed[q] /\ fd'[q] = fd[q]
      /\ stray'[q] = stray[q] /\ outputs'[q] = outputs[q] /\ copied'[q] = copied[q]
      /\ public'[q] = public[q] /\ barrier'[q] = barrier[q] /\ entered'[q] = entered[q]
      /\ results'[q] = results[q]
  BY DEF Own
<1>2. InCall(q)' /\ Owns(q)' /\ Numbered(q)'
  BY <1>1 DEF RankInv, InCall, Owns, Numbered
<1>3. call[q] \in 1 .. Length + 1 /\ Base(q) \in Nat /\ Base(q)' = Base(q) /\ Tensors \in Nat
  BY <1>1, Products, Constants DEF Types, Base
<1>4. \A x \in Ranks : entered[x] \in Nat /\ entered'[x] \in Nat /\ entered[x] <= entered'[x]
  BY DEF Types, Forward
<1>5. Sums(q)'
  <2>1. at[q] \in {"check", "commit"} => \A x \in Ranks : entered'[x] >= Base(q) + Tensors
    BY <1>3, <1>4 DEF RankInv, Sums
  <2> QED
    BY <1>1, <1>3, <2>1 DEF RankInv, Sums
<1>6. Writes(q)'
  <2>1. ASSUME NEW i \in Calls, public[q][i] # 0, NEW x \in Ranks
        PROVE  entered'[x] >= Reduces(i) * Tensors + Tensors
    <3>1. i \in 1 .. Length + 1
      BY Constants
    <3>2. Reduces(i) * Tensors \in Nat
      BY <3>1, Products
    <3> QED
      BY <1>3, <1>4, <2>1, <3>2 DEF RankInv, Writes
  <2> QED
    BY <1>1, <2>1 DEF RankInv, Writes
<1> QED
  BY <1>2, <1>5, <1>6 DEF RankInv

-----------------------------------------------------------------------------
(***************************************************************************)
(* The rank that moves.  Most moves only go elsewhere.                     *)
(***************************************************************************)
\* What the invariant needs of a rank's variables.
LEMMA OfRank ==
  ASSUME Types, NEW r \in Ranks
  PROVE  /\ at[r] \in Places /\ call[r] \in 1 .. Length + 1
         /\ outputs[r] \in Nat /\ copied[r] \in Nat /\ public[r] \in [Calls -> Nat]
         /\ barrier[r] \in Nat /\ entered[r] \in Nat /\ Len(results[r]) \in Nat
         /\ Base(r) \in Nat /\ Meets(call[r]) \in Nat
<1>1. results[r] \in Seq({Ranks})
  BY DEF Types
<1>2. Len(results[r]) \in Nat
  BY <1>1, LenProperties
<1>3. call[r] \in 1 .. Length + 1
  BY DEF Types
<1>4. Base(r) \in Nat /\ Meets(call[r]) \in Nat
  BY <1>3, Products, BeforeIsNat DEF Base, Meets
<1>5. /\ at[r] \in Places /\ outputs[r] \in Nat /\ copied[r] \in Nat
      /\ public[r] \in [Calls -> Nat] /\ barrier[r] \in Nat /\ entered[r] \in Nat
  BY DEF Types
<1> QED
  BY <1>2, <1>3, <1>4, <1>5

\* From one place to another of the same call, or out of the program.
Goes(from, to) ==
  \/ from \notin {"commit", "dead"} /\ to \in {"raised", "closed"}
  \/ to = "dead"
  \/ from \in {"new", "build", "join", "joined"} /\ to \in Quiet
  \/ from = "check" /\ to = "commit"
  \/ from \in Meeting /\ to \in Meeting

\* All of the invariant but the capability.
Works(r) == InCall(r) /\ Sums(r) /\ Writes(r) /\ Numbered(r)

LEMMA PlaceChanges ==
  ASSUME Types, NEW r \in Ranks, Works(r), NEW to, Goto(r, to), Goes(at[r], to),
         UNCHANGED <<call, outputs, copied, public, barrier, entered, results>>
  PROVE  Works(r)'
<1>1. at'[r] = to
  BY DEF Types, Goto
<1>2. /\ call'[r] = call[r] /\ outputs'[r] = outputs[r] /\ copied'[r] = copied[r]
      /\ public' = public /\ barrier'[r] = barrier[r] /\ entered' = entered
      /\ results'[r] = results[r] /\ Base(r)' = Base(r)
  BY DEF Base
<1>3. InCall(r)'
  BY <1>1, <1>2, OfRank DEF Works, InCall, Goes, Quiet, Reducing, Meeting, Places
<1>4. Sums(r)'
  BY <1>1, <1>2, OfRank DEF Works, Sums, Goes, Quiet, Reducing, Meeting, Places
<1>5. Writes(r)'
  <2>1. call[r] \in Calls /\ to \notin {"commit", "dead"} => public[r][call[r]] = 0
    BY DEF Works, Writes, Goes, Quiet, Meeting
  <2>2. to = "commit" => public[r][call[r]] = copied[r] /\ copied[r] < Tensors
    BY Constants DEF Works, InCall, Writes, Goes, Quiet, Reducing, Meeting
  <2>3. to \notin {"reduce", "check"}
    BY DEF Goes, Quiet, Meeting
  <2> QED
    BY <1>1, <1>2, <2>1, <2>2, <2>3 DEF Works, Writes
<1>6. Numbered(r)'
  BY <1>1, <1>2, OfRank DEF Works, Numbered, Goes, Quiet, Reducing, Meeting, Places
<1> QED
  BY <1>3, <1>4, <1>5, <1>6 DEF Works

\* The rank in a barrier uses one of the store's sequences.
LEMMA SequenceOfBarrier ==
  ASSUME Types, NEW r \in Ranks, RankInv(r), at[r] \in Meeting
  PROVE  Sequence(r) = Meets(call[r]) /\ Sequence(r) \in Barriers
<1>1. call[r] \in 1 .. Length + 1 /\ Meets(call[r]) \in Nat /\ barrier[r] \in Nat
  BY OfRank
<1>2. Sequence(r) = Meets(call[r])
  BY <1>1 DEF RankInv, Numbered, Sequence
<1>3. Length \in Nat
  BY Constants
<1>4. Length + 1 \in 1 .. Length + 1 /\ call[r] <= Length + 1
  BY <1>1, <1>3
<1>5. Meets(call[r]) <= Before(Length + 1, "barrier") /\ Before(Length + 1, "barrier") \in Nat
  BY <1>1, <1>4, BeforeGrows, BeforeIsNat DEF Meets
<1> QED
  BY <1>1, <1>2, <1>5 DEF Barriers, Length

\* A call that returns is the rank's last one no more.
LEMMA NextCall ==
  ASSUME Types, NEW r \in Ranks, call[r] \in Calls
  PROVE  /\ call[r] + 1 \in 1 .. Length + 1
         /\ [call EXCEPT ![r] = @ + 1] \in [Ranks -> 1 .. Length + 1]
<1>1. call[r] + 1 \in 1 .. Length + 1
  BY Constants
<1> QED
  BY <1>1 DEF Types

LEMMA TypesKept ==
  ASSUME Types, NEW r \in Ranks, RankInv(r), Moves(r)
  PROVE  Types'
<1>0. Written(r)
  BY WrittenByStep
<1>1. at' \in [Ranks -> Places]
  <2>1. at \in [Ranks -> Places] /\ (at' = at \/ \E place \in Places : at' = [at EXCEPT ![r] = place])
    BY <1>0 DEF Types, Written
  <2> QED
    BY <2>1
<1>2. call' \in [Ranks -> 1 .. Length + 1]
  <2>1. at[r] \in {"commit", "wait"} => call[r] \in Calls
    BY DEF RankInv, InCall, Reducing, Meeting
  <2>2. call' = call \/ (call[r] \in Calls /\ call' = [call EXCEPT ![r] = @ + 1])
    BY <2>1, <1>0 DEF Written
  <2>3. call \in [Ranks -> 1 .. Length + 1]
    BY DEF Types
  <2> QED
    BY <2>2, <2>3, NextCall
<1>3. claimed' \in [Ranks -> BOOLEAN] /\ fd' \in [Ranks -> {"capability", "free", "reused"}]
  <2>1. /\ claimed \in [Ranks -> BOOLEAN] /\ fd \in [Ranks -> {"capability", "free", "reused"}]
        /\ claimed' = claimed \/ claimed' = [claimed EXCEPT ![r] = TRUE]
        /\ fd' = fd \/ \E number \in {"free", "reused"} : fd' = [fd EXCEPT ![r] = number]
    BY <1>0 DEF Types, Written
  <2> QED
    BY <2>1
<1>4. stray' \in [Ranks -> BOOLEAN]
  <2>1. /\ stray \in [Ranks -> BOOLEAN]
        /\ stray' = stray \/ stray' = [stray EXCEPT ![r] = @ \/ fd[r] # "capability"]
    BY <1>0 DEF Types, Written
  <2> QED
    BY <2>1
<1>5. outputs' \in [Ranks -> Nat] /\ copied' \in [Ranks -> Nat]
  <2>1. /\ outputs \in [Ranks -> Nat] /\ copied \in [Ranks -> Nat]
        /\ outputs' \in {outputs, [outputs EXCEPT ![r] = 0], [outputs EXCEPT ![r] = @ + 1]}
        /\ copied' \in {copied, [copied EXCEPT ![r] = 0], [copied EXCEPT ![r] = @ + 1]}
    BY <1>0 DEF Types, Written
  <2> QED
    BY <2>1
<1>6. public' \in [Ranks -> [Calls -> Nat]]
  <2>1. /\ public \in [Ranks -> [Calls -> Nat]]
        /\ public' = public \/ public' = [public EXCEPT ![r][call[r]] = @ + 1]
    BY <1>0 DEF Types, Written
  <2> QED
    BY <2>1
<1>7. barrier' \in [Ranks -> Nat] /\ entered' \in [Ranks -> Nat]
  <2>1. /\ barrier \in [Ranks -> Nat] /\ entered \in [Ranks -> Nat]
        /\ barrier' \in {barrier, [barrier EXCEPT ![r] = @ + 1]}
        /\ entered' \in {entered, [entered EXCEPT ![r] = @ + 1]}
    BY <1>0 DEF Types, Written
  <2> QED
    BY <2>1
<1>8. results' \in [Ranks -> Seq({Ranks})]
  <2>1. entered[r] \in Nat /\ results \in [Ranks -> Seq({Ranks})]
    BY DEF Types
  <2>2. results' \in {results, [results EXCEPT ![r] = [i \in 1 .. entered[r] |-> Ranks]]}
    BY <1>0 DEF Written
  <2>3. [i \in 1 .. entered[r] |-> Ranks] \in Seq({Ranks})
    BY <2>1, ResultLength
  <2> HIDE DEF Ranks
  <2> QED
    BY <2>1, <2>2, <2>3
<1>9. arrived' \in [Barriers -> Nat] /\ complete' \subseteq Barriers
  <2>1. at[r] \in {"arrive", "complete"} => Sequence(r) \in Barriers
    BY SequenceOfBarrier DEF Meeting
  <2>2. /\ arrived \in [Barriers -> Nat] /\ complete \subseteq Barriers
        /\ \/ arrived' = arrived
           \/ Sequence(r) \in Barriers /\ arrived' = [arrived EXCEPT ![Sequence(r)] = @ + 1]
        /\ complete' = complete \/ (Sequence(r) \in Barriers /\ complete' = complete \cup {Sequence(r)})
    BY <1>0, <2>1 DEF Types, Written
  <2> QED
    BY <2>2
<1> QED
  BY <1>1, <1>2, <1>3, <1>4, <1>5, <1>6, <1>7, <1>8, <1>9 DEF Types

\* The steps that only go elsewhere, whatever they do to the capability.
JustGoes(r) ==
  \/ Claim(r) \/ BuildRaises(r) \/ Transfer(r) \/ JoinRaises(r) \/ JoinRank(r) \/ JoinedRaises(r)
  \/ Constructed(r) \/ AllReduceRefused(r) \/ ReduceRaises(r) \/ CheckPasses(r) \/ CheckRaises(r)
  \/ Arrive(r) \/ SetComplete(r) \/ WaitRaises(r) \/ Shutdown(r) \/ Abort(r) \/ Dies(r)

LEMMA JustGoesWorks ==
  ASSUME Types, NEW r \in Ranks, Works(r), JustGoes(r)
  PROVE  Works(r)'
<1>1. PICK to : Goto(r, to) /\ Goes(at[r], to)
  BY DEF JustGoes, Claim, BuildRaises, Transfer, JoinRaises, JoinRank, JoinedRaises, Constructed,
     AllReduceRefused, ReduceRaises, CheckPasses, CheckRaises, Arrive, SetComplete, WaitRaises,
     Shutdown, Abort, Dies, End, Goes, Quiet, Meeting
<1>2. UNCHANGED <<call, outputs, copied, public, barrier, entered, results>>
  BY DEF JustGoes, Claim, BuildRaises, Transfer, JoinRaises, JoinRank, JoinedRaises, Constructed,
     AllReduceRefused, ReduceRaises, CheckPasses, CheckRaises, Arrive, SetComplete, WaitRaises,
     Shutdown, Abort, Dies, End, Engine!Leave, callVars, engineVars, storeVars
<1> QED
  BY <1>1, <1>2, PlaceChanges

LEMMA ConstructAgainWorks ==
  ASSUME Types, NEW r \in Ranks, Works(r), ConstructAgain(r)
  PROVE  Works(r)'
<1>1. /\ at[r] = "raised" /\ at'[r] = "new" /\ entered[r] = 0 /\ barrier[r] = 0
  BY DEF ConstructAgain, Goto, Types
<1>2. /\ call' = call /\ outputs' = outputs /\ copied' = copied /\ public' = public
      /\ barrier' = barrier /\ entered' = entered /\ results' = results /\ Base(r)' = Base(r)
  BY DEF ConstructAgain, callVars, engineVars, storeVars, Base
<1>3. InCall(r)'
  BY <1>1 DEF InCall, Reducing, Meeting
<1>4. Sums(r)'
  BY <1>1, <1>2, OfRank DEF Works, Sums, Quiet, Meeting
<1>5. Writes(r)'
  BY <1>1, <1>2 DEF Works, Writes
<1>6. Numbered(r)'
  BY <1>1, <1>2, OfRank DEF Works, Numbered, Quiet, Reducing, Meeting
<1> QED
  BY <1>3, <1>4, <1>5, <1>6 DEF Works

LEMMA AllReduceWorks ==
  ASSUME Types, NEW r \in Ranks, Works(r), AllReduce(r)
  PROVE  Works(r)'
<1>1. /\ at[r] = "ready" /\ at'[r] = "reduce" /\ outputs'[r] = 0 /\ copied'[r] = 0
      /\ call[r] \in Calls /\ Program[call[r]] = "allreduce"
  BY DEF AllReduce, Goto, Types
<1>2. /\ call' = call /\ public' = public
      /\ barrier' = barrier /\ entered' = entered /\ results' = results /\ Base(r)' = Base(r)
  BY DEF AllReduce, engineVars, storeVars, Base
<1>3. InCall(r)'
  BY <1>1, <1>2 DEF InCall, Meeting
<1>4. Sums(r)'
  BY <1>1, <1>2, OfRank, Constants DEF Works, Sums, Quiet, Meeting
<1>5. Writes(r)'
  BY <1>1, <1>2 DEF Works, Writes
<1>6. Numbered(r)'
  BY <1>1, <1>2, OfRank DEF Works, Numbered, Quiet, Reducing, Meeting
<1> QED
  BY <1>3, <1>4, <1>5, <1>6 DEF Works

LEMMA ReduceTensorWorks ==
  ASSUME Types, NEW r \in Ranks, Works(r), ReduceTensor(r)
  PROVE  Works(r)'
<1>1. /\ at[r] = "reduce" /\ entered[r] = Len(results[r]) /\ entered'[r] = entered[r] + 1
      /\ \A q \in Ranks : entered[q] \in Nat /\ entered'[q] \in Nat /\ entered'[q] >= entered[q]
  BY DEF ReduceTensor, Engine!Contribute, Types
<1>2. /\ at' = at /\ call' = call /\ outputs' = outputs /\ copied' = copied /\ public' = public
      /\ barrier' = barrier /\ results' = results /\ Base(r)' = Base(r)
  BY DEF ReduceTensor, Engine!Contribute, processVars, callVars, storeVars, Base
<1>3. InCall(r)'
  BY <1>2 DEF Works, InCall
<1>4. Sums(r)'
  BY <1>1, <1>2, OfRank DEF Works, Sums, Quiet, Meeting
<1>5. Writes(r)'
  <2>1. ASSUME NEW i \in Calls, public[r][i] # 0, NEW q \in Ranks
        PROVE  entered'[q] >= Reduces(i) * Tensors + Tensors
    <3>1. i \in 1 .. Length + 1
      BY Constants
    <3>2. Reduces(i) * Tensors \in Nat /\ Tensors \in Nat
      BY <3>1, Products, Constants
    <3> QED
      BY <1>1, <2>1, <3>2 DEF Works, Writes
  <2> QED
    BY <1>2, <2>1 DEF Works, Writes
<1>6. Numbered(r)'
  BY <1>2 DEF Works, Numbered
<1> QED
  BY <1>3, <1>4, <1>5, <1>6 DEF Works

\* The last tensor is returned when every rank has contributed to all of them.
LEMMA TensorReducedWorks ==
  ASSUME Types, NEW r \in Ranks, Works(r), TensorReduced(r)
  PROVE  Works(r)'
<1>1. /\ at[r] = "reduce" /\ entered[r] > Len(results[r]) /\ outputs'[r] = outputs[r] + 1
      /\ at'[r] = IF outputs'[r] = Tensors THEN "check" ELSE "reduce"
      /\ \A q \in Ranks : entered[q] \in Nat /\ entered[q] >= entered[r]
  BY DEF TensorReduced, Engine!Return, Goto, Types
<1>2. /\ call' = call /\ copied' = copied /\ public' = public
      /\ barrier' = barrier /\ entered' = entered /\ Base(r)' = Base(r)
  BY DEF TensorReduced, Engine!Return, storeVars, Base
<1>3. Len(results'[r]) = entered[r]
  <2>1. results'[r] = [i \in 1 .. entered[r] |-> Ranks]
    BY DEF TensorReduced, Engine!Return, Types
  <2> QED
    BY <1>1, <2>1, ResultLength
<1>4. InCall(r)'
  BY <1>1, <1>2 DEF Works, InCall, Reducing, Meeting
<1>5. Sums(r)'
  <2>1. /\ outputs[r] < Tensors /\ Len(results[r]) = Base(r) + outputs[r]
        /\ entered[r] = Base(r) + outputs[r] + 1
    BY <1>1, OfRank DEF Works, Sums
  <2> QED
    BY <1>1, <1>2, <1>3, <2>1, OfRank, Constants DEF Sums, Quiet, Meeting
<1>6. Writes(r)'
  BY <1>1, <1>2 DEF Works, Writes
<1>7. Numbered(r)'
  BY <1>1, <1>2 DEF Works, Numbered, Quiet, Reducing, Meeting
<1> QED
  BY <1>4, <1>5, <1>6, <1>7 DEF Works

LEMMA BarrierWorks ==
  ASSUME Types, NEW r \in Ranks, Works(r), Barrier(r)
  PROVE  Works(r)'
<1>1. /\ at[r] = "ready" /\ at'[r] = "arrive" /\ barrier'[r] = barrier[r] + 1
      /\ call[r] \in Calls /\ Program[call[r]] = "barrier"
  BY DEF Barrier, Goto, Types
<1>2. /\ call' = call /\ outputs' = outputs /\ copied' = copied /\ public' = public
      /\ entered' = entered /\ results' = results /\ Base(r)' = Base(r)
  BY DEF Barrier, callVars, engineVars, Base
<1>3. InCall(r)'
  BY <1>1, <1>2 DEF InCall, Reducing
<1>4. Sums(r)'
  BY <1>1, <1>2, OfRank DEF Works, Sums, Quiet, Meeting
<1>5. Writes(r)'
  BY <1>1, <1>2 DEF Works, Writes
<1>6. Numbered(r)'
  BY <1>1, <1>2, OfRank DEF Works, Numbered, Quiet, Reducing, Meeting
<1> QED
  BY <1>3, <1>4, <1>5, <1>6 DEF Works

LEMMA CommitTensorWorks ==
  ASSUME Types, NEW r \in Ranks, Works(r), CommitTensor(r)
  PROVE  Works(r)'
<1> DEFINE i == call[r]
<1>1. /\ at[r] = "commit" /\ copied'[r] = copied[r] + 1
      /\ i \in Calls /\ Program[i] = "allreduce"
      /\ public[r][i] = copied[r] /\ copied[r] < Tensors
  BY DEF CommitTensor, Types, Works, InCall, Reducing, Writes
<1>2. /\ outputs' = outputs /\ barrier' = barrier /\ entered' = entered /\ results' = results
  BY DEF CommitTensor, engineVars, storeVars
<1>3. /\ public'[r][i] = copied[r] + 1
      /\ \A j \in Calls : j # i => public'[r][j] = public[r][j]
  BY <1>1 DEF CommitTensor, Types
<1>4. /\ i \in Nat /\ i > 0 /\ copied[r] \in Nat /\ Tensors \in Nat /\ Tensors > 0
      /\ \A j \in Calls : j \in Nat
  BY <1>1, OfRank, Constants
<1>5. \A j \in Calls : public'[r][j] # 0 =>
        \A q \in Ranks : entered'[q] >= Reduces(j) * Tensors + Tensors
  <2>1. \A q \in Ranks : entered[q] >= Reduces(i) * Tensors + Tensors
    BY <1>1 DEF Works, Sums, Base
  <2> QED
    BY <1>2, <1>3, <2>1 DEF Works, Writes
<1>6. CASE copied'[r] < Tensors
  <2>1. at' = at /\ call' = call
    BY <1>1, <1>4, <1>6 DEF CommitTensor
  <2>2. InCall(r)'
    BY <2>1 DEF Works, InCall
  <2>3. Sums(r)'
    BY <1>1, <1>2, <2>1 DEF Works, Sums, Base
  <2>4. Writes(r)'
    BY <1>1, <1>3, <1>4, <1>5, <1>6, <2>1 DEF Works, Writes
  <2>5. Numbered(r)'
    BY <1>2, <2>1 DEF Works, Numbered
  <2> QED
    BY <2>2, <2>3, <2>4, <2>5 DEF Works
<1>7. CASE copied'[r] = Tensors
  <2>1. at'[r] = "ready" /\ call'[r] = i + 1
    BY <1>1, <1>4, <1>7 DEF CommitTensor, Goto, Types
  <2>2. InCall(r)'
    BY <2>1 DEF InCall, Reducing, Meeting
  <2>3. Sums(r)'
    <3>1. Base(r)' = Base(r) + Tensors
      <4>1. Reduces(i + 1) = Reduces(i) + 1
        BY <1>1, BeforeNext DEF Reduces
      <4>2. i \in 1 .. Length + 1
        BY OfRank
      <4> QED
        BY <2>1, <4>1, <4>2, Products DEF Base
    <3>2. entered[r] = Base(r) + Tensors /\ Len(results[r]) = Base(r) + Tensors
      BY <1>1 DEF Works, Sums
    <3> QED
      BY <1>2, <2>1, <3>1, <3>2, OfRank, Constants DEF Sums, Quiet
  <2>4. Writes(r)'
    <3>1. \A j \in Calls : j < i + 1 <=> j < i \/ j = i
      BY <1>4
    <3>2. \A j \in Calls : j < i + 1 /\ Program[j] = "allreduce" => public'[r][j] = Tensors
      BY <1>1, <1>3, <1>4, <1>7, <3>1 DEF Works, Writes
    <3>3. \A j \in Calls : j >= i + 1 => public'[r][j] = 0
      BY <1>3, <1>4 DEF Works, Writes
    <3>4. \A j \in Calls : j > i + 1 => j >= i + 1
      BY <1>4
    <3>5. i + 1 \in Calls => i + 1 >= i + 1
      BY <1>4
    <3> QED
      BY <1>5, <2>1, <3>2, <3>3, <3>4, <3>5 DEF Writes
  <2>5. Numbered(r)'
    <3>1. Meets(i + 1) = Meets(i)
      <4>1. Before(i + 1, "barrier") = Before(i, "barrier") + 0
        BY <1>1, BeforeNext
      <4> QED
        BY <4>1, OfRank DEF Meets
    <3>2. barrier[r] = Meets(i)
      BY <1>1 DEF Works, Numbered, Reducing
    <3> QED
      BY <1>2, <2>1, <3>1, <3>2, OfRank DEF Numbered, Meeting
  <2> QED
    BY <2>2, <2>3, <2>4, <2>5 DEF Works
<1> QED
  BY <1>6, <1>7 DEF CommitTensor

LEMMA ReleasedWorks ==
  ASSUME Types, NEW r \in Ranks, Works(r), Released(r)
  PROVE  Works(r)'
<1> DEFINE i == call[r]
<1>1. /\ at[r] = "wait" /\ i \in Calls /\ Program[i] = "barrier"
      /\ at'[r] = "ready" /\ call'[r] = i + 1
  BY DEF Released, Goto, Types, Works, InCall, Meeting
<1>2. /\ outputs' = outputs /\ copied' = copied /\ public' = public
      /\ barrier' = barrier /\ entered' = entered /\ results' = results
  BY DEF Released, callVars, engineVars, storeVars
<1>3. i \in Nat /\ i > 0 /\ \A j \in Calls : j \in Nat
  BY <1>1, Constants
<1>4. InCall(r)'
  BY <1>1 DEF InCall, Reducing, Meeting
<1>5. Sums(r)'
  <2>1. Reduces(i + 1) = Reduces(i)
    <3>1. Before(i + 1, "allreduce") = Before(i, "allreduce") + 0
      BY <1>1, BeforeNext
    <3>2. i \in 1 .. Length + 1
      BY OfRank
    <3> QED
      BY <3>1, <3>2, BeforeIsNat DEF Reduces
  <2>2. Base(r)' = Base(r)
    BY <1>1, <2>1 DEF Base
  <2> QED
    BY <1>1, <1>2, <2>2, OfRank DEF Works, Sums, Quiet, Meeting
<1>6. Writes(r)'
  <2>1. \A j \in Calls : j < i + 1 /\ Program[j] = "allreduce" => j < i
    BY <1>1, <1>3
  <2>2. \A j \in Calls : j > i + 1 => j > i
    BY <1>3
  <2>3. i + 1 \in Calls => i + 1 > i
    BY <1>3
  <2> QED
    BY <1>1, <1>2, <2>1, <2>2, <2>3 DEF Works, Writes
<1>7. Numbered(r)'
  <2>1. Meets(i + 1) = Meets(i) + 1
    BY <1>1, BeforeNext DEF Meets
  <2>2. barrier[r] = Meets(i) + 1
    BY <1>1 DEF Works, Numbered, Meeting
  <2> QED
    BY <1>1, <1>2, <2>1, <2>2, OfRank DEF Numbered, Meeting
<1> QED
  BY <1>4, <1>5, <1>6, <1>7 DEF Works

LEMMA WorksKept ==
  ASSUME Types, NEW r \in Ranks, Works(r), Moves(r)
  PROVE  Works(r)'
<1>1. CASE JustGoes(r)
  BY <1>1, JustGoesWorks
<1>2. CASE ConstructAgain(r)
  BY <1>2, ConstructAgainWorks
<1>3. CASE AllReduce(r)
  BY <1>3, AllReduceWorks
<1>4. CASE ReduceTensor(r)
  BY <1>4, ReduceTensorWorks
<1>5. CASE TensorReduced(r)
  BY <1>5, TensorReducedWorks
<1>6. CASE CommitTensor(r)
  BY <1>6, CommitTensorWorks
<1>7. CASE Barrier(r)
  BY <1>7, BarrierWorks
<1>8. CASE Released(r)
  BY <1>8, ReleasedWorks
<1>9. CASE NumberReused(r)
  <2>1. UNCHANGED <<at, call, outputs, copied, public, barrier, entered, results>>
    BY <1>9 DEF NumberReused, processVars, callVars, engineVars, storeVars
  <2> QED
    BY <2>1 DEF Works, InCall, Sums, Writes, Numbered, Base
<1> QED
  BY <1>1, <1>2, <1>3, <1>4, <1>5, <1>6, <1>7, <1>8, <1>9 DEF Moves, Step, JustGoes

\* The capability: a number that is closed was the rank's own.
LEMMA OwnsKept ==
  ASSUME Types, NEW r \in Ranks, Owns(r), Moves(r)
  PROVE  Owns(r)'
<1> USE DEF Types, Owns, Goto, CloseNumber, claimVars, processVars
<1>1. CASE Claim(r)
  BY <1>1 DEF Claim
<1>2. CASE BuildRaises(r) \/ JoinRaises(r) \/ JoinedRaises(r)
  BY <1>2 DEF BuildRaises, JoinRaises, JoinedRaises
<1>3. CASE Transfer(r) \/ JoinRank(r) \/ Constructed(r)
  BY <1>3 DEF Transfer, JoinRank, Constructed
<1>4. CASE AllReduce(r) \/ AllReduceRefused(r) \/ ReduceTensor(r) \/ TensorReduced(r) \/ ReduceRaises(r)
  BY <1>4 DEF AllReduce, AllReduceRefused, ReduceTensor, TensorReduced, ReduceRaises
<1>5. CASE CheckPasses(r) \/ CheckRaises(r) \/ CommitTensor(r)
  BY <1>5 DEF CheckPasses, CheckRaises, CommitTensor
<1>6. CASE Barrier(r) \/ Arrive(r) \/ SetComplete(r) \/ Released(r) \/ WaitRaises(r)
  BY <1>6 DEF Barrier, Arrive, SetComplete, Released, WaitRaises
<1>7. CASE Shutdown(r) \/ Abort(r)
  BY <1>7 DEF Shutdown, Abort, End
<1>8. CASE ConstructAgain(r)
  BY <1>8 DEF ConstructAgain
<1>9. CASE NumberReused(r)
  BY <1>9 DEF NumberReused
<1>10. CASE Dies(r)
  BY <1>10 DEF Dies
<1> QED
  BY <1>1, <1>2, <1>3, <1>4, <1>5, <1>6, <1>7, <1>8, <1>9, <1>10 DEF Moves, Step

-----------------------------------------------------------------------------
(***************************************************************************)
(* The store: an arrival counts a rank that entered, once.                 *)
(***************************************************************************)
LEMMA RanksAreFinite ==
  /\ IsFiniteSet(Ranks) /\ Cardinality(Ranks) = World
  /\ \A s : IsFiniteSet(Counted(s)) /\ Counted(s) \subseteq Ranks /\ Cardinality(Counted(s)) \in Nat
<1>1. IsFiniteSet(Ranks) /\ Cardinality(Ranks) = World
  <2>1. 0 \in Int /\ World - 1 \in Int /\ World > 1 /\ World \in Nat
    BY Constants
  <2>2. Cardinality(0 .. World - 1) = IF 0 > World - 1 THEN 0 ELSE (World - 1) - 0 + 1
    BY <2>1, FS_Interval
  <2>3. IsFiniteSet(0 .. World - 1)
    BY <2>1, FS_Interval
  <2> QED
    BY <2>1, <2>2, <2>3 DEF Ranks
<1>2. ASSUME NEW s
      PROVE  IsFiniteSet(Counted(s)) /\ Counted(s) \subseteq Ranks /\ Cardinality(Counted(s)) \in Nat
  <2>1. Counted(s) \in SUBSET Ranks
    BY DEF Counted
  <2> QED
    BY <1>1, <2>1, FS_Subset, FS_CardinalityType
<1> QED
  BY <1>1, <1>2

LEMMA EnteredStays ==
  ASSUME Types, Types', Forward, NEW s \in Int, Entered(s)
  PROVE  Entered(s)'
<1>1. ASSUME NEW q \in Ranks
      PROVE  barrier'[q] > s
  <2>1. barrier[q] \in Nat /\ barrier'[q] \in Nat
    BY DEF Types
  <2> QED
    BY <2>1 DEF Forward, Entered
<1> QED
  BY <1>1 DEF Entered

\* Who gets where a barrier leads.
LEMMA PlacesInBarrier ==
  ASSUME Types, NEW r \in Ranks, Moves(r)
  PROVE  /\ at'[r] = "arrive" => Barrier(r) \/ (at[r] = "arrive" /\ barrier' = barrier)
         /\ at'[r] = "complete" => Arrive(r) \/ (at[r] = "complete" /\ barrier' = barrier)
<1> USE DEF Types, Goto, storeVars, processVars
<1>1. CASE Claim(r) \/ BuildRaises(r) \/ Transfer(r) \/ JoinRaises(r) \/ JoinRank(r) \/ JoinedRaises(r)
  BY <1>1 DEF Claim, BuildRaises, Transfer, JoinRaises, JoinRank, JoinedRaises
<1>2. CASE Constructed(r) \/ AllReduce(r) \/ AllReduceRefused(r) \/ ReduceTensor(r) \/ TensorReduced(r)
  BY <1>2 DEF Constructed, AllReduce, AllReduceRefused, ReduceTensor, TensorReduced
<1>3. CASE ReduceRaises(r) \/ CheckPasses(r) \/ CheckRaises(r) \/ CommitTensor(r)
  BY <1>3 DEF ReduceRaises, CheckPasses, CheckRaises, CommitTensor
<1>4. CASE Barrier(r) \/ Arrive(r)
  BY <1>4 DEF Barrier, Arrive
<1>5. CASE SetComplete(r) \/ Released(r) \/ WaitRaises(r)
  BY <1>5 DEF SetComplete, Released, WaitRaises
<1>6. CASE Shutdown(r) \/ Abort(r) \/ ConstructAgain(r) \/ NumberReused(r) \/ Dies(r)
  BY <1>6 DEF Shutdown, Abort, End, ConstructAgain, NumberReused, Dies
<1> QED
  BY <1>1, <1>2, <1>3, <1>4, <1>5, <1>6 DEF Moves, Step

LEMMA CountedGrows ==
  ASSUME Types, Types', NEW r \in Ranks, Moves(r), Forward, NEW s \in Barriers
  PROVE  Counted(s) \subseteq Counted(s)'
<1> SUFFICES ASSUME NEW q \in Counted(s)
             PROVE  q \in Counted(s)'
  OBVIOUS
<1>1. /\ q \in Ranks /\ barrier[q] > s /\ ~(at[q] = "arrive" /\ barrier[q] = s + 1)
      /\ s \in Nat /\ barrier[q] \in Nat /\ barrier'[q] \in Nat /\ barrier[q] <= barrier'[q]
  BY DEF Counted, Barriers, Types, Forward
<1>2. CASE q # r
  <2>1. at'[q] = at[q] /\ barrier'[q] = barrier[q]
    BY <1>1, <1>2, OthersUnmoved DEF Own
  <2> QED
    BY <1>1, <2>1 DEF Counted
<1>3. CASE q = r /\ at'[r] = "arrive"
  <2>1. CASE Barrier(r)
    <3>1. barrier'[r] = barrier[r] + 1
      BY <2>1 DEF Barrier, Types
    <3> QED
      BY <1>1, <1>3, <3>1 DEF Counted
  <2>2. CASE at[r] = "arrive" /\ barrier' = barrier
    BY <1>1, <1>3, <2>2 DEF Counted
  <2> QED
    BY <1>3, <2>1, <2>2, PlacesInBarrier
<1>4. CASE q = r /\ at'[r] # "arrive"
  BY <1>1, <1>4 DEF Counted
<1> QED
  BY <1>2, <1>3, <1>4

LEMMA ArrivalsCounted ==
  ASSUME GroupInv, Types', NEW r \in Ranks, Moves(r), NEW s \in Barriers
  PROVE  arrived'[s] <= Cardinality(Counted(s)')
<1>1. Types /\ RankInv(r) /\ Forward /\ arrived[s] \in Nat /\ arrived[s] <= Cardinality(Counted(s))
  BY GoesForward DEF GroupInv, StoreInv, Types
<1>2. /\ IsFiniteSet(Counted(s)) /\ Cardinality(Counted(s)) \in Nat
      /\ IsFiniteSet(Counted(s)') /\ Cardinality(Counted(s)') \in Nat
  <2>1. /\ IsFiniteSet(Ranks)
        /\ Counted(s)' \in SUBSET Ranks
    BY RanksAreFinite DEF Counted
  <2> QED
    BY <2>1, RanksAreFinite, FS_Subset, FS_CardinalityType
<1>3. Counted(s) \subseteq Counted(s)'
  BY <1>1, CountedGrows
<1>4. Cardinality(Counted(s)) <= Cardinality(Counted(s)')
  BY <1>2, <1>3, FS_Subset
<1>5. CASE Arrive(r) /\ s = Sequence(r)
  <2>1. /\ at[r] = "arrive" /\ at'[r] # "arrive" /\ barrier' = barrier
        /\ arrived'[s] = arrived[s] + 1
    BY <1>1, <1>5 DEF Arrive, Goto, Types
  <2>2. barrier[r] \in Nat /\ barrier[r] = s + 1 /\ s \in Nat
    BY <1>1, <1>5, OfRank DEF Sequence, Barriers
  <2>3. r \notin Counted(s) /\ r \in Counted(s)'
    BY <2>1, <2>2 DEF Counted
  <2>4. Counted(s) \cup {r} \in SUBSET Counted(s)'
    BY <1>3, <2>3
  <2>5. Cardinality(Counted(s) \cup {r}) = Cardinality(Counted(s)) + 1
    BY <1>2, <2>3, FS_AddElement
  <2>6. Cardinality(Counted(s) \cup {r}) <= Cardinality(Counted(s)')
    BY <1>2, <2>4, FS_Subset
  <2> QED
    BY <1>1, <1>2, <2>1, <2>5, <2>6
<1>6. CASE ~(Arrive(r) /\ s = Sequence(r))
  <2>1. arrived'[s] = arrived[s]
    <3>1. arrived' = arrived \/ (Arrive(r) /\ arrived' = [arrived EXCEPT ![Sequence(r)] = @ + 1])
      BY DEF Moves, Step, Claim, BuildRaises, Transfer, JoinRaises, JoinRank, JoinedRaises, Constructed,
         AllReduce, AllReduceRefused, ReduceTensor, TensorReduced, ReduceRaises, CheckPasses,
         CheckRaises, CommitTensor, Barrier, Arrive, SetComplete, Released, WaitRaises, Shutdown,
         Abort, ConstructAgain, NumberReused, Dies, storeVars
    <3> QED
      BY <1>1, <1>6, <3>1 DEF Types
  <2> QED
    BY <1>1, <1>2, <1>4, <2>1
<1> QED
  BY <1>5, <1>6

LEMMA StoreKept ==
  ASSUME GroupInv, Types', NEW r \in Ranks, Moves(r)
  PROVE  StoreInv'
<1>1. Types /\ StoreInv /\ Forward /\ (\A q \in Ranks : RankInv(q))
  BY GoesForward DEF GroupInv
<1>2. Written(r)
  BY <1>1, WrittenByStep
<1>3. \A s \in Barriers : arrived'[s] <= Cardinality(Counted(s)')
  BY ArrivalsCounted
<1>4. ASSUME NEW q \in Ranks, at'[q] = "complete"
      PROVE  Entered(barrier[q] - 1)'
  <2>1. CASE q = r /\ Arrive(r)
    <3>0. at[r] = "arrive" /\ barrier' = barrier /\ Sequence(r) \in Barriers
      BY <1>1, <2>1, SequenceOfBarrier DEF Arrive, Meeting
    <3>1. PICK s \in Barriers : s = Sequence(r)
      BY <3>0
    <3>2. arrived'[s] = World
      BY <1>1, <1>4, <2>1, <3>1 DEF Arrive, LastToArrive, Goto, Types
    <3>3. Counted(s)' = Ranks
      <4>1. Counted(s)' \in SUBSET Ranks
        BY DEF Counted
      <4>2. Cardinality(Ranks) <= Cardinality(Counted(s)')
        <5>1. arrived'[s] <= Cardinality(Counted(s)')
          BY <1>3, <3>1
        <5> QED
          BY <3>2, <5>1, RanksAreFinite
      <4>3. IsFiniteSet(Ranks) /\ Cardinality(Ranks) \in Nat
        BY RanksAreFinite, Constants
      <4>4. Cardinality(Counted(s)') \in Nat
        BY <4>1, <4>3, FS_Subset, FS_CardinalityType
      <4>5. Cardinality(Counted(s)') <= Cardinality(Ranks)
        BY <4>1, <4>3, FS_Subset
      <4>6. Cardinality(Counted(s)') = Cardinality(Ranks)
        BY <4>2, <4>3, <4>4, <4>5
      <4> QED
        BY <4>1, <4>3, <4>6, FS_Subset
    <3>4. \A x \in Ranks : barrier'[x] > barrier'[q] - 1
      BY <2>1, <3>0, <3>1, <3>3 DEF Counted, Sequence
    <3> QED
      BY <3>4 DEF Entered
  <2>2. CASE ~(q = r /\ Arrive(r))
    <3>1. at[q] = "complete" /\ barrier'[q] = barrier[q]
      BY <1>1, <1>4, <2>2, OthersUnmoved, PlacesInBarrier DEF Own
    <3> DEFINE s == barrier[q] - 1
    <3>2. s \in Int
      <4>1. barrier[q] \in Nat
        BY <1>1, OfRank
      <4> QED
        BY <4>1
    <3>3. Entered(s)
      BY <1>1, <3>1 DEF StoreInv
    <3>4. ASSUME NEW x \in Ranks
          PROVE  barrier'[x] > s
      <4>1. barrier[x] \in Nat /\ barrier'[x] \in Nat /\ barrier[x] <= barrier'[x]
        BY <1>1 DEF Types, Forward
      <4> QED
        BY <3>2, <3>3, <4>1 DEF Entered
    <3> QED
      BY <3>1, <3>4 DEF Entered
  <2> QED
    BY <2>1, <2>2
<1>5. ASSUME NEW s \in complete'
      PROVE  Entered(s)'
  <2>1. s \in Int /\ Entered(s)
    <3>1. CASE s \in complete
      BY <1>1, <3>1 DEF StoreInv, Types, Barriers
    <3>2. CASE s \notin complete
      <4>1. at[r] = "complete" /\ s = Sequence(r)
        BY <1>2, <1>5, <3>2 DEF Written
      <4> QED
        BY <1>1, <4>1 DEF StoreInv, Sequence, Types
    <3> QED
      BY <3>1, <3>2
  <2> QED
    BY <1>1, <2>1, EnteredStays
<1>6. ASSUME NEW q \in Ranks, NEW i \in Calls, i < call'[q], Program[i] = "barrier"
      PROVE  Entered(Meets(i))'
  <2>1. i \in 1 .. Length + 1 /\ Meets(i) \in Int
    BY Constants, BeforeIsNat DEF Meets
  <2>2. Entered(Meets(i))
    <3>1. CASE i < call[q]
      BY <1>1, <1>6, <3>1 DEF StoreInv
    <3>2. CASE ~(i < call[q])
      <4>1. call[q] \in Int /\ i \in Int
        BY <1>1, <2>1, OfRank
      <4>2. q = r /\ Released(r) /\ i = call[r]
        <5>1. q = r
          BY <1>1, <1>6, <3>2, OthersUnmoved DEF Own
        <5>2. /\ call' = [call EXCEPT ![r] = @ + 1]
              /\ CommitTensor(r) \/ Released(r)
          <6>1. \/ call' = call
                \/ (CommitTensor(r) \/ Released(r)) /\ call' = [call EXCEPT ![r] = @ + 1]
            BY DEF Moves, Step, Claim, BuildRaises, Transfer, JoinRaises, JoinRank, JoinedRaises,
               Constructed, AllReduce, AllReduceRefused, ReduceTensor, TensorReduced, ReduceRaises,
               CheckPasses, CheckRaises, CommitTensor, Barrier, Arrive, SetComplete, Released,
               WaitRaises, Shutdown, Abort, ConstructAgain, NumberReused, Dies, processVars
          <6> QED
            BY <1>6, <3>2, <6>1
        <5>3. i = call[r]
          <6>1. call'[r] = call[r] + 1
            BY <1>1, <5>2 DEF Types
          <6> QED
            BY <1>6, <3>2, <4>1, <5>1, <6>1
        <5>4. ~CommitTensor(r)
          BY <1>1, <1>6, <5>3 DEF CommitTensor, RankInv, InCall, Reducing
        <5> QED
          BY <5>1, <5>2, <5>3, <5>4
      <4>3. Sequence(r) = Meets(i) /\ Sequence(r) \in complete
        BY <1>1, <4>2, SequenceOfBarrier DEF Released, Meeting
      <4> QED
        BY <1>1, <4>3 DEF StoreInv
    <3> QED
      BY <3>1, <3>2
  <2> QED
    BY <1>1, <2>1, <2>2, EnteredStays
<1> QED
  BY <1>3, <1>4, <1>5, <1>6 DEF StoreInv

-----------------------------------------------------------------------------
(***************************************************************************)
(* The invariant and what it says.                                         *)
(***************************************************************************)
LEMMA GroupInit == Init => GroupInv
<1> SUFFICES ASSUME Init
             PROVE  GroupInv
  OBVIOUS
<1>1. /\ at = [r \in Ranks |-> "new"] /\ call = [r \in Ranks |-> 1]
      /\ claimed = [r \in Ranks |-> FALSE] /\ fd = [r \in Ranks |-> "capability"]
      /\ stray = [r \in Ranks |-> FALSE] /\ outputs = [r \in Ranks |-> 0]
      /\ copied = [r \in Ranks |-> 0] /\ public = [r \in Ranks |-> [i \in Calls |-> 0]]
      /\ barrier = [r \in Ranks |-> 0] /\ arrived = [s \in Barriers |-> 0] /\ complete = {}
      /\ entered = [r \in Ranks |-> 0] /\ results = [r \in Ranks |-> <<>>]
  BY DEF Init, Engine!Init
<1>2. 1 \in 1 .. Length + 1 /\ \A i \in Calls : i \in Nat /\ i >= 1
  BY Constants
<1>3. Types
  <2>1. <<>> \in Seq({Ranks})
    OBVIOUS
  <2>2. results \in [Ranks -> Seq({Ranks})]
    BY <1>1, <2>1
  <2>3. public \in [Ranks -> [Calls -> Nat]]
    BY <1>1
  <2> QED
    BY <1>1, <1>2, <2>2, <2>3 DEF Types, Places
<1>4. Reduces(1) = 0 /\ Meets(1) = 0
  <2>1. \A kind : {j \in 1 .. 1 - 1 : Program[j] = kind} = {}
    OBVIOUS
  <2> QED
    BY <2>1, FS_EmptySet DEF Reduces, Meets, Before
<1>5. ASSUME NEW r \in Ranks
      PROVE  RankInv(r)
  <2>1. /\ at[r] = "new" /\ call[r] = 1 /\ ~claimed[r] /\ fd[r] = "capability" /\ ~stray[r]
        /\ barrier[r] = 0 /\ entered[r] = 0 /\ \A i \in Calls : public[r][i] = 0
    BY <1>1
  <2>2. Base(r) = 0
    BY <1>4, <2>1, Constants DEF Base
  <2>3. Len(results[r]) = 0
    BY <1>1, EmptySeq
  <2>4. InCall(r) /\ Owns(r)
    BY <2>1 DEF InCall, Owns, Reducing, Meeting
  <2>5. Sums(r)
    BY <2>1, <2>2, <2>3 DEF Sums
  <2>6. Writes(r)
    BY <1>2, <2>1 DEF Writes
  <2>7. Numbered(r)
    BY <1>4, <2>1 DEF Numbered, Meeting
  <2> QED
    BY <2>4, <2>5, <2>6, <2>7 DEF RankInv
<1>6. StoreInv
  <2>1. \A s \in Barriers : arrived[s] <= Cardinality(Counted(s))
    BY <1>1, RanksAreFinite
  <2>2. \A r \in Ranks : \A i \in Calls : ~(i < call[r])
    BY <1>1, <1>2
  <2> QED
    BY <1>1, <2>1, <2>2 DEF StoreInv
<1> QED
  BY <1>3, <1>5, <1>6 DEF GroupInv

LEMMA GroupStep == GroupInv /\ [Next]_vars => GroupInv'
<1> SUFFICES ASSUME GroupInv, [Next]_vars
             PROVE  GroupInv'
  OBVIOUS
<1>1. Types /\ StoreInv /\ \A q \in Ranks : RankInv(q)
  BY DEF GroupInv
<1>2. CASE Next
  <2>1. PICK r \in Ranks : Moves(r)
    BY <1>2 DEF Next, Moves
  <2>2. Types' /\ Forward
    BY <1>1, <2>1, TypesKept, GoesForward
  <2>3. ASSUME NEW q \in Ranks
        PROVE  RankInv(q)'
    <3>1. CASE q = r
      <4>1. Works(r)' /\ Owns(r)'
        BY <1>1, <2>1, WorksKept, OwnsKept DEF RankInv, Works
      <4> QED
        BY <3>1, <4>1 DEF RankInv, Works
    <3>2. CASE q # r
      BY <1>1, <2>1, <2>2, <3>2, OthersUnmoved, RankKept
    <3> QED
      BY <3>1, <3>2
  <2>4. StoreInv'
    BY <2>1, <2>2, StoreKept
  <2> QED
    BY <2>2, <2>3, <2>4 DEF GroupInv
<1>3. CASE UNCHANGED vars
  <2>1. /\ at' = at /\ call' = call /\ claimed' = claimed /\ fd' = fd /\ stray' = stray
        /\ outputs' = outputs /\ copied' = copied /\ public' = public /\ barrier' = barrier
        /\ entered' = entered /\ results' = results /\ arrived' = arrived /\ complete' = complete
    BY <1>3 DEF vars, processVars, claimVars, callVars, engineVars, storeVars
  <2>2. Types'
    BY <1>1, <2>1 DEF Types
  <2>3. StoreInv'
    BY <1>1, <2>1 DEF StoreInv, Counted, Entered
  <2>4. \A q \in Ranks : RankInv(q)'
    BY <1>1, <2>1 DEF RankInv, InCall, Owns, Sums, Writes, Numbered, Base
  <2> QED
    BY <2>2, <2>3, <2>4 DEF GroupInv
<1> QED
  BY <1>2, <1>3

\* The inductive invariant holds of every behaviour of the process group.
THEOREM GroupInvariant == Spec => []GroupInv
BY GroupInit, GroupStep, PTL DEF Spec

\* No behaviour closes the capability's number when it is not the capability
\* or leaves it open in a group that ended (bootstrap.py, engine.py: join).
THEOREM CapabilityIsClosedOnce == Spec => []CapabilityClosedOnce
<1>1. GroupInv => CapabilityClosedOnce
  BY DEF GroupInv, RankInv, Owns, CapabilityClosedOnce
<1> QED
  BY <1>1, GroupInvariant, PTL

\* An all-reduce call writes all of the caller's tensors or none, and only
\* sums that every rank contributed to (torch_process_group.py, allreduce).
THEOREM CommitsAreAtomic == Spec => []CommitIsAtomic
<1>1. GroupInv => CommitIsAtomic
  <2> SUFFICES ASSUME GroupInv, NEW r \in Ranks, NEW i \in Calls
               PROVE  /\ i < call[r] /\ Program[i] = "allreduce" => public[r][i] = Tensors
                      /\ public[r][i] # 0 /\ i = call[r] => at[r] \in {"commit", "dead"}
                      /\ public[r][i] # 0 =>
                           \A q \in Ranks : entered[q] >= (Before(i, "allreduce") + 1) * Tensors
    BY DEF CommitIsAtomic
  <2>1. Writes(r)
    BY DEF GroupInv, RankInv
  <2>2. (Before(i, "allreduce") + 1) * Tensors = Reduces(i) * Tensors + Tensors
    <3>1. i \in 1 .. Length + 1
      BY Constants
    <3> QED
      BY <3>1, Products DEF Reduces
  <2>3. public[r][i] # 0 => \A q \in Ranks : entered[q] >= (Before(i, "allreduce") + 1) * Tensors
    BY <2>1, <2>2 DEF Writes
  <2> QED
    BY <2>1, <2>3 DEF Writes
<1> QED
  BY <1>1, GroupInvariant, PTL

\* Whoever is past a barrier, every rank has entered it and has written every
\* all-reduce before it (torch_process_group.py, barrier).
THEOREM BarriersSeparate == Spec => []BarrierSeparates
<1>1. GroupInv => BarrierSeparates
  <2> SUFFICES ASSUME GroupInv, NEW r \in Ranks, NEW i \in Calls,
                      i < call[r], Program[i] = "barrier", NEW q \in Ranks
               PROVE  /\ call[q] >= i /\ barrier[q] > Before(i, "barrier")
                      /\ \A j \in 1 .. i - 1 : Program[j] = "allreduce" => public[q][j] = Tensors
    BY DEF BarrierSeparates
  <2>1. Types /\ Writes(q) /\ Numbered(q) /\ barrier[q] > Meets(i)
    BY DEF GroupInv, RankInv, StoreInv, Entered
  <2>2. /\ call[q] \in 1 .. Length + 1 /\ barrier[q] \in Nat /\ Meets(call[q]) \in Nat
        /\ i \in 1 .. Length + 1 /\ Length \in Nat
    BY <2>1, OfRank, Constants
  <2>3. call[q] >= i
    <3> SUFFICES ASSUME call[q] < i
                 PROVE  FALSE
      BY <2>2
    <3>1. call[q] \in Calls /\ call[q] + 1 \in 1 .. Length + 1 /\ call[q] + 1 <= i /\ call[q] <= i
      BY <2>2, Constants
    <3>2. /\ Meets(call[q]) <= Meets(i) /\ Meets(call[q] + 1) <= Meets(i)
      BY <2>2, <3>1, BeforeGrows DEF Meets
    <3>3. Meets(i) \in Nat
      BY <2>2, BeforeIsNat DEF Meets
    <3>4. CASE barrier[q] = Meets(call[q]) + 1
      <4>1. Program[call[q]] = "barrier"
        BY <2>1, <3>4 DEF Numbered
      <4>2. Meets(call[q] + 1) = Meets(call[q]) + 1
        BY <3>1, <4>1, BeforeNext DEF Meets
      <4> QED
        BY <2>1, <2>2, <3>2, <3>3, <3>4, <4>2
    <3>5. CASE barrier[q] # Meets(call[q]) + 1
      BY <2>1, <2>2, <3>2, <3>3, <3>5 DEF Numbered
    <3> QED
      BY <3>4, <3>5
  <2>4. ASSUME NEW j \in 1 .. i - 1, Program[j] = "allreduce"
        PROVE  public[q][j] = Tensors
    <3>1. j \in Calls /\ j < call[q]
      BY <2>2, <2>3, Constants
    <3> QED
      BY <2>1, <2>4, <3>1 DEF Writes
  <2> QED
    BY <2>1, <2>3, <2>4 DEF Meets
<1> QED
  BY <1>1, GroupInvariant, PTL

(***************************************************************************)
(* The group asks of the engine only what all_reduce offers and takes its  *)
(* results only as promised: every step of a rank is a step of Collective  *)
(* or leaves it alone.  This is the contract that                          *)
(* EnginesImplementCollective shows the engines to keep.                   *)
(***************************************************************************)
THEOREM GroupKeepsContract == Spec => Engine!Spec
<1>1. Init => Engine!Init
  BY DEF Init
<1>2. [Next]_vars => [Engine!Next]_(Engine!vars)
  <2> SUFFICES ASSUME [Next]_vars
               PROVE  Engine!Next \/ UNCHANGED <<entered, results, gone>>
    BY DEF Engine!vars
  <2>1. CASE UNCHANGED vars
    BY <2>1 DEF vars, engineVars
  <2>2. ASSUME NEW r \in Ranks, Step(r) \/ NumberReused(r) \/ Dies(r)
        PROVE  Engine!Next \/ UNCHANGED <<entered, results, gone>>
    <3>1. CASE JoinRaises(r) \/ JoinedRaises(r)
      BY <3>1 DEF JoinRaises, JoinedRaises, Engine!Leave, Engine!Next
    <3>2. CASE \/ ReduceTensor(r) \/ TensorReduced(r) \/ ReduceRaises(r)
               \/ Shutdown(r) \/ Abort(r) \/ Dies(r)
      BY <3>2 DEF ReduceTensor, TensorReduced, ReduceRaises, Shutdown, Abort, End, Dies,
         Engine!Next
    <3>3. CASE \/ Claim(r) \/ BuildRaises(r) \/ Transfer(r) \/ JoinRank(r) \/ Constructed(r)
               \/ ConstructAgain(r) \/ NumberReused(r)
      BY <3>3 DEF Claim, BuildRaises, Transfer, JoinRank, Constructed, ConstructAgain,
         NumberReused, engineVars
    <3>4. CASE \/ AllReduce(r) \/ AllReduceRefused(r) \/ CheckPasses(r) \/ CheckRaises(r)
               \/ CommitTensor(r) \/ Barrier(r) \/ Arrive(r) \/ SetComplete(r)
               \/ Released(r) \/ WaitRaises(r)
      BY <3>4 DEF AllReduce, AllReduceRefused, CheckPasses, CheckRaises, CommitTensor,
         Barrier, Arrive, SetComplete, Released, WaitRaises, engineVars
    <3> QED
      BY <2>2, <3>1, <3>2, <3>3, <3>4 DEF Step
  <2> QED
    BY <2>1, <2>2 DEF Next
<1> QED
  BY <1>1, <1>2, PTL DEF Spec, Engine!Spec
=============================================================================
