---------------------------- MODULE ProcessGroup ----------------------------
(***************************************************************************)
(* The torch process group of the all-reduce (gemsim_ccl:                  *)
(* torch_process_group.py over bootstrap.py and AllReduceEngine.join):     *)
(* each rank claims its group of the bootstrap descriptor, joins with the  *)
(* capability socket it inherited, runs its caller's all-reduces and       *)
(* barriers, and shuts down.  A barrier uses the store's counters, an      *)
(* all-reduce the engine, taken here by its contract, Collective.          *)
(*                                                                         *)
(* A caller stops at the first call that raises; all callers run the same  *)
(* program.                                                                *)
(***************************************************************************)
EXTENDS Naturals, Sequences, FiniteSets

CONSTANTS World,
          Program,    \* the calls of every rank: "allreduce" or "barrier"
          Tensors,    \* tensors of an allreduce
          Attempts,   \* bound on the constructions a caller tries
          FaultBudget \* bound on the faults of a behaviour

ASSUME ProcessGroupAssumption ==
  /\ World \in Nat \ {0, 1} /\ Tensors \in Nat \ {0} /\ Attempts \in Nat \ {0}
  /\ Program \in Seq({"allreduce", "barrier"}) /\ FaultBudget \in Nat

Ranks == 0 .. World - 1
Calls == 1 .. Len(Program)
Before(i, kind) == Cardinality({j \in 1 .. i - 1 : Program[j] = kind})
LastSequence == Before(Len(Program) + 1, "allreduce") * Tensors
Barriers == 0 .. Before(Len(Program) + 1, "barrier")

VARIABLES
  \* each rank's process
  at,       \* where it is
  call,     \* index of its call
  attempts, \* constructions so far
  claimed,  \* _claimed_groups holds its group
  fd,       \* the descriptor's number: the capability, free or reused
  stray,    \* something closed that number when it was not the capability
  \* its ProcessGroup
  outputs,  \* private results of this call
  copied,   \* tensors this call committed
  barrier,  \* _barrier_sequence
  public,   \* committed tensors of each call
  \* the engines, as Collective has them
  entered, results, gone,
  \* the store's keys of this group
  arrived, complete,
  faults

processVars == <<at, call, attempts>>
claimVars == <<claimed, fd, stray>>
callVars == <<outputs, copied, public>>
engineVars == <<entered, results, gone>>
storeVars == <<barrier, arrived, complete>>
vars == <<processVars, claimVars, callVars, engineVars, storeVars, faults>>

\* Each tensor of a call is an all-reduce of its own; a sum names its ranks.
Engine == INSTANCE Collective WITH CallEnds <- 1 .. LastSequence, Sum <- Ranks

Places == {"new", "build", "join", "joined", "ready", "reduce", "check", "commit",
           "arrive", "complete", "wait", "raised", "closed", "dead"}

Init ==
  /\ at = [r \in Ranks |-> "new"]
  /\ call = [r \in Ranks |-> 1]
  /\ attempts = [r \in Ranks |-> 0]
  /\ claimed = [r \in Ranks |-> FALSE]
  /\ fd = [r \in Ranks |-> "capability"]
  /\ stray = [r \in Ranks |-> FALSE]
  /\ outputs = [r \in Ranks |-> 0]
  /\ copied = [r \in Ranks |-> 0]
  /\ public = [r \in Ranks |-> [i \in Calls |-> 0]]
  /\ barrier = [r \in Ranks |-> 0]
  /\ arrived = [s \in Barriers |-> 0] /\ complete = {}
  /\ Engine!Init
  /\ faults = 0

Goto(r, place) == at' = [at EXCEPT ![r] = place]
Fault == faults < FaultBudget /\ faults' = faults + 1
\* What the failure of a peer explains is no fault of its own.
PeerFailed(r) ==
  \E q \in Ranks \ {r} :
    at[q] \in {"raised", "dead"} \/ (at[q] = "closed" /\ call[q] \in Calls)
Failing(r) == IF PeerFailed(r) THEN UNCHANGED faults ELSE Fault

CloseNumber(r) ==
  /\ stray' = [stray EXCEPT ![r] = @ \/ fd[r] # "capability"]
  /\ fd' = [fd EXCEPT ![r] = "free"]

-----------------------------------------------------------------------------
(***************************************************************************)
(* Construction: __init__, claim_group, build_engine and join.             *)
(***************************************************************************)
\* The descriptor's sockets are checked, then the claim is taken for good.
Claim(r) ==
  /\ at[r] = "new" /\ attempts[r] < Attempts
  /\ attempts' = [attempts EXCEPT ![r] = @ + 1]
  /\ \/ /\ ~claimed[r] /\ fd[r] # "free"
        /\ claimed' = [claimed EXCEPT ![r] = TRUE]
        /\ Goto(r, "build") /\ UNCHANGED faults
     \/ /\ claimed[r] \/ fd[r] = "free"
        /\ Goto(r, "raised") /\ UNCHANGED <<claimed, faults>>
     \/ Fault /\ Goto(r, "raised") /\ UNCHANGED claimed
  /\ UNCHANGED <<call, fd, stray, callVars, engineVars, storeVars>>

\* Mutant: the number stays with build_engine until join has returned.
BuildRaisesAfterJoin(r) ==
  /\ at[r] \in {"build", "join", "joined"} /\ Fault
  /\ stray' = [stray EXCEPT ![r] = @ \/ at[r] # "build"]
  /\ fd' = [fd EXCEPT ![r] = "free"]
  /\ Goto(r, "raised")
  /\ UNCHANGED <<call, attempts, claimed, callVars, engineVars, storeVars>>

\* The library or the deadline raises: build_engine closes the number.
BuildRaises(r) ==
  /\ at[r] = "build" /\ Fault
  /\ CloseNumber(r)
  /\ Goto(r, "raised")
  /\ UNCHANGED <<call, attempts, claimed, callVars, engineVars, storeVars>>

Transfer(r) ==
  /\ at[r] = "build"
  /\ Goto(r, "join")
  /\ UNCHANGED <<call, attempts, claimVars, callVars, engineVars, storeVars, faults>>

\* Whoever owns the number when join raises, join before join_rank or the
\* library from then on, closes it; the group loses this rank.
JoinRaises(r) ==
  /\ at[r] = "join" /\ Failing(r)
  /\ CloseNumber(r)
  /\ gone' = gone \cup {r}
  /\ Goto(r, "raised")
  /\ UNCHANGED <<call, attempts, claimed, callVars, entered, results, storeVars>>

JoinRank(r) ==
  /\ at[r] = "join"
  /\ Goto(r, "joined")
  /\ UNCHANGED <<call, attempts, claimVars, callVars, engineVars, storeVars, faults>>

\* The carrier or the executor raises, or the engine is another group's: the
\* live rank is destroyed and its socket with it.
JoinedRaises(r) ==
  /\ at[r] = "joined" /\ Fault
  /\ CloseNumber(r)
  /\ gone' = gone \cup {r}
  /\ Goto(r, "raised")
  /\ UNCHANGED <<call, attempts, claimed, callVars, entered, results, storeVars>>

Constructed(r) ==
  /\ at[r] = "joined"
  /\ Goto(r, "ready")
  /\ UNCHANGED <<call, attempts, claimVars, callVars, engineVars, storeVars, faults>>

-----------------------------------------------------------------------------
(***************************************************************************)
(* allreduce: every tensor is staged, reduced, checked, and only then      *)
(* copied to the caller.                                                   *)
(***************************************************************************)
AllReduce(r) ==
  /\ at[r] = "ready" /\ call[r] \in Calls /\ Program[call[r]] = "allreduce"
  /\ Goto(r, "reduce")
  /\ outputs' = [outputs EXCEPT ![r] = 0] /\ copied' = [copied EXCEPT ![r] = 0]
  /\ UNCHANGED <<call, attempts, claimVars, public, engineVars, storeVars, faults>>

\* A tensor list the engine does not support.
AllReduceRefused(r) ==
  /\ at[r] = "ready" /\ call[r] \in Calls /\ Program[call[r]] = "allreduce"
  /\ Fault
  /\ Goto(r, "raised")
  /\ UNCHANGED <<call, attempts, claimVars, callVars, engineVars, storeVars>>

ReduceTensor(r) ==
  /\ at[r] = "reduce" /\ entered[r] = Len(results[r])
  /\ Engine!Contribute(r)
  /\ UNCHANGED <<processVars, claimVars, callVars, storeVars, faults>>

\* Mutant: a tensor is committed as soon as it is reduced.
TensorReducedInPlace(r) ==
  /\ at[r] = "reduce" /\ entered[r] > Len(results[r])
  /\ Engine!Return(r)
  /\ outputs' = [outputs EXCEPT ![r] = @ + 1]
  /\ public' = [public EXCEPT ![r][call[r]] = @ + 1]
  /\ Goto(r, IF outputs'[r] = Tensors THEN "check" ELSE "reduce")
  /\ UNCHANGED <<call, attempts, claimVars, copied, storeVars, faults>>

TensorReduced(r) ==
  /\ at[r] = "reduce" /\ entered[r] > Len(results[r])
  /\ Engine!Return(r)
  /\ outputs' = [outputs EXCEPT ![r] = @ + 1]
  /\ Goto(r, IF outputs'[r] = Tensors THEN "check" ELSE "reduce")
  /\ UNCHANGED <<call, attempts, claimVars, copied, public, storeVars, faults>>

\* The engine raises and is poisoned, before or after the rank contributed.
ReduceRaises(r) ==
  /\ at[r] = "reduce" /\ Failing(r)
  /\ Engine!Leave(r)
  /\ Goto(r, "raised")
  /\ UNCHANGED <<call, attempts, claimVars, callVars, storeVars>>

\* The inputs are compared with their copies, the outputs with the inputs.
CheckPasses(r) ==
  /\ at[r] = "check"
  /\ Goto(r, "commit")
  /\ UNCHANGED <<call, attempts, claimVars, callVars, engineVars, storeVars, faults>>

\* A caller's thread wrote to a tensor meanwhile.  The engine stays READY.
CheckRaises(r) ==
  /\ at[r] = "check" /\ Fault
  /\ Goto(r, "raised")
  /\ UNCHANGED <<call, attempts, claimVars, callVars, engineVars, storeVars>>

CommitTensor(r) ==
  /\ at[r] = "commit"
  /\ copied' = [copied EXCEPT ![r] = @ + 1]
  /\ public' = [public EXCEPT ![r][call[r]] = @ + 1]
  /\ \/ copied'[r] < Tensors /\ UNCHANGED <<at, call>>
     \/ /\ copied'[r] = Tensors
        /\ Goto(r, "ready") /\ call' = [call EXCEPT ![r] = @ + 1]
  /\ UNCHANGED <<attempts, claimVars, outputs, engineVars, storeVars, faults>>

-----------------------------------------------------------------------------
(***************************************************************************)
(* barrier: the sequence is taken, the arrival counted, and the last rank  *)
(* to arrive releases the others.                                          *)
(***************************************************************************)
Barrier(r) ==
  /\ at[r] = "ready" /\ call[r] \in Calls /\ Program[call[r]] = "barrier"
  /\ barrier' = [barrier EXCEPT ![r] = @ + 1]
  /\ Goto(r, "arrive")
  /\ UNCHANGED <<call, attempts, claimVars, callVars, engineVars, arrived, complete, faults>>

\* Mutant: one key for all barriers.
SequenceOfGroup(r) == 0

Sequence(r) == barrier[r] - 1

\* Mutant: rank 0 releases the others, if it is the last.
LastToArriveIsFirstRank(r, count) == count = World /\ r = 0

LastToArrive(r, count) == count = World

Arrive(r) ==
  /\ at[r] = "arrive"
  /\ arrived' = [arrived EXCEPT ![Sequence(r)] = @ + 1]
  /\ Goto(r, IF LastToArrive(r, arrived'[Sequence(r)]) THEN "complete" ELSE "wait")
  /\ UNCHANGED <<call, attempts, claimVars, callVars, engineVars, barrier, complete, faults>>

SetComplete(r) ==
  /\ at[r] = "complete"
  /\ complete' = complete \cup {Sequence(r)}
  /\ Goto(r, "wait")
  /\ UNCHANGED <<call, attempts, claimVars, callVars, engineVars, barrier, arrived, faults>>

Released(r) ==
  /\ at[r] = "wait" /\ Sequence(r) \in complete
  /\ Goto(r, "ready")
  /\ call' = [call EXCEPT ![r] = @ + 1]
  /\ UNCHANGED <<attempts, claimVars, callVars, engineVars, storeVars, faults>>

\* The store's own timeout: nothing else ends a wait for a rank that is gone.
WaitRaises(r) ==
  /\ at[r] = "wait" /\ Failing(r)
  /\ Goto(r, "raised")
  /\ UNCHANGED <<call, attempts, claimVars, callVars, engineVars, storeVars>>

-----------------------------------------------------------------------------
(***************************************************************************)
(* The end: shutdown, or abort after an exception, or the caller tries to  *)
(* construct the group again.                                              *)
(***************************************************************************)
End(r) ==
  /\ Engine!Leave(r)
  /\ IF fd[r] = "capability" /\ claimed[r] THEN CloseNumber(r) ELSE UNCHANGED <<fd, stray>>
  /\ Goto(r, "closed")

\* engine.close, or destroy if it raises: the rank has left either way.
Shutdown(r) ==
  /\ at[r] = "ready" /\ call[r] \notin Calls
  /\ End(r)
  /\ UNCHANGED <<call, attempts, claimed, callVars, entered, results, storeVars, faults>>

Abort(r) ==
  /\ at[r] = "raised"
  /\ End(r)
  /\ UNCHANGED <<call, attempts, claimed, callVars, entered, results, storeVars, faults>>

\* Mutant of the claim's lifetime: a failing construction gives it back.
ConstructAgainUnclaimed(r) ==
  /\ at[r] = "raised" /\ r \notin {q \in Ranks : entered[q] > 0 \/ barrier[q] > 0}
  /\ attempts[r] < Attempts
  /\ claimed' = [claimed EXCEPT ![r] = FALSE]
  /\ Goto(r, "new")
  /\ UNCHANGED <<call, attempts, fd, stray, callVars, engineVars, storeVars, faults>>

ConstructAgain(r) ==
  /\ at[r] = "raised" /\ entered[r] = 0 /\ barrier[r] = 0
  /\ attempts[r] < Attempts
  /\ Goto(r, "new")
  /\ UNCHANGED <<call, attempts, claimVars, callVars, engineVars, storeVars, faults>>

\* External: the process opens another socket, which takes the free number.
NumberReused(r) ==
  /\ fd[r] = "free" /\ at[r] \in {"new", "raised"}
  /\ fd' = [fd EXCEPT ![r] = "reused"]
  /\ UNCHANGED <<processVars, claimed, stray, callVars, engineVars, storeVars, faults>>

\* External: the process dies and the kernel closes what it held.
Dies(r) ==
  /\ at[r] \notin {"closed", "dead"} /\ Fault
  /\ Engine!Leave(r)
  /\ Goto(r, "dead")
  /\ fd' = [fd EXCEPT ![r] = "free"]
  /\ UNCHANGED <<call, attempts, claimed, stray, callVars, storeVars>>

-----------------------------------------------------------------------------
Step(r) ==
  \/ Claim(r) \/ BuildRaises(r) \/ Transfer(r) \/ JoinRaises(r) \/ JoinRank(r)
  \/ JoinedRaises(r) \/ Constructed(r)
  \/ AllReduce(r) \/ AllReduceRefused(r) \/ ReduceTensor(r) \/ TensorReduced(r) \/ ReduceRaises(r)
  \/ CheckPasses(r) \/ CheckRaises(r) \/ CommitTensor(r)
  \/ Barrier(r) \/ Arrive(r) \/ SetComplete(r) \/ Released(r) \/ WaitRaises(r)
  \/ Shutdown(r) \/ Abort(r) \/ ConstructAgain(r)

Next == \E r \in Ranks : Step(r) \/ NumberReused(r) \/ Dies(r)

Spec == Init /\ [][Next]_vars

\* Callers and engines go on; the store's timeout expires.
FairSpec == Spec /\ \A r \in Ranks : WF_vars(Step(r))

-----------------------------------------------------------------------------
(***************************************************************************)
(* An allreduce that raises, or is not in its commit, has written none of  *)
(* the caller's tensors, and one that returned has written all of them     *)
(* with sums that every rank contributed to (145-178).                     *)
(***************************************************************************)
CommitIsAtomic ==
  \A r \in Ranks : \A i \in Calls :
    /\ i < call[r] /\ Program[i] = "allreduce" => public[r][i] = Tensors
    /\ public[r][i] # 0 /\ i = call[r] => at[r] \in {"commit", "dead"}
    /\ public[r][i] # 0 =>
         \A q \in Ranks : entered[q] >= (Before(i, "allreduce") + 1) * Tensors

(***************************************************************************)
(* A rank is past a barrier only when every rank has entered that barrier  *)
(* and committed every all-reduce before it, whoever failed, died or timed *)
(* out meanwhile (182-191).                                                *)
(***************************************************************************)
BarrierSeparates ==
  \A r \in Ranks : \A i \in Calls :
    i < call[r] /\ Program[i] = "barrier" =>
      \A q \in Ranks :
        /\ call[q] >= i /\ barrier[q] > Before(i, "barrier")
        /\ \A j \in 1 .. i - 1 : Program[j] = "allreduce" => public[q][j] = Tensors

(***************************************************************************)
(* However construction fails, and however often it is tried again, the    *)
(* capability's number is closed by its owner, once, and never when it     *)
(* belongs to something else (build_engine, 302-342; join, 363-481).       *)
(***************************************************************************)
CapabilityClosedOnce ==
  \A r \in Ranks : ~stray[r] /\ (at[r] = "closed" /\ claimed[r] => fd[r] # "capability")

(***************************************************************************)
(* Every rank ends, also one that waits in a barrier for a rank that died; *)
(* without faults each has run its program.                                *)
(***************************************************************************)
EveryRankEnds ==
  <>(\A r \in Ranks :
       /\ at[r] \in {"closed", "dead"}
       /\ faults = 0 => call[r] = Len(Program) + 1)
=============================================================================
