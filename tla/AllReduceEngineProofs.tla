----------------------- MODULE AllReduceEngineProofs -----------------------
(***************************************************************************)
(* Proofs about AllReduceEngine for every number of ranks, segments,       *)
(* calls, credits and faults, and every socket depth.                      *)
(***************************************************************************)
EXTENDS AllReduceEngine, SequenceTheorems, TLAPS

-----------------------------------------------------------------------------
(***************************************************************************)
(* The ring: the neighbours of a rank are other ranks, and the predecessor *)
(* of a rank's successor is the rank itself (ranks r, send_rank and        *)
(* receive_rank of the plan).                                              *)
(***************************************************************************)
LEMMA SuccIs ==
  ASSUME NEW r \in Ranks
  PROVE  Succ(r) = IF r = World - 1 THEN 0 ELSE r + 1
BY EngineAssumption DEF Succ, NextRank, Ranks, RanksOf

LEMMA PredIs ==
  ASSUME NEW r \in Ranks
  PROVE  Pred(r) = IF r = 0 THEN World - 1 ELSE r - 1
BY EngineAssumption DEF Pred, PrevRank, Ranks, RanksOf

LEMMA RingNeighbours ==
  ASSUME NEW r \in Ranks
  PROVE  /\ Succ(r) \in Ranks /\ Succ(r) # r
         /\ Pred(r) \in Ranks /\ Pred(r) # r
         /\ Pred(Succ(r)) = r /\ Succ(Pred(r)) = r
<1>1. Succ(r) \in Ranks /\ Succ(r) # r
  BY SuccIs, EngineAssumption DEF Ranks, RanksOf
<1>2. Pred(r) \in Ranks /\ Pred(r) # r
  BY PredIs, EngineAssumption DEF Ranks, RanksOf
<1>3. Pred(Succ(r)) = r
  BY <1>1, SuccIs, PredIs, EngineAssumption DEF Ranks, RanksOf
<1>4. Succ(Pred(r)) = r
  BY <1>2, SuccIs, PredIs, EngineAssumption DEF Ranks, RanksOf
<1> QED BY <1>1, <1>2, <1>3, <1>4

(***************************************************************************)
(* The chunks a rank sends and receives are chunks of the segment.         *)
(***************************************************************************)
LEMMA ChunksInRanks ==
  ASSUME NEW r \in Ranks, NEW k \in Int
  PROVE  SendChunk(World, r, k) \in Ranks /\ ReceiveChunk(World, r, k) \in Ranks
BY EngineAssumption
   DEF SendChunk, ReceiveChunk, PhaseStep, InReduceScatter, Ranks, RanksOf

LEMMA StepsPositive == Steps \in Nat /\ Steps >= 2
BY EngineAssumption DEF Steps, StepCount

(***************************************************************************)
(* Queues: what a send adds and what a read leaves are queues of records.  *)
(***************************************************************************)
LEMMA QueuedTyped ==
  ASSUME EngineTypeOK, NEW a \in Ranks, NEW b \in Ranks, NEW m \in Record
  PROVE  Queued(a, b, m) \in [Ranks -> [Ranks -> Seq(Record)]]
<1>1. sock[a][b] \in Seq(Record) /\ sock[a] \in [Ranks -> Seq(Record)]
  BY DEF EngineTypeOK
<1>2. Append(sock[a][b], m) \in Seq(Record)
  BY <1>1, AppendProperties
<1>3. [sock[a] EXCEPT ![b] = Append(sock[a][b], m)] \in [Ranks -> Seq(Record)]
  BY <1>1, <1>2
<1>4. Queued(a, b, m) = [sock EXCEPT ![a] = [sock[a] EXCEPT ![b] = Append(sock[a][b], m)]]
  BY DEF Queued
<1> QED BY <1>3, <1>4 DEF EngineTypeOK

LEMMA ReadTyped ==
  ASSUME EngineTypeOK, NEW a \in Ranks, NEW b \in Ranks, sock[a][b] # <<>>
  PROVE  /\ Read(a, b) \in [Ranks -> [Ranks -> Seq(Record)]]
         /\ Head(sock[a][b]) \in Record
<1>1. sock[a][b] \in Seq(Record)
  BY DEF EngineTypeOK
<1>2. Tail(sock[a][b]) \in Seq(Record) /\ Head(sock[a][b]) \in Record
  BY <1>1, HeadTailProperties
<1> QED BY <1>2 DEF Read, EngineTypeOK

(***************************************************************************)
(* The records an engine writes are well formed while it is in a segment.  *)
(***************************************************************************)
LEMMA WrittenRecords ==
  ASSUME EngineTypeOK, NEW r \in Ranks
  PROVE  Data(r) \in Record /\ Consumed(r) \in Record /\ AbortRecord(r) \in Record
<1>1. step[r] \in 0 .. Steps /\ seq[r] \in 1 .. LastSequence + 1
  BY DEF EngineTypeOK
<1>2. SendChunk(World, r, step[r]) \in Ranks
  BY <1>1, StepsPositive, ChunksInRanks
<1>3. work[r][SendChunk(World, r, step[r])] \in Values
  BY <1>2 DEF EngineTypeOK
<1>4. NoRank \in 0 .. NoRank /\ blame[r] \in 0 .. NoRank /\ 0 \in 0 .. Steps
  BY EngineAssumption, StepsPositive DEF EngineTypeOK, NoRank
<1>5. <<>> \in Values
  BY DEF Values
<1> QED BY <1>1, <1>3, <1>4, <1>5 DEF Data, Consumed, AbortRecord, Record

(***************************************************************************)
(* A workspace that is empty or holds the input is one.                    *)
(***************************************************************************)
LEMMA Workspaces ==
  ASSUME NEW r \in Ranks
  PROVE  NoWork \in [Ranks -> Values] /\ Input(r) \in [Ranks -> Values]
BY DEF NoWork, Input, Values

(***************************************************************************)
(* _fail_collective keeps the types.                                       *)
(***************************************************************************)
LEMMA FailTyped ==
  ASSUME EngineTypeOK, NEW r \in Ranks, NEW peers \in SUBSET Ranks,
         NEW blamed \in 0 .. NoRank, NEW accused \in 0 .. NoRank,
         Fail(r, peers, blamed, accused),
         sock' \in [Ranks -> [Ranks -> Seq(Record)]],
         faults' \in 0 .. FaultBudget
  PROVE  EngineTypeOK'
<1>1. /\ NoWork \in [Ranks -> Values]
      /\ <<>> \in Values
      /\ <<>> \in Seq([Ranks -> Values])
      /\ "aborted" \in EngineStates
  BY Workspaces DEF Values, EngineStates
<1>2. /\ st' \in [Ranks -> EngineStates]
      /\ busy' \in [Ranks -> BOOLEAN]
      /\ relayTo' \in [Ranks -> SUBSET Ranks]
      /\ blame' \in [Ranks -> 0 .. NoRank]
      /\ accuse' \in [Ranks -> 0 .. NoRank]
  BY <1>1 DEF EngineTypeOK, Fail
<1>3. /\ work' \in [Ranks -> [Ranks -> Values]]
      /\ staged' \in [Ranks -> Values]
      /\ completed' \in [Ranks -> Seq([Ranks -> Values])]
  BY <1>1 DEF EngineTypeOK, Fail
<1>4. inflight' \in [Ranks -> Int] /\ slots' \in [Ranks -> Int]
  BY DEF EngineTypeOK, Fail
<1> QED BY <1>2, <1>3, <1>4 DEF EngineTypeOK, Fail, controlVars, brokerVars


USE DEF segmentVars, valueVars, carrierVars, abortVars, controlVars, brokerVars

LEMMA GotoTyped ==
  ASSUME EngineTypeOK, NEW r \in Ranks, NEW stage \in Stages, Goto(r, stage)
  PROVE  pc' \in [Ranks -> Stages] /\ busy' \in [Ranks -> BOOLEAN]
BY DEF EngineTypeOK, Goto

LEMMA Names ==
  /\ \A s \in {"idle", "prepare", "send", "receive", "apply", "ack", "await", "finish"} :
       s \in Stages
  /\ \A s \in {"ready", "active", "closing", "aborted", "closed", "crashed"} :
       s \in EngineStates
BY DEF Stages, EngineStates

(***************************************************************************)
(* Each transfer action keeps the types.                                   *)
(***************************************************************************)
LEMMA TransferTyped ==
  ASSUME EngineTypeOK, EngineConsistent, NEW r \in Ranks, Transfer(r)
  PROVE  EngineTypeOK'
<1>r. /\ r \in 0 .. NoRank
      /\ Ranks \ {r} \in SUBSET Ranks
      /\ Succ(r) \in Ranks /\ Pred(r) \in Ranks
  BY RingNeighbours, EngineAssumption DEF Ranks, RanksOf, NoRank
<1>v. <<>> \in Values /\ <<>> \in Seq([Ranks -> Values])
  BY DEF Values
<1>f. ASSUME FailSegment(r, r, r), UNCHANGED faults,
             sock' \in [Ranks -> [Ranks -> Seq(Record)]]
      PROVE  EngineTypeOK'
  <2>1. faults' \in 0 .. FaultBudget
    BY <1>f DEF EngineTypeOK
  <2> QED BY <1>f, <1>r, <2>1, FailTyped DEF FailSegment
<1>1. CASE StartAllReduce(r)
  <2>1. pc' \in [Ranks -> Stages] /\ busy' \in [Ranks -> BOOLEAN]
    BY <1>1, GotoTyped, Names DEF StartAllReduce
  <2> QED BY <1>1, <2>1, Workspaces, Names DEF EngineTypeOK, StartAllReduce
<1>2. CASE PrepareData(r)
  <2>1. CASE inflight[r] < Credits
    <3>1. pc' \in [Ranks -> Stages] /\ busy' \in [Ranks -> BOOLEAN]
      BY <1>2, <2>1, GotoTyped, Names DEF PrepareData
    <3>2. inflight' \in [Ranks -> Int]
      BY <1>2, <2>1 DEF PrepareData, EngineTypeOK
    <3> QED BY <1>2, <2>1, <3>1, <3>2 DEF EngineTypeOK, PrepareData
  <2>2. CASE ~(inflight[r] < Credits)
    BY <1>2, <2>2, <1>f DEF PrepareData, EngineTypeOK
  <2> QED BY <2>1, <2>2
<1>3. CASE SendData(r)
  <2>1. sock' \in [Ranks -> [Ranks -> Seq(Record)]]
    BY <1>3, <1>r, WrittenRecords, QueuedTyped DEF SendData
  <2>2. pc' \in [Ranks -> Stages] /\ busy' \in [Ranks -> BOOLEAN]
    BY <1>3, GotoTyped, Names DEF SendData
  <2> QED BY <1>3, <2>1, <2>2 DEF EngineTypeOK, SendData
<1>4. CASE ReceiveData(r)
  <2> DEFINE m == Head(sock[Pred(r)][r])
             expected == m.kind = "DATA" /\ m.seq = seq[r] /\ m.step = step[r]
  <2>1. m \in Record /\ sock' \in [Ranks -> [Ranks -> Seq(Record)]]
    BY <1>4, <1>r, ReadTyped DEF ReceiveData
  <2>2. CASE expected
    <3>1. m.payload \in Values
      BY <2>1 DEF Record
    <3>2. staged' \in [Ranks -> Values]
      BY <1>4, <2>2, <3>1 DEF EngineTypeOK, ReceiveData
    <3>3. slots' \in [Ranks -> Int]
      BY <1>4, <2>2 DEF EngineTypeOK, ReceiveData
    <3>4. pc' \in [Ranks -> Stages] /\ busy' \in [Ranks -> BOOLEAN]
      BY <1>4, <2>2, GotoTyped, Names DEF ReceiveData
    <3> QED BY <1>4, <2>1, <2>2, <3>2, <3>3, <3>4 DEF EngineTypeOK, ReceiveData
  <2>3. CASE ~expected
    BY <1>4, <2>1, <2>3, <1>f DEF ReceiveData
  <2> QED BY <2>2, <2>3
<1>5. CASE ApplyInbound(r)
  <2> DEFINE c == ReceiveChunk(World, r, step[r])
  <2>1. c \in Ranks
    BY ChunksInRanks, StepsPositive DEF EngineTypeOK
  <2>2. staged[r] \in Values /\ work[r][c] \in Values
    BY <2>1 DEF EngineTypeOK
  <2>3. staged[r] \o work[r][c] \in Values
    BY <2>2, ConcatProperties DEF Values
  <2>4. staged' \in [Ranks -> Values]
    BY <1>5, <1>v DEF EngineTypeOK, ApplyInbound
  <2>5. work' \in [Ranks -> [Ranks -> Values]]
    BY <1>5, <2>1, <2>2, <2>3 DEF EngineTypeOK, ApplyInbound
  <2>6. pc' \in [Ranks -> Stages] /\ busy' \in [Ranks -> BOOLEAN]
    BY <1>5, GotoTyped, Names DEF ApplyInbound
  <2> QED BY <1>5, <2>4, <2>5, <2>6 DEF EngineTypeOK, ApplyInbound
<1>6. CASE SendConsumed(r)
  <2>1. sock' \in [Ranks -> [Ranks -> Seq(Record)]]
    BY <1>6, <1>r, WrittenRecords, QueuedTyped DEF SendConsumed
  <2>2. slots' \in [Ranks -> Int]
    BY <1>6 DEF EngineTypeOK, SendConsumed
  <2>3. pc' \in [Ranks -> Stages] /\ busy' \in [Ranks -> BOOLEAN]
    BY <1>6, GotoTyped, Names DEF SendConsumed
  <2> QED BY <1>6, <2>1, <2>2, <2>3 DEF EngineTypeOK, SendConsumed
<1>7. CASE ReceiveConsumed(r)
  <2> DEFINE m == Head(sock[Succ(r)][r])
             expected == m.kind = "CONSUMED" /\ m.seq = seq[r] /\ m.step = step[r]
  <2>1. m \in Record /\ sock' \in [Ranks -> [Ranks -> Seq(Record)]]
    BY <1>7, <1>r, ReadTyped DEF ReceiveConsumed
  <2>2. CASE expected
    <3>a. step[r] \in 0 .. Steps /\ step[r] < Steps
      BY <1>7 DEF EngineTypeOK, EngineConsistent, Consistent, ReceiveConsumed, At
    <3>1. step[r] + 1 \in 0 .. Steps
      BY <3>a, StepsPositive
    <3>2. step' \in [Ranks -> 0 .. Steps]
      BY <1>7, <2>2, <3>1 DEF EngineTypeOK, ReceiveConsumed, CompleteStep
    <3>3. inflight' \in [Ranks -> Int]
      BY <1>7, <2>2 DEF EngineTypeOK, ReceiveConsumed, CompleteStep
    <3>4. pc' \in [Ranks -> Stages] /\ busy' \in [Ranks -> BOOLEAN]
      BY <1>7, <2>2, GotoTyped, Names DEF ReceiveConsumed, CompleteStep
    <3> QED BY <1>7, <2>1, <2>2, <3>2, <3>3, <3>4 DEF EngineTypeOK, ReceiveConsumed
  <2>3. CASE ~expected
    BY <1>7, <2>1, <2>3, <1>f DEF ReceiveConsumed
  <2> QED BY <2>2, <2>3
<1>8. CASE FinishSegment(r)
  <2>1. CASE CarrierClean(r)
    <3>a. seq[r] \in 1 .. LastSequence + 1 /\ seq[r] <= LastSequence
      BY <1>8 DEF EngineTypeOK, EngineConsistent, Consistent, FinishSegment, At
    <3>1. seq[r] + 1 \in 1 .. LastSequence + 1 /\ 0 \in 0 .. Steps
      BY <3>a, StepsPositive, EngineAssumption
    <3>b. /\ seq' = [seq EXCEPT ![r] = seq[r] + 1]
          /\ step' = [step EXCEPT ![r] = 0]
          /\ work' = [work EXCEPT ![r] = Input(r)]
      BY <1>8, <2>1 DEF FinishSegment, NextSegment
    <3>2. seq' \in [Ranks -> 1 .. LastSequence + 1] /\ step' \in [Ranks -> 0 .. Steps]
      BY <3>1, <3>b DEF EngineTypeOK
    <3>3. pc' \in [Ranks -> Stages] /\ busy' \in [Ranks -> BOOLEAN]
      BY <1>8, <2>1, GotoTyped, Names DEF FinishSegment, NextSegment
    <3>4. work[r] \in [Ranks -> Values] /\ completed[r] \in Seq([Ranks -> Values])
      BY DEF EngineTypeOK
    <3>5. Append(completed[r], work[r]) \in Seq([Ranks -> Values])
      BY <3>4, AppendProperties
    <3>6. completed' \in [Ranks -> Seq([Ranks -> Values])]
      BY <1>8, <2>1, <3>5 DEF EngineTypeOK, FinishSegment
    <3>7. work' \in [Ranks -> [Ranks -> Values]]
      BY <3>b, Workspaces DEF EngineTypeOK
    <3> QED BY <1>8, <2>1, <3>2, <3>3, <3>6, <3>7 DEF EngineTypeOK, FinishSegment, NextSegment
  <2>2. CASE ~CarrierClean(r)
    BY <1>8, <2>2, <1>f DEF FinishSegment, EngineTypeOK
  <2> QED BY <2>1, <2>2
<1>9. CASE Commit(r)
  <2>1. CASE CarrierClean(r)
    <3>a. seq[r] \in 1 .. LastSequence + 1 /\ seq[r] <= LastSequence
      BY <1>9 DEF EngineTypeOK, EngineConsistent, Consistent, Commit, At
    <3>1. seq[r] + 1 \in 1 .. LastSequence + 1 /\ 0 \in 0 .. Steps
      BY <3>a, StepsPositive, EngineAssumption
    <3>b. /\ seq' = [seq EXCEPT ![r] = seq[r] + 1]
          /\ step' = [step EXCEPT ![r] = 0]
          /\ public' = [public EXCEPT ![r] = public[r] \o Append(completed[r], work[r])]
      BY <1>9, <2>1 DEF Commit
    <3>2. seq' \in [Ranks -> 1 .. LastSequence + 1] /\ step' \in [Ranks -> 0 .. Steps]
      BY <3>1, <3>b DEF EngineTypeOK
    <3>3. pc' \in [Ranks -> Stages] /\ busy' \in [Ranks -> BOOLEAN]
      BY <1>9, <2>1, GotoTyped, Names DEF Commit
    <3>4. /\ work[r] \in [Ranks -> Values]
          /\ completed[r] \in Seq([Ranks -> Values])
          /\ public[r] \in Seq([Ranks -> Values])
      BY DEF EngineTypeOK
    <3>5. public[r] \o Append(completed[r], work[r]) \in Seq([Ranks -> Values])
      BY <3>4, AppendProperties, ConcatProperties
    <3>6. public' \in [Ranks -> Seq([Ranks -> Values])]
      BY <3>5, <3>b DEF EngineTypeOK
    <3>7. completed' \in [Ranks -> Seq([Ranks -> Values])]
      BY <1>9, <1>v, <2>1 DEF EngineTypeOK, Commit
    <3>8. work' \in [Ranks -> [Ranks -> Values]]
      BY <1>9, <2>1, Workspaces DEF EngineTypeOK, Commit
    <3>9. st' \in [Ranks -> EngineStates]
      BY <1>9, <2>1, Names DEF EngineTypeOK, Commit
    <3> QED BY <1>9, <2>1, <3>2, <3>3, <3>6, <3>7, <3>8, <3>9 DEF EngineTypeOK, Commit
  <2>2. CASE ~CarrierClean(r)
    BY <1>9, <2>2, <1>f DEF Commit, EngineTypeOK
  <2> QED BY <2>1, <2>2
<1> QED
  BY <1>1, <1>2, <1>3, <1>4, <1>5, <1>6, <1>7, <1>8, <1>9 DEF Transfer

(***************************************************************************)
(* Failing, unwinding, leaving and the broker keep the types.              *)
(***************************************************************************)
LEMMA FaultTyped ==
  ASSUME EngineTypeOK, NEW kind, Fault(kind)
  PROVE  faults' \in 0 .. FaultBudget
BY EngineAssumption DEF EngineTypeOK, Fault

LEMMA UnwindTyped ==
  ASSUME EngineTypeOK, EngineConsistent, NEW r \in Ranks, Unwind(r)
  PROVE  EngineTypeOK'
<1>r. /\ r \in 0 .. NoRank /\ NoRank \in 0 .. NoRank
      /\ Ranks \subseteq 0 .. NoRank
      /\ Ranks \ {r} \in SUBSET Ranks
      /\ WaitPeer(r) \in Ranks
  BY RingNeighbours, EngineAssumption DEF Ranks, RanksOf, NoRank, WaitPeer
<1>s. sock \in [Ranks -> [Ranks -> Seq(Record)]] /\ faults \in 0 .. FaultBudget
  BY DEF EngineTypeOK
<1>1. CASE FindBusy(r)
  <2>1. busy' \in [Ranks -> BOOLEAN]
    BY <1>1 DEF EngineTypeOK, FindBusy
  <2> QED BY <1>1, <2>1 DEF EngineTypeOK, FindBusy
<1>2. CASE PollAbort(r)
  <2>1. PICK e \in firstError : FailSegment(r, e.failed, e.failed)
    BY <1>2 DEF PollAbort
  <2>2. e.failed \in 0 .. NoRank
    BY <1>r DEF EngineTypeOK, LiveAbort
  <2>3. UNCHANGED <<sock, faults>>
    BY <1>2 DEF PollAbort
  <2> QED BY <1>r, <1>s, <2>1, <2>2, <2>3, FailTyped DEF FailSegment
<1>3. CASE ObservePeerAbort(r)
  <2> DEFINE m == Head(sock[WaitPeer(r)][r])
  <2>1. m \in Record /\ sock' \in [Ranks -> [Ranks -> Seq(Record)]]
    BY <1>3, <1>r, ReadTyped DEF ObservePeerAbort, HeadIs
  <2>2. m.failed \in 0 .. NoRank
    BY <2>1 DEF Record
  <2>3. FailSegment(r, m.failed, r) /\ UNCHANGED faults
    BY <1>3 DEF ObservePeerAbort
  <2> QED BY <1>r, <1>s, <2>1, <2>2, <2>3, FailTyped DEF FailSegment
<1>4. CASE ObservePeerLoss(r)
  <2>1. PICK blamed \in {r, WaitPeer(r)} : FailSegment(r, blamed, r)
    BY <1>4 DEF ObservePeerLoss
  <2>2. blamed \in 0 .. NoRank
    BY <1>r
  <2>3. UNCHANGED <<sock, faults>>
    BY <1>4 DEF ObservePeerLoss
  <2> QED BY <1>r, <1>s, <2>1, <2>2, <2>3, FailTyped DEF FailSegment
<1>5. CASE RelayAbort(r)
  <2>1. PICK peer \in relayTo[r] :
          /\ relayTo' = [relayTo EXCEPT ![r] = @ \ {peer}]
          /\ sock' = IF Room(r, peer) THEN Queued(r, peer, AbortRecord(r)) ELSE sock
    BY <1>5 DEF RelayAbort
  <2>2. peer \in Ranks
    BY DEF EngineTypeOK
  <2>3. sock' \in [Ranks -> [Ranks -> Seq(Record)]]
    BY <1>s, <2>1, <2>2, WrittenRecords, QueuedTyped
  <2>4. relayTo' \in [Ranks -> SUBSET Ranks]
    BY <2>1 DEF EngineTypeOK
  <2> QED BY <1>5, <2>3, <2>4 DEF EngineTypeOK, RelayAbort
<1>6. CASE ReportAndRelease(r)
  <2>1. [reporter |-> r, failed |-> accuse[r]] \in LiveAbort
    BY <1>6, <1>r DEF ReportAndRelease, EngineConsistent, Consistent, LiveAbort
  <2>2. report' \in [Ranks -> SUBSET LiveAbort]
    BY <1>6, <2>1 DEF ReportAndRelease, EngineTypeOK
  <2>3. held' \in [Ranks -> BOOLEAN] /\ blame' \in [Ranks -> 0 .. NoRank]
    BY <1>6, <1>r DEF ReportAndRelease, EngineTypeOK
  <2> QED BY <1>6, <2>2, <2>3 DEF EngineTypeOK, ReportAndRelease
<1> QED BY <1>1, <1>2, <1>3, <1>4, <1>5, <1>6 DEF Unwind

LEMMA LeaveTyped ==
  ASSUME EngineTypeOK, NEW r \in Ranks, Leave(r)
  PROVE  EngineTypeOK'
<1>1. /\ st' \in [Ranks -> EngineStates]
      /\ held' \in [Ranks -> BOOLEAN]
      /\ departed' \subseteq Ranks
  BY Names DEF EngineTypeOK, Leave, Close, FinishClose, CloseFails, CloseAborted
<1>2. faults' \in 0 .. FaultBudget
  BY FaultTyped DEF EngineTypeOK, Leave, Close, FinishClose, CloseFails, CloseAborted
<1> QED
  BY <1>1, <1>2 DEF EngineTypeOK, Leave, Close, FinishClose, CloseFails, CloseAborted

LEMMA MisfortuneTyped ==
  ASSUME EngineTypeOK, NEW r \in Ranks, Misfortune(r)
  PROVE  EngineTypeOK'
<1>r. /\ r \in 0 .. NoRank /\ NoRank \in 0 .. NoRank
      /\ Ranks \subseteq 0 .. NoRank
      /\ Ranks \ {r} \in SUBSET Ranks /\ {} \in SUBSET Ranks
  BY EngineAssumption DEF Ranks, RanksOf, NoRank
<1>s. sock \in [Ranks -> [Ranks -> Seq(Record)]]
  BY DEF EngineTypeOK
<1>f. faults' \in 0 .. FaultBudget
  BY FaultTyped
     DEF Misfortune, RejectCall, FailLocally, TimeOut, Abort, Destroy, Crash
<1>1. CASE RejectCall(r)
  BY <1>1, <1>r, <1>s, <1>f, FailTyped DEF RejectCall
<1>2. CASE FailLocally(r)
  BY <1>2, <1>r, <1>s, <1>f, FailTyped DEF FailLocally, FailSegment
<1>3. CASE TimeOut(r)
  BY <1>3, <1>r, <1>s, <1>f, FailTyped DEF TimeOut, FailSegment
<1>4. CASE Abort(r)
  <2>1. PICK target \in Ranks : Fail(r, {}, NoRank, target)
    BY <1>4 DEF Abort
  <2> QED BY <1>4, <1>r, <1>s, <1>f, <2>1, FailTyped DEF Abort
<1>5. CASE Destroy(r)
  BY <1>5, <1>f, Names DEF Destroy, EngineTypeOK
<1>6. CASE Crash(r)
  <2>1. <<>> \in Values /\ <<>> \in Seq([Ranks -> Values])
    BY DEF Values
  <2>2. /\ st' \in [Ranks -> EngineStates]
        /\ held' \in [Ranks -> BOOLEAN]
        /\ busy' \in [Ranks -> BOOLEAN]
        /\ relayTo' \in [Ranks -> SUBSET Ranks]
        /\ blame' \in [Ranks -> 0 .. NoRank]
    BY <1>6, <1>r, Names DEF Crash, EngineTypeOK
  <2>3. /\ work' \in [Ranks -> [Ranks -> Values]]
        /\ staged' \in [Ranks -> Values]
        /\ completed' \in [Ranks -> Seq([Ranks -> Values])]
    BY <1>6, <2>1, Workspaces DEF Crash, EngineTypeOK
  <2>4. inflight' \in [Ranks -> Int] /\ slots' \in [Ranks -> Int]
    BY <1>6 DEF Crash, EngineTypeOK
  <2> QED BY <1>6, <1>f, <2>2, <2>3, <2>4 DEF Crash, EngineTypeOK
<1> QED BY <1>1, <1>2, <1>3, <1>4, <1>5, <1>6 DEF Misfortune

LEMMA BrokerTyped ==
  ASSUME EngineTypeOK, Broker
  PROVE  EngineTypeOK'
<1>0. NoRank \in 0 .. NoRank /\ 0 \in Ranks /\ Ranks \subseteq 0 .. NoRank
  BY EngineAssumption DEF Ranks, RanksOf, NoRank
<1>1. CASE BrokerDeadline
  <2>1. faults' \in 0 .. FaultBudget
    BY <1>1, FaultTyped DEF BrokerDeadline
  <2>2. [reporter |-> NoRank, failed |-> 0] \in LiveAbort
    BY <1>0 DEF LiveAbort
  <2> QED BY <1>1, <2>1, <2>2 DEF BrokerDeadline, EngineTypeOK
<1>2. ASSUME NEW r \in Ranks, BrokerLatch(r) PROVE EngineTypeOK'
  <2>1. report[r] \subseteq LiveAbort
    BY DEF EngineTypeOK
  <2> QED BY <1>2, <2>1 DEF BrokerLatch, EngineTypeOK
<1>3. ASSUME NEW r \in Ranks, BrokerObserveLoss(r) PROVE EngineTypeOK'
  <2>1. [reporter |-> NoRank, failed |-> r] \in LiveAbort
    BY <1>0 DEF LiveAbort
  <2> QED BY <1>3, <2>1 DEF BrokerObserveLoss, EngineTypeOK
<1>4. ASSUME NEW r \in Ranks, BrokerRelay(r) PROVE EngineTypeOK'
  BY <1>4 DEF BrokerRelay, EngineTypeOK
<1> QED BY <1>1, <1>2, <1>3, <1>4 DEF Broker

LEMMA StutterTyped ==
  ASSUME EngineTypeOK, UNCHANGED vars
  PROVE  EngineTypeOK'
BY DEF EngineTypeOK, vars

-----------------------------------------------------------------------------
(***************************************************************************)
(* The parts of an engine keep agreeing.                                   *)
(***************************************************************************)
LEMMA ConsistentFrame ==
  ASSUME EngineConsistent, NEW q \in Ranks,
         st'[q] = st[q], pc'[q] = pc[q], step'[q] = step[q], seq'[q] = seq[q],
         held'[q] = held[q], accuse'[q] = accuse[q]
  PROVE  Consistent(q)'
BY DEF EngineConsistent, Consistent, Unwinding

LEMMA FailConsistent ==
  ASSUME EngineTypeOK, EngineConsistent, NEW r \in Ranks, NEW peers, NEW blamed,
         NEW accused \in Ranks, Fail(r, peers, blamed, accused)
  PROVE  EngineConsistent'
<1> SUFFICES ASSUME NEW q \in Ranks PROVE Consistent(q)'
  BY DEF EngineConsistent
<1>1. CASE q # r
  BY <1>1, ConsistentFrame DEF Fail, EngineTypeOK
<1>2. CASE q = r
  BY <1>2 DEF Fail, EngineTypeOK, EngineConsistent, Consistent, Unwinding
<1> QED BY <1>1, <1>2

LEMMA TransferConsistent ==
  ASSUME EngineTypeOK, EngineConsistent, NEW r \in Ranks, Transfer(r)
  PROVE  EngineConsistent'
<1>0. r \in Ranks /\ (FailSegment(r, r, r) => EngineConsistent')
  BY FailConsistent DEF FailSegment
<1>1. CASE StartAllReduce(r)
  <2> SUFFICES ASSUME NEW q \in Ranks PROVE Consistent(q)'
    BY DEF EngineConsistent
  <2>1. CASE q # r
    BY <1>1, <2>1, ConsistentFrame DEF StartAllReduce, Goto, EngineTypeOK
  <2>2. CASE q = r
    BY <1>1, <2>2, StepsPositive
       DEF StartAllReduce, Goto, At, Active, EngineTypeOK, EngineConsistent, Consistent, Unwinding
  <2> QED BY <2>1, <2>2
<1>2. CASE PrepareData(r)
  <2> SUFFICES ASSUME NEW q \in Ranks, ~FailSegment(r, r, r) PROVE Consistent(q)'
    BY <1>0 DEF EngineConsistent
  <2>1. CASE q # r
    BY <1>2, <2>1, ConsistentFrame DEF PrepareData, Goto, EngineTypeOK
  <2>2. CASE q = r
    BY <1>2, <2>2
       DEF PrepareData, Goto, At, Active, EngineTypeOK,
           EngineConsistent, Consistent, Unwinding
  <2> QED BY <2>1, <2>2
<1>3. CASE SendData(r)
  BY <1>3 DEF SendData, Goto, At, Active, EngineTypeOK, EngineConsistent, Consistent, Unwinding
<1>4. CASE ReceiveData(r)
  BY <1>0, <1>4
     DEF ReceiveData, Goto, At, Active, EngineTypeOK, EngineConsistent, Consistent, Unwinding
<1>5. CASE ApplyInbound(r)
  BY <1>5 DEF ApplyInbound, Goto, At, Active, EngineTypeOK, EngineConsistent, Consistent, Unwinding
<1>6. CASE SendConsumed(r)
  BY <1>6 DEF SendConsumed, Goto, At, Active, EngineTypeOK, EngineConsistent, Consistent, Unwinding
<1>7. CASE ReceiveConsumed(r)
  <2>1. CASE FailSegment(r, r, r)
    BY <1>0, <2>1
  <2>2. CASE CompleteStep(r) /\ UNCHANGED <<st, seq, held, accuse>>
    <3>1. step[r] \in 0 .. Steps /\ step[r] < Steps
      BY <1>7 DEF ReceiveConsumed, At, EngineConsistent, Consistent, EngineTypeOK
    <3>2. step[r] + 1 # Steps => step[r] + 1 < Steps
      BY <3>1, StepsPositive
    <3> QED BY <1>7, <2>2, <3>1, <3>2
            DEF ReceiveConsumed, CompleteStep, Goto, At, Active,
                EngineTypeOK, EngineConsistent, Consistent, Unwinding
  <2> QED BY <1>7, <2>1, <2>2 DEF ReceiveConsumed
<1>8. CASE FinishSegment(r)
  <2>1. CASE FailSegment(r, r, r)
    BY <1>0, <2>1
  <2>2. CASE NextSegment(r)
    <3>1. seq[r] \in 1 .. LastSequence /\ seq[r] # LastSequence
      BY <1>8, EngineAssumption
         DEF FinishSegment, At, EngineConsistent, Consistent, EngineTypeOK
    <3>2. seq[r] + 1 <= LastSequence /\ 0 < Steps
      BY <3>1, EngineAssumption, StepsPositive
    <3> QED BY <1>8, <2>2, <3>2
            DEF FinishSegment, NextSegment, Goto, At, Active,
                EngineTypeOK, EngineConsistent, Consistent, Unwinding
  <2> QED BY <1>8, <2>1, <2>2 DEF FinishSegment
<1>9. CASE Commit(r)
  <2> SUFFICES ASSUME NEW q \in Ranks, ~FailSegment(r, r, r) PROVE Consistent(q)'
    BY <1>0 DEF EngineConsistent
  <2>1. CASE q # r
    BY <1>9, <2>1, ConsistentFrame DEF Commit, Goto, EngineTypeOK
  <2>2. CASE q = r
    BY <1>9, <2>2, StepsPositive
       DEF Commit, Goto, At, Active, EngineTypeOK,
           EngineConsistent, Consistent, Unwinding
  <2> QED BY <2>1, <2>2
<1> QED
  BY <1>1, <1>2, <1>3, <1>4, <1>5, <1>6, <1>7, <1>8, <1>9 DEF Transfer

LEMMA UnwindConsistent ==
  ASSUME EngineTypeOK, EngineConsistent, NEW r \in Ranks, Unwind(r)
  PROVE  EngineConsistent'
<1>1. CASE FindBusy(r) \/ RelayAbort(r)
  BY <1>1 DEF FindBusy, RelayAbort, EngineConsistent, Consistent, Unwinding
<1>4. CASE ReportAndRelease(r)
  <2> SUFFICES ASSUME NEW q \in Ranks PROVE Consistent(q)'
    BY DEF EngineConsistent
  <2>1. CASE q # r
    BY <1>4, <2>1, ConsistentFrame DEF ReportAndRelease, EngineTypeOK
  <2>2. CASE q = r
    BY <1>4, <2>2
       DEF ReportAndRelease, At, Active, EngineTypeOK, EngineConsistent, Consistent, Unwinding
  <2> QED BY <2>1, <2>2
<1>2. CASE PollAbort(r)
  <2>1. PICK e \in firstError : FailSegment(r, e.failed, e.failed)
    BY <1>2 DEF PollAbort
  <2>2. e.failed \in Ranks
    BY DEF EngineTypeOK, LiveAbort
  <2> QED BY <2>1, <2>2, FailConsistent DEF FailSegment
<1>3. CASE ObservePeerAbort(r) \/ ObservePeerLoss(r)
  BY <1>3, FailConsistent DEF ObservePeerAbort, ObservePeerLoss, FailSegment
<1> QED BY <1>1, <1>2, <1>3, <1>4 DEF Unwind

LEMMA LeaveConsistent ==
  ASSUME EngineTypeOK, EngineConsistent, NEW r \in Ranks, Leave(r)
  PROVE  EngineConsistent'
<1>0. CASE Leave(r)
  <2> SUFFICES ASSUME NEW q \in Ranks PROVE Consistent(q)'
    BY DEF EngineConsistent
  <2>1. CASE q # r
    BY <1>0, <2>1, ConsistentFrame DEF Leave, Close, FinishClose, CloseFails, CloseAborted, EngineTypeOK
  <2>2. CASE q = r
    BY <1>0, <2>2
       DEF Leave, Close, FinishClose, CloseFails, CloseAborted, At, Active, EngineTypeOK, EngineConsistent, Consistent, Unwinding
  <2> QED BY <2>1, <2>2
<1> QED BY <1>0

LEMMA MisfortuneConsistent ==
  ASSUME EngineTypeOK, EngineConsistent, NEW r \in Ranks, Misfortune(r)
  PROVE  EngineConsistent'
<1>1. CASE RejectCall(r) \/ FailLocally(r) \/ TimeOut(r) \/ Abort(r)
  BY <1>1, FailConsistent DEF RejectCall, FailLocally, TimeOut, Abort, FailSegment
<1>2. CASE Destroy(r) \/ Crash(r)
  <2> SUFFICES ASSUME NEW q \in Ranks PROVE Consistent(q)'
    BY DEF EngineConsistent
  <2>1. CASE q # r
    BY <1>2, <2>1, ConsistentFrame DEF Destroy, Crash, EngineTypeOK
  <2>2. CASE q = r
    BY <1>2, <2>2
       DEF Destroy, Crash, At, Active, EngineTypeOK, EngineConsistent, Consistent, Unwinding
  <2> QED BY <2>1, <2>2
<1> QED BY <1>1, <1>2 DEF Misfortune

LEMMA BrokerConsistent ==
  ASSUME EngineConsistent, Broker \/ UNCHANGED vars
  PROVE  EngineConsistent'
BY DEF Broker, BrokerDeadline, BrokerLatch, BrokerObserveLoss, BrokerRelay, vars,
       EngineConsistent, Consistent, Unwinding

(***************************************************************************)
(* The step lemmas together.                                               *)
(***************************************************************************)
EngineInv == EngineTypeOK /\ EngineConsistent

LEMMA EngineInit == Init => EngineInv
<1> SUFFICES ASSUME Init PROVE EngineInv
  OBVIOUS
<1>1. NoRank \in 0 .. NoRank /\ 1 \in 1 .. LastSequence + 1
      /\ 0 \in 0 .. Steps /\ 0 \in 0 .. FaultBudget
  BY EngineAssumption, StepsPositive DEF NoRank
<1>2. <<>> \in Values /\ <<>> \in Seq([Ranks -> Values]) /\ <<>> \in Seq(Record)
  BY DEF Values
<1>3. NoWork \in [Ranks -> Values]
  BY <1>2 DEF NoWork
<1>4. EngineTypeOK
  BY <1>1, <1>2, <1>3, Names DEF Init, EngineTypeOK
<1>5. EngineConsistent
  BY DEF Init, EngineConsistent, Consistent, Unwinding
<1> QED BY <1>4, <1>5 DEF EngineInv

LEMMA EngineStep == EngineInv /\ [Next]_vars => EngineInv'
<1> SUFFICES ASSUME EngineInv, [Next]_vars PROVE EngineInv'
  OBVIOUS
<1> USE DEF EngineInv
<1>1. CASE \E r \in Ranks : Transfer(r)
  BY <1>1, TransferTyped, TransferConsistent
<1>2. CASE \E r \in Ranks : Unwind(r)
  BY <1>2, UnwindTyped, UnwindConsistent
<1>3. CASE \E r \in Ranks : Leave(r)
  BY <1>3, LeaveTyped, LeaveConsistent
<1>4. CASE \E r \in Ranks : Misfortune(r)
  BY <1>4, MisfortuneTyped, MisfortuneConsistent
<1>5. CASE Broker
  BY <1>5, BrokerTyped, BrokerConsistent
<1>6. CASE UNCHANGED vars
  BY <1>6, StutterTyped, BrokerConsistent
<1> QED BY <1>1, <1>2, <1>3, <1>4, <1>5, <1>6 DEF Next, Done

(***************************************************************************)
(* Every reachable state is well typed: no sequence or step leaves its     *)
(* plan, and every record names ranks of the group.                        *)
(***************************************************************************)
THEOREM TypeCorrect == Spec => []EngineTypeOK
<1>1. EngineInv => EngineTypeOK
  BY DEF EngineInv
<1> QED BY <1>1, EngineInit, EngineStep, PTL DEF Spec

(***************************************************************************)
(* Stage, sequence, step and state of an engine agree in every reachable   *)
(* state, interrupted engines included.                                    *)
(***************************************************************************)
THEOREM ConsistentEngines == Spec => []EngineConsistent
<1>1. EngineInv => EngineConsistent
  BY DEF EngineInv
<1> QED BY <1>1, EngineInit, EngineStep, PTL DEF Spec

-----------------------------------------------------------------------------
(***************************************************************************)
(* What a step may do to the position of a rank: nothing, complete its     *)
(* step on the matching CONSUMED, or go on to the next sequence after the  *)
(* last step of the plan.                                                  *)
(***************************************************************************)
Stays(r) ==
  /\ seq'[r] = seq[r] /\ step'[r] = step[r]
  /\ pc[r] = "await" => pc'[r] = "await"
Acknowledged(r) ==
  /\ sock[Succ(r)][r] # <<>>
  /\ Head(sock[Succ(r)][r]).kind = "CONSUMED"
  /\ Head(sock[Succ(r)][r]).seq = seq[r]
  /\ Head(sock[Succ(r)][r]).step = step[r]
Completes(r) == Acknowledged(r) /\ seq'[r] = seq[r] /\ step'[r] = step[r] + 1
GoesOn(r) == step[r] = Steps /\ seq'[r] = seq[r] + 1 /\ step'[r] = 0
Moves(r) == Stays(r) \/ Completes(r) \/ GoesOn(r)

LEMMA TransferMoves ==
  ASSUME EngineInv, NEW r \in Ranks, NEW q \in Ranks, Transfer(r)
  PROVE  Moves(q)
<1> USE DEF EngineInv
<1>1. CASE \/ StartAllReduce(r) \/ PrepareData(r) \/ SendData(r) \/ ReceiveData(r)
           \/ ApplyInbound(r) \/ SendConsumed(r)
  <2>1. seq' = seq /\ step' = step
    BY <1>1 DEF StartAllReduce, PrepareData, SendData, ReceiveData, ApplyInbound,
                SendConsumed, FailSegment, Fail
  <2>2. pc' = pc \/ (pc[r] # "await" /\ \E stage \in Stages : Goto(r, stage))
    BY <1>1, Names
       DEF StartAllReduce, PrepareData, SendData, ReceiveData, ApplyInbound,
           SendConsumed, FailSegment, Fail, At, EngineConsistent, Consistent
  <2>3. pc[q] = "await" => pc'[q] = "await"
    BY <2>2 DEF Goto, EngineTypeOK
  <2> QED BY <2>1, <2>3 DEF Moves, Stays
<1>2. CASE ReceiveConsumed(r)
  <2>1. CASE FailSegment(r, r, r)
    BY <2>1 DEF FailSegment, Fail, Moves, Stays
  <2>2. CASE ~FailSegment(r, r, r)
    <3>1. Acknowledged(r) /\ seq' = seq /\ CompleteStep(r)
      BY <1>2, <2>2 DEF ReceiveConsumed, Acknowledged
    <3>2. CASE q = r
      BY <3>1, <3>2 DEF CompleteStep, Moves, Completes, EngineTypeOK
    <3>3. CASE q # r
      BY <3>1, <3>3 DEF CompleteStep, Goto, Moves, Stays, EngineTypeOK
    <3> QED BY <3>2, <3>3
  <2> QED BY <2>1, <2>2
<1>3. CASE FinishSegment(r) \/ Commit(r)
  <2>1. CASE FailSegment(r, r, r)
    BY <2>1 DEF FailSegment, Fail, Moves, Stays
  <2>2. CASE ~FailSegment(r, r, r)
    <3>1. step[r] = Steps
      BY <1>3 DEF FinishSegment, Commit, At, EngineConsistent, Consistent
    <3>2. /\ seq' = [seq EXCEPT ![r] = seq[r] + 1]
          /\ step' = [step EXCEPT ![r] = 0]
          /\ \E stage \in Stages : Goto(r, stage)
      BY <1>3, <2>2, Names DEF FinishSegment, NextSegment, Commit
    <3>3. CASE q = r
      BY <3>1, <3>2, <3>3 DEF Moves, GoesOn, EngineTypeOK
    <3>4. CASE q # r
      BY <3>2, <3>4 DEF Goto, Moves, Stays, EngineTypeOK
    <3> QED BY <3>3, <3>4
  <2> QED BY <2>1, <2>2
<1> QED BY <1>1, <1>2, <1>3 DEF Transfer

LEMMA StepMoves ==
  ASSUME EngineInv, [Next]_vars, NEW q \in Ranks
  PROVE  Moves(q)
<1>1. ASSUME NEW r \in Ranks, Transfer(r) PROVE Moves(q)
  BY <1>1, TransferMoves
<1>2. ASSUME NEW r \in Ranks, Unwind(r) \/ Leave(r) \/ Misfortune(r)
      PROVE  Moves(q)
  <2>1. UNCHANGED <<pc, seq, step>>
    BY <1>2 DEF Unwind, FindBusy, PollAbort, ObservePeerAbort, ObservePeerLoss,
                RelayAbort, ReportAndRelease, Leave, Close, FinishClose, CloseFails,
                CloseAborted, Misfortune, RejectCall, FailLocally, TimeOut, Abort,
                Destroy, Crash, FailSegment, Fail
  <2> QED BY <2>1 DEF Moves, Stays
<1>3. CASE Broker \/ UNCHANGED vars
  BY <1>3 DEF Broker, BrokerDeadline, BrokerLatch, BrokerObserveLoss, BrokerRelay,
              vars, Moves, Stays
<1> QED BY <1>1, <1>2, <1>3 DEF Next, Done

(***************************************************************************)
(* What has been absorbed stays absorbed, interrupted or not.              *)
(***************************************************************************)
LEMMA AbsorbedStays ==
  ASSUME EngineInv, [Next]_vars, NEW q \in Ranks, NEW s \in Int, NEW k \in Int,
         Absorbed(q, s, k)
  PROVE  Absorbed(q, s, k)'
<1>1. seq[q] \in Int /\ step[q] \in Int
  BY StepsPositive, EngineAssumption DEF EngineInv, EngineTypeOK
<1>2. CASE Stays(q)
  BY <1>2 DEF Stays, Absorbed, Before
<1>3. CASE Completes(q) \/ GoesOn(q)
  BY <1>1, <1>3 DEF Completes, GoesOn, Absorbed, Before
<1> QED BY <1>2, <1>3, StepMoves DEF Moves

(***************************************************************************)
(* What a step may do to one direction of a socket: leave it, lose its     *)
(* head to the reader, or gain a record of the writer at its end: DATA     *)
(* from SendData towards the writer's successor, CONSUMED from             *)
(* SendConsumed towards its predecessor, or an ABORT record.               *)
(***************************************************************************)
Gains(a, b, m) == sock'[a][b] = Append(sock[a][b], m)
SocketMoves(a, b) ==
  \/ sock'[a][b] = sock[a][b]
  \/ sock[a][b] # <<>> /\ sock'[a][b] = Tail(sock[a][b])
  \/ \E m \in Record : m.kind = "ABORT" /\ Gains(a, b, m)
  \/ SendData(a) /\ b = Succ(a) /\ Gains(a, b, Data(a))
  \/ SendConsumed(a) /\ b = Pred(a) /\ Gains(a, b, Consumed(a))

LEMMA ReadMoves ==
  ASSUME EngineTypeOK, NEW x \in Ranks, NEW y \in Ranks,
         sock[x][y] # <<>>, sock' = Read(x, y), NEW a \in Ranks, NEW b \in Ranks
  PROVE  SocketMoves(a, b)
BY DEF EngineTypeOK, Read, SocketMoves

LEMMA QueuedMoves ==
  ASSUME EngineTypeOK, NEW x \in Ranks, NEW y \in Ranks, NEW m \in Record,
         sock' = Queued(x, y, m), NEW a \in Ranks, NEW b \in Ranks
  PROVE  sock'[a][b] = sock[a][b] \/ (a = x /\ b = y /\ Gains(a, b, m))
BY DEF EngineTypeOK, Queued, Gains

LEMMA StepSocketMoves ==
  ASSUME EngineInv, [Next]_vars, NEW a \in Ranks, NEW b \in Ranks
  PROVE  SocketMoves(a, b)
<1> USE DEF EngineInv
<1>0. CASE sock' = sock
  BY <1>0 DEF SocketMoves
<1>1. ASSUME NEW r \in Ranks, SendData(r) PROVE SocketMoves(a, b)
  <2>1. Data(r) \in Record /\ Succ(r) \in Ranks
    BY WrittenRecords, RingNeighbours
  <2>2. sock' = Queued(r, Succ(r), Data(r))
    BY <1>1 DEF SendData
  <2> QED BY <1>1, <2>1, <2>2, QueuedMoves DEF SocketMoves
<1>2. ASSUME NEW r \in Ranks, SendConsumed(r) PROVE SocketMoves(a, b)
  <2>1. Consumed(r) \in Record /\ Pred(r) \in Ranks
    BY WrittenRecords, RingNeighbours
  <2>2. sock' = Queued(r, Pred(r), Consumed(r))
    BY <1>2 DEF SendConsumed
  <2> QED BY <1>2, <2>1, <2>2, QueuedMoves DEF SocketMoves
<1>3. ASSUME NEW r \in Ranks, RelayAbort(r) PROVE SocketMoves(a, b)
  <2>1. AbortRecord(r) \in Record /\ AbortRecord(r).kind = "ABORT"
    BY WrittenRecords DEF AbortRecord
  <2>2. PICK peer \in relayTo[r] :
          sock' = IF Room(r, peer) THEN Queued(r, peer, AbortRecord(r)) ELSE sock
    BY <1>3 DEF RelayAbort
  <2>3. peer \in Ranks
    BY DEF EngineTypeOK
  <2>4. CASE sock' = Queued(r, peer, AbortRecord(r))
    BY <2>1, <2>3, <2>4, QueuedMoves DEF SocketMoves
  <2> QED BY <1>0, <2>2, <2>4
<1>4. ASSUME NEW r \in Ranks,
             ReceiveData(r) \/ ReceiveConsumed(r) \/ ObservePeerAbort(r)
      PROVE  SocketMoves(a, b)
  <2>1. Pred(r) \in Ranks /\ Succ(r) \in Ranks /\ WaitPeer(r) \in Ranks
    BY RingNeighbours DEF WaitPeer
  <2>2. \E x \in Ranks : sock[x][r] # <<>> /\ sock' = Read(x, r)
    BY <1>4, <2>1 DEF ReceiveData, ReceiveConsumed, ObservePeerAbort, HeadIs
  <2> QED BY <2>2, ReadMoves
<1>5. ASSUME NEW r \in Ranks,
             \/ StartAllReduce(r) \/ PrepareData(r) \/ ApplyInbound(r)
             \/ FinishSegment(r) \/ Commit(r)
             \/ FindBusy(r) \/ PollAbort(r) \/ ObservePeerLoss(r)
             \/ ReportAndRelease(r) \/ Leave(r) \/ Misfortune(r)
      PROVE  SocketMoves(a, b)
  <2>1. sock' = sock
    BY <1>5 DEF StartAllReduce, PrepareData, ApplyInbound, FinishSegment, Commit,
                FindBusy, PollAbort, ObservePeerLoss, ReportAndRelease, Leave,
                Close, FinishClose, CloseFails, CloseAborted, Misfortune,
                RejectCall, FailLocally, TimeOut, Abort, Destroy, Crash
  <2> QED BY <1>0, <2>1
<1>6. CASE Broker \/ UNCHANGED vars
  <2>1. sock' = sock
    BY <1>6 DEF Broker, BrokerDeadline, BrokerLatch, BrokerObserveLoss,
                BrokerRelay, vars
  <2> QED BY <1>0, <2>1
<1> QED
  BY <1>1, <1>2, <1>3, <1>4, <1>5, <1>6 DEF Next, Transfer, Unwind, Done

(***************************************************************************)
(* A record that is in a socket after a step was there before, was just    *)
(* written by SendData or SendConsumed, or is an ABORT record.             *)
(***************************************************************************)
LEMMA RecordOrigin ==
  ASSUME EngineInv, [Next]_vars, NEW a \in Ranks, NEW b \in Ranks,
         NEW i \in DOMAIN sock'[a][b]
  PROVE  \/ \E j \in DOMAIN sock[a][b] : sock[a][b][j] = sock'[a][b][i]
         \/ sock'[a][b][i].kind = "ABORT"
         \/ SendData(a) /\ b = Succ(a) /\ sock'[a][b][i] = Data(a)
         \/ SendConsumed(a) /\ sock'[a][b][i] = Consumed(a)
<1>1. sock[a][b] \in Seq(Record)
  BY DEF EngineInv, EngineTypeOK
<1>2. ASSUME NEW m \in Record, Gains(a, b, m)
      PROVE  (\E j \in DOMAIN sock[a][b] : sock[a][b][j] = sock'[a][b][i])
               \/ sock'[a][b][i] = m
  BY <1>1, <1>2 DEF Gains
<1>3. CASE sock'[a][b] = sock[a][b]
  BY <1>3
<1>4. CASE sock[a][b] # <<>> /\ sock'[a][b] = Tail(sock[a][b])
  <2>1. i + 1 \in DOMAIN sock[a][b] /\ sock[a][b][i + 1] = sock'[a][b][i]
    BY <1>1, <1>4
  <2> QED BY <2>1
<1>5. CASE \E m \in Record : m.kind = "ABORT" /\ Gains(a, b, m)
  BY <1>2, <1>5
<1>6. CASE SendData(a) /\ b = Succ(a) /\ Gains(a, b, Data(a))
  BY <1>2, <1>6, WrittenRecords DEF EngineInv
<1>7. CASE SendConsumed(a) /\ b = Pred(a) /\ Gains(a, b, Consumed(a))
  BY <1>2, <1>7, WrittenRecords DEF EngineInv
<1> QED BY <1>3, <1>4, <1>5, <1>6, <1>7, StepSocketMoves DEF SocketMoves

-----------------------------------------------------------------------------
(***************************************************************************)
(* An acknowledgement on its way is true and stays true.                   *)
(***************************************************************************)
LEMMA AckStep ==
  ASSUME EngineInv, AckMeansAbsorbed, [Next]_vars
  PROVE  AckMeansAbsorbed'
<1>1. ASSUME NEW r \in Ranks, NEW i \in DOMAIN sock'[r][Pred(r)],
             NEW s, NEW k,
             s = sock'[r][Pred(r)][i].seq, k = sock'[r][Pred(r)][i].step,
             sock'[r][Pred(r)][i].kind = "CONSUMED"
      PROVE  Absorbed(r, s, k)'
  <2>0. Pred(r) \in Ranks /\ EngineTypeOK /\ sock[r][Pred(r)] \in Seq(Record)
    BY RingNeighbours DEF EngineInv, EngineTypeOK
  <2>1. ASSUME NEW j \in DOMAIN sock[r][Pred(r)],
               sock[r][Pred(r)][j] = sock'[r][Pred(r)][i]
        PROVE  Absorbed(r, s, k)'
    <3>1. sock[r][Pred(r)][j] \in Record
      BY <2>0
    <3>2. s \in Int /\ k \in Int
      BY <1>1, <2>1, <3>1, StepsPositive, EngineAssumption DEF Record
    <3>3. Absorbed(r, s, k)
      BY <1>1, <2>1 DEF AckMeansAbsorbed
    <3> QED BY <3>2, <3>3, AbsorbedStays
  <2>2. CASE SendConsumed(r) /\ sock'[r][Pred(r)][i] = Consumed(r)
    <3>1. s = seq[r] /\ k = step[r]
      BY <1>1, <2>2 DEF Consumed
    <3>2. seq' = seq /\ step' = step /\ pc'[r] = "await"
      BY <2>0, <2>2 DEF SendConsumed, Goto, EngineTypeOK
    <3> QED BY <3>1, <3>2 DEF Absorbed
  <2>3. sock'[r][Pred(r)][i] # Data(r)
    BY <1>1 DEF Data
  <2> QED BY <1>1, <2>0, <2>1, <2>2, <2>3, RecordOrigin
<1> QED BY <1>1 DEF AckMeansAbsorbed

(***************************************************************************)
(* A rank completes a step only on an acknowledgement, so its successor    *)
(* has absorbed what it sent.                                              *)
(***************************************************************************)
LEMMA KeepUpStep ==
  ASSUME EngineInv, AckMeansAbsorbed, SuccessorKeepsUp, [Next]_vars
  PROVE  SuccessorKeepsUp'
<1> SUFFICES ASSUME NEW r \in Ranks, NEW s \in 1 .. LastSequence,
                    NEW k \in 0 .. Steps - 1, Before(s, k, seq'[r], step'[r])
             PROVE  Absorbed(Succ(r), s, k)'
  BY DEF SuccessorKeepsUp
<1> DEFINE n == Succ(r)
<1>0. /\ n \in Ranks /\ Pred(n) = r
      /\ s \in Int /\ k \in Int /\ k < Steps
      /\ seq[r] \in Int /\ step[r] \in Int
      /\ sock[n][r] \in Seq(Record)
  BY RingNeighbours, StepsPositive, EngineAssumption DEF EngineInv, EngineTypeOK
<1>1. Before(s, k, seq[r], step[r]) => Absorbed(n, s, k)
  BY DEF SuccessorKeepsUp
<1>2. CASE Stays(r)
  BY <1>0, <1>1, <1>2, AbsorbedStays DEF Stays
<1>3. CASE Completes(r)
  <2>1. Before(s, k, seq[r], step[r]) \/ (s = seq[r] /\ k = step[r])
    BY <1>0, <1>3 DEF Completes, Before
  <2>2. 1 \in DOMAIN sock[n][r] /\ sock[n][r][1] = Head(sock[n][r])
    BY <1>0, <1>3 DEF Completes, Acknowledged
  <2>3. Absorbed(n, seq[r], step[r])
    BY <1>0, <1>3, <2>2 DEF AckMeansAbsorbed, Completes, Acknowledged
  <2> QED BY <1>0, <1>1, <2>1, <2>3, AbsorbedStays
<1>4. CASE GoesOn(r)
  <2>1. Before(s, k, seq[r], step[r])
    BY <1>0, <1>4 DEF GoesOn, Before
  <2> QED BY <1>0, <1>1, <2>1, AbsorbedStays
<1> QED BY <1>2, <1>3, <1>4, StepMoves DEF Moves

KeepUpInv == EngineInv /\ AckMeansAbsorbed /\ SuccessorKeepsUp

LEMMA KeepUpInit == Init => KeepUpInv
<1> SUFFICES ASSUME Init PROVE AckMeansAbsorbed /\ SuccessorKeepsUp
  BY EngineInit DEF KeepUpInv
<1>1. AckMeansAbsorbed
  BY RingNeighbours DEF Init, AckMeansAbsorbed
<1>2. SuccessorKeepsUp
  BY DEF Init, SuccessorKeepsUp, Before
<1> QED BY <1>1, <1>2

LEMMA KeepUpNext == KeepUpInv /\ [Next]_vars => KeepUpInv'
BY EngineStep, AckStep, KeepUpStep DEF KeepUpInv

(***************************************************************************)
(* No rank acknowledges a chunk it has not put into its workspace, in any  *)
(* world size and whatever fails.                                          *)
(***************************************************************************)
THEOREM AcksAreTrue == Spec => []AckMeansAbsorbed
<1>1. KeepUpInv => AckMeansAbsorbed
  BY DEF KeepUpInv
<1> QED BY <1>1, KeepUpInit, KeepUpNext, PTL DEF Spec

(***************************************************************************)
(* No rank runs ahead of its successor, in any world size and whatever     *)
(* fails.                                                                  *)
(***************************************************************************)
THEOREM NeighboursKeepUp == Spec => []SuccessorKeepsUp
<1>1. KeepUpInv => SuccessorKeepsUp
  BY DEF KeepUpInv
<1> QED BY <1>1, KeepUpInit, KeepUpNext, PTL DEF Spec


-----------------------------------------------------------------------------
(***************************************************************************)
(* A finished engine takes no step but, once released, its own close.      *)
(***************************************************************************)
Keeps(q) ==
  st[q] \in Finished =>
    st'[q] \in Finished /\ public'[q] = public[q] /\ seq'[q] = seq[q]

\* A rank's own transfer steps leave the others' calls alone.
LEMMA TransferFrame ==
  ASSUME st \in [Ranks -> EngineStates], NEW PublicValues, public \in [Ranks -> PublicValues],
         NEW SequenceNumbers, seq \in [Ranks -> SequenceNumbers],
         NEW r \in Ranks, Transfer(r), NEW q \in Ranks, q # r
  PROVE  st'[q] = st[q] /\ public'[q] = public[q] /\ seq'[q] = seq[q]
<1>1. CASE StartAllReduce(r)
  BY <1>1 DEF StartAllReduce
<1>2. CASE PrepareData(r)
  BY <1>2 DEF PrepareData, FailSegment, Fail
<1>3. CASE SendData(r) \/ ApplyInbound(r) \/ SendConsumed(r)
  BY <1>3 DEF SendData, ApplyInbound, SendConsumed
<1>4. CASE ReceiveData(r)
  BY <1>4 DEF ReceiveData, FailSegment, Fail
<1>5. CASE ReceiveConsumed(r)
  BY <1>5 DEF ReceiveConsumed, FailSegment, Fail
<1>6. CASE FinishSegment(r)
  BY <1>6 DEF FinishSegment, NextSegment, FailSegment, Fail
<1>7. CASE Commit(r)
  BY <1>7 DEF Commit, FailSegment, Fail
<1> QED BY <1>1, <1>2, <1>3, <1>4, <1>5, <1>6, <1>7 DEF Transfer

LEMMA StepKeeps ==
  ASSUME EngineInv, [Next]_vars, NEW q \in Ranks
  PROVE  Keeps(q)
<1> USE DEF EngineInv, EngineTypeOK
<1>1. ASSUME NEW r \in Ranks, Transfer(r) PROVE Keeps(q)
  <2>1. st[r] \in {"ready", "active"}
    BY <1>1 DEF Transfer, StartAllReduce, PrepareData, SendData, ReceiveData,
                ApplyInbound, SendConsumed, ReceiveConsumed, FinishSegment, Commit,
                At, Active
  <2>2. CASE q = r
    BY <2>1, <2>2 DEF Keeps, Finished
  <2>3. CASE q # r
    BY <1>1, <2>3, TransferFrame DEF Keeps
  <2> QED BY <2>2, <2>3
<1>2. ASSUME NEW r \in Ranks, Unwind(r) \/ Leave(r) \/ Misfortune(r)
      PROVE  Keeps(q)
  <2>1. UNCHANGED <<public, seq>>
    BY <1>2 DEF Unwind, FindBusy, PollAbort, ObservePeerAbort, ObservePeerLoss,
                RelayAbort, ReportAndRelease, Leave, Close, FinishClose, CloseFails,
                CloseAborted, Misfortune, RejectCall, FailLocally, TimeOut, Abort,
                Destroy, Crash, FailSegment, Fail
  <2>2. st[q] \in Finished => st'[q] \in Finished
    BY <1>2 DEF Unwind, FindBusy, PollAbort, ObservePeerAbort, ObservePeerLoss,
                RelayAbort, ReportAndRelease, Leave, Close, FinishClose, CloseFails,
                CloseAborted, Misfortune, RejectCall, FailLocally, TimeOut, Abort,
                Destroy, Crash, FailSegment, Fail, Active, Finished
  <2> QED BY <2>1, <2>2 DEF Keeps
<1>3. CASE Broker \/ UNCHANGED vars
  BY <1>3 DEF Broker, BrokerDeadline, BrokerLatch, BrokerObserveLoss, BrokerRelay,
              vars, Keeps
<1> QED BY <1>1, <1>2, <1>3 DEF Next, Done

(***************************************************************************)
(* A failure is for good: a failed, closed or crashed engine returns no    *)
(* result and uses no sequence any more.                                   *)
(***************************************************************************)
THEOREM FailureIsForGood == Spec => NoLifeAfterFailure
<1>1. EngineInv /\ [Next]_vars =>
        [\A r \in Ranks : st[r] \in Finished =>
           /\ st'[r] \in Finished
           /\ public'[r] = public[r]
           /\ seq'[r] = seq[r]]_vars
  BY StepKeeps DEF Keeps
<1> QED BY <1>1, EngineInit, EngineStep, PTL DEF Spec, NoLifeAfterFailure
=============================================================================
