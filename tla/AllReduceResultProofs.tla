----------------------- MODULE AllReduceResultProofs -----------------------
(***************************************************************************)
(* Proofs about what AllReduceEngine returns, for every number of ranks,   *)
(* segments, calls, credits and faults, and every socket depth: who can be *)
(* how far behind whom, where the credits are, what the chunks hold, and   *)
(* that the engines implement Collective.                                  *)
(***************************************************************************)
EXTENDS AllReduceEngineProofs, FiniteSetTheorems

-----------------------------------------------------------------------------
(***************************************************************************)
(* How many ring hops lead from rank q to rank r.                          *)
(***************************************************************************)
Hops(q, r) == IF q <= r THEN r - q ELSE r - q + World

(***************************************************************************)
(* A rank that is d hops after another one is at most d steps behind it:   *)
(* where SuccessorKeepsUp is about one hop, this is about all of them.     *)
(***************************************************************************)
NoneFarBehind ==
  \A q, r \in Ranks : \A s \in 1 .. LastSequence : \A k \in 0 .. Steps - 1 :
    /\ q # r
    /\ k + Hops(q, r) <= Steps
    /\ Before(s, k + Hops(q, r) - 1, seq[q], step[q])
    => ~Before(seq[r], step[r], s, k)

(***************************************************************************)
(* The sum of the first n contributions to chunk c, in ring order.         *)
(***************************************************************************)
Partial(c, n) == [i \in 1 .. n |-> (c + i) % World]

(***************************************************************************)
(* Chunk c reaches rank r as the Age(r, c)-th rank of the reduce-scatter;  *)
(* it is the rank's own input before, the partial sum from then on, and    *)
(* the whole sum once the all-gather has brought it round.                 *)
(***************************************************************************)
Age(r, c) == IF c < r THEN r - c ELSE r - c + World
Expected(r, c, applied) ==
  IF applied > World + Age(r, c) - 2 THEN Partial(c, World)
  ELSE IF applied > Age(r, c) - 2 THEN Partial(c, Age(r, c))
  ELSE <<r>>

(***************************************************************************)
(* What rank r sends at step k.                                            *)
(***************************************************************************)
Payload(r, k) ==
  Partial(SendChunk(World, r, k), IF InReduceScatter(World, k) THEN k + 1 ELSE World)

Applied(r) == step[r] + (IF pc[r] \in {"ack", "await"} THEN 1 ELSE 0)

(***************************************************************************)
(* The contents of the workspaces, of the staging buffers and of the DATA  *)
(* records on their way.                                                   *)
(***************************************************************************)
WorkIsExpected ==
  \A r \in Ranks : Active(r) =>
    work[r] = [c \in Ranks |-> Expected(r, c, Applied(r))]
StagedIsExpected ==
  \A r \in Ranks : At(r, "apply") => staged[r] = Payload(Pred(r), step[r])
DataIsExpected ==
  \A r \in Ranks : \A i \in DOMAIN sock[r][Succ(r)] :
    LET m == sock[r][Succ(r)][i]
    IN  m.kind = "DATA" => m.payload = Payload(r, m.step)
ValuesExpected == WorkIsExpected /\ StagedIsExpected /\ DataIsExpected

(***************************************************************************)
(* A rank has one result of each finished segment, returned or kept for    *)
(* the end of the call, and every one of them is the sum.                  *)
(***************************************************************************)
ResultsAreSums ==
  \A r \in Ranks :
    /\ \A i \in DOMAIN public[r] : public[r][i] = RingSum
    /\ \A i \in DOMAIN completed[r] : completed[r][i] = RingSum
    /\ Len(public[r]) < seq[r]
    /\ st[r] \in {"ready", "active"} =>
         Len(public[r]) + Len(completed[r]) = seq[r] - 1
    /\ st[r] = "ready" => completed[r] = <<>>

USE DEF segmentVars, valueVars, carrierVars, abortVars, controlVars, brokerVars

-----------------------------------------------------------------------------
(***************************************************************************)
(* The hops shrink by one from neighbour to neighbour.                     *)
(***************************************************************************)
LEMMA HopsTyped ==
  ASSUME NEW q \in Ranks, NEW r \in Ranks, q # r
  PROVE  /\ Hops(q, r) \in 1 .. World - 1
         /\ Hops(q, r) = 1 => r = Succ(q)
         /\ r # Succ(q) => Hops(q, r) >= 2 /\ Hops(Succ(q), r) = Hops(q, r) - 1
BY SuccIs, EngineAssumption DEF Hops, Ranks, RanksOf

LEMMA Positions ==
  ASSUME EngineInv, NEW r \in Ranks
  PROVE  seq[r] \in 1 .. LastSequence + 1 /\ step[r] \in 0 .. Steps
BY DEF EngineInv, EngineTypeOK

(***************************************************************************)
(* A rank never falls back behind a point it reached.                      *)
(***************************************************************************)
LEMMA NoFallingBack ==
  ASSUME EngineInv, [Next]_vars, NEW r \in Ranks, NEW s \in Int, NEW k \in Int,
         k < Steps, ~Before(seq[r], step[r], s, k)
  PROVE  ~Before(seq'[r], step'[r], s, k)
<1>1. seq[r] \in Int /\ step[r] \in Int /\ Steps \in Int
  BY Positions, StepsPositive, EngineAssumption
<1>2. CASE Stays(r)
  BY <1>2 DEF Stays
<1>3. CASE Completes(r) \/ GoesOn(r)
  BY <1>1, <1>3 DEF Completes, GoesOn, Before
<1> QED BY <1>2, <1>3, StepMoves DEF Moves

(***************************************************************************)
(* Completing a step is the only way ahead of anyone, and the successor    *)
(* is then where it has to be.                                             *)
(***************************************************************************)
LEMMA NoneFarBehindStep ==
  ASSUME KeepUpInv, NoneFarBehind, [Next]_vars
  PROVE  NoneFarBehind'
<1> SUFFICES ASSUME NEW q \in Ranks, NEW r \in Ranks,
                    NEW s \in 1 .. LastSequence, NEW k \in 0 .. Steps - 1,
                    q # r, k + Hops(q, r) <= Steps,
                    Before(s, k + Hops(q, r) - 1, seq'[q], step'[q])
             PROVE  ~Before(seq'[r], step'[r], s, k)
  BY DEF NoneFarBehind
<1> DEFINE d == Hops(q, r)
           n == Succ(q)
<1>0. /\ d \in Int /\ d >= 1 /\ s \in Int /\ k \in Int /\ 0 <= k /\ k < Steps /\ Steps \in Int
      /\ seq[q] \in Int /\ step[q] \in Int
      /\ EngineInv
  BY HopsTyped, Positions, StepsPositive, EngineAssumption DEF KeepUpInv
<1>n. n \in Ranks /\ seq[n] \in Int /\ step[n] \in Int /\ Pred(n) = q
      /\ sock[n][q] \in Seq(Record)
  <2>1. n \in Ranks /\ Pred(n) = q
    BY RingNeighbours
  <2>2. seq[n] \in Int /\ step[n] \in Int
    BY <1>0, <2>1, Positions, StepsPositive, EngineAssumption
  <2>3. sock[n][q] \in Seq(Record)
    BY <1>0, <2>1 DEF EngineInv, EngineTypeOK
  <2> QED BY <2>1, <2>2, <2>3
<1>1. ASSUME ~Before(seq[r], step[r], s, k)
      PROVE  ~Before(seq'[r], step'[r], s, k)
  BY <1>0, <1>1, NoFallingBack
<1>2. CASE Before(s, k + d - 1, seq[q], step[q])
  BY <1>1, <1>2 DEF NoneFarBehind
<1>3. CASE ~Before(s, k + d - 1, seq[q], step[q])
  <2>1. ~Stays(q) /\ ~GoesOn(q)
    <3>1. seq'[q] = seq[q] /\ step'[q] = step[q] => FALSE
      BY <1>3
    <3>2. step[q] = Steps /\ seq'[q] = seq[q] + 1 /\ step'[q] = 0 => FALSE
      BY <1>0, <1>3 DEF Before
    <3> QED BY <3>1, <3>2 DEF Stays, GoesOn
  <2>2. Completes(q)
    BY <1>0, <2>1, StepMoves DEF Moves
  <2>3. s = seq[q] /\ k + d - 1 = step[q]
    BY <1>0, <1>3, <2>2 DEF Completes, Before
  <2>4. 1 \in DOMAIN sock[n][q] /\ sock[n][q][1] = Head(sock[n][q])
    BY <1>n, <2>2 DEF Completes, Acknowledged
  <2>5. Absorbed(n, seq[q], step[q])
    BY <1>n, <2>2, <2>4 DEF KeepUpInv, AckMeansAbsorbed, Completes, Acknowledged
  <2>6. CASE r = n
    <3>1. d = 1
      BY <2>6, SuccIs, EngineAssumption DEF Hops, Ranks, RanksOf
    <3>2. ~Before(seq[r], step[r], s, k)
      BY <1>0, <1>n, <2>3, <2>5, <2>6, <3>1 DEF Absorbed, Before
    <3> QED BY <1>1, <3>2
  <2>7. CASE r # n
    <3>1. d >= 2 /\ Hops(n, r) = d - 1
      BY <2>7, HopsTyped
    <3>2. Before(s, k + (d - 1) - 1, seq[n], step[n])
      BY <1>0, <1>n, <2>3, <2>5 DEF Absorbed, Before
    <3>3. n # r /\ k + Hops(n, r) <= Steps
      BY <1>0, <2>7, <3>1
    <3>4. ~Before(seq[r], step[r], s, k)
      BY <1>n, <3>1, <3>2, <3>3 DEF NoneFarBehind
    <3> QED BY <1>1, <3>4
  <2> QED BY <2>6, <2>7
<1> QED BY <1>2, <1>3

(***************************************************************************)
(* A rank that has done all steps of a sequence has every rank in the      *)
(* all-gather of that sequence or beyond it.                               *)
(***************************************************************************)
LEMMA AllReducedWhenDone ==
  ASSUME EngineInv, NoneFarBehind, NEW q \in Ranks, NEW r \in Ranks,
         NEW s \in 1 .. LastSequence, Before(s, Steps - 1, seq[q], step[q])
  PROVE  ~Before(seq[r], step[r], s, World - 1)
<1>0. /\ seq[q] \in Int /\ step[q] \in Int /\ seq[r] \in Int /\ step[r] \in Int
      /\ s \in Int
      /\ World \in Int /\ World >= 2 /\ Steps = 2 * (World - 1)
  BY Positions, StepsPositive, EngineAssumption DEF Steps, StepCount
<1>1. CASE q = r
  BY <1>0, <1>1 DEF Before
<1>2. CASE q # r
  <2>1. Hops(q, r) \in 1 .. World - 1
    BY <1>2, HopsTyped
  <2>2. PICK k \in 0 .. Steps - 1 : k = Steps - Hops(q, r)
    BY <1>0, <2>1
  <2>3. ~Before(seq[r], step[r], s, k)
    BY <1>0, <1>2, <2>1, <2>2 DEF NoneFarBehind
  <2> QED BY <1>0, <2>1, <2>2, <2>3 DEF Before
<1> QED BY <1>1, <1>2

-----------------------------------------------------------------------------
(***************************************************************************)
(* Records of one kind in a queue: what a send adds and a read takes.      *)
(***************************************************************************)
OfKind(q, kind) == {i \in DOMAIN q : q[i].kind = kind}

LEMMA OfKindFinite ==
  ASSUME NEW q \in Seq(Record), NEW kind
  PROVE  IsFiniteSet(OfKind(q, kind)) /\ Cardinality(OfKind(q, kind)) \in Nat
<1>1. OfKind(q, kind) \in SUBSET (1 .. Len(q)) /\ Len(q) \in Nat
  BY DEF OfKind
<1>2. IsFiniteSet(1 .. Len(q))
  BY <1>1, FS_Interval
<1>3. IsFiniteSet(OfKind(q, kind))
  BY <1>1, <1>2, FS_Subset
<1> QED BY <1>3, FS_CardinalityType

LEMMA CountAppend ==
  ASSUME NEW q \in Seq(Record), NEW m \in Record, NEW kind
  PROVE  Cardinality(OfKind(Append(q, m), kind)) =
           Cardinality(OfKind(q, kind)) + (IF m.kind = kind THEN 1 ELSE 0)
<1> DEFINE e == Len(q) + 1
<1>1. /\ DOMAIN Append(q, m) = DOMAIN q \cup {e}
      /\ e \notin DOMAIN q
      /\ Append(q, m)[e] = m
      /\ \A i \in DOMAIN q : Append(q, m)[i] = q[i]
  OBVIOUS
<1>2. CASE m.kind = kind
  <2>1. OfKind(Append(q, m), kind) = OfKind(q, kind) \cup {e} /\ e \notin OfKind(q, kind)
    BY <1>1, <1>2 DEF OfKind
  <2>2. Cardinality(OfKind(q, kind) \cup {e}) = Cardinality(OfKind(q, kind)) + 1
    BY <2>1, OfKindFinite, FS_AddElement
  <2> QED BY <1>2, <2>1, <2>2
<1>3. CASE m.kind # kind
  <2>1. OfKind(Append(q, m), kind) = OfKind(q, kind)
    BY <1>1, <1>3 DEF OfKind
  <2> QED BY <1>3, <2>1, OfKindFinite
<1> QED BY <1>2, <1>3

LEMMA CountTail ==
  ASSUME NEW q \in Seq(Record), q # <<>>, NEW kind
  PROVE  Cardinality(OfKind(q, kind)) =
           Cardinality(OfKind(Tail(q), kind)) + (IF Head(q).kind = kind THEN 1 ELSE 0)
<1> DEFINE T == OfKind(Tail(q), kind)
           S == {i \in DOMAIN q : i # 1 /\ q[i].kind = kind}
           f == [i \in T |-> i + 1]
<1>0. /\ Len(q) \in Nat /\ DOMAIN q = 1 .. Len(q) /\ 1 \in DOMAIN q
      /\ Tail(q) \in Seq(Record) /\ DOMAIN Tail(q) = 1 .. Len(q) - 1
      /\ \A i \in DOMAIN Tail(q) : Tail(q)[i] = q[i + 1]
      /\ Head(q) = q[1]
  BY HeadTailProperties
<1>1. Cardinality(S) = Cardinality(T) /\ IsFiniteSet(S)
  <2>1. f \in [T -> S]
    BY <1>0 DEF OfKind
  <2>2. \A i, j \in T : f[i] = f[j] => i = j
    BY <1>0 DEF OfKind
  <2>3. \A j \in S : \E i \in T : f[i] = j
    <3> SUFFICES ASSUME NEW j \in S PROVE \E i \in T : f[i] = j
      OBVIOUS
    <3>1. j - 1 \in T /\ (j - 1) + 1 = j
      BY <1>0 DEF OfKind
    <3> QED BY <3>1
  <2>4. f \in Bijection(T, S)
    BY <2>1, <2>2, <2>3 DEF Bijection, Injection, Surjection, IsInjective
  <2>5. ExistsBijection(T, S)
    BY <2>4 DEF ExistsBijection
  <2> QED BY <1>0, <2>5, OfKindFinite, FS_Bijection
<1>2. CASE Head(q).kind = kind
  <2>1. OfKind(q, kind) = S \cup {1} /\ 1 \notin S
    BY <1>0, <1>2 DEF OfKind
  <2>2. Cardinality(S \cup {1}) = Cardinality(S) + 1
    BY <1>1, <2>1, FS_AddElement
  <2> QED BY <1>1, <1>2, <2>1, <2>2
<1>3. CASE Head(q).kind # kind
  <2>1. OfKind(q, kind) = S
    BY <1>0, <1>3 DEF OfKind
  <2>2. Cardinality(T) \in Nat
    BY <1>0, OfKindFinite
  <2> QED BY <1>1, <1>3, <2>1, <2>2
<1> QED BY <1>2, <1>3

(***************************************************************************)
(* The same for the sockets.                                               *)
(***************************************************************************)
LEMMA InSocketIs ==
  /\ \A a, b, kind : InSocket(a, b, kind) = Cardinality(OfKind(sock[a][b], kind))
  /\ \A a, b, kind : InSocket(a, b, kind)' = Cardinality(OfKind(sock'[a][b], kind))
BY DEF InSocket, OfKind

LEMMA CountQueued ==
  ASSUME EngineTypeOK, NEW x \in Ranks, NEW y \in Ranks, NEW m \in Record,
         sock' = Queued(x, y, m), NEW a \in Ranks, NEW b \in Ranks, NEW kind
  PROVE  InSocket(a, b, kind)' = InSocket(a, b, kind)
           + (IF a = x /\ b = y /\ m.kind = kind THEN 1 ELSE 0)
<1>1. sock[a][b] \in Seq(Record)
  BY DEF EngineTypeOK
<1>2. CASE a = x /\ b = y
  <2>1. sock'[a][b] = Append(sock[a][b], m)
    BY <1>2 DEF Queued, EngineTypeOK
  <2>2. Cardinality(OfKind(sock'[a][b], kind)) =
          Cardinality(OfKind(sock[a][b], kind)) + (IF m.kind = kind THEN 1 ELSE 0)
    BY <1>1, <2>1, CountAppend
  <2> QED BY <1>2, <2>2, InSocketIs
<1>3. CASE ~(a = x /\ b = y)
  <2>1. sock'[a][b] = sock[a][b]
    BY <1>3 DEF Queued, EngineTypeOK
  <2> QED BY <1>1, <1>3, <2>1, OfKindFinite, InSocketIs
<1> QED BY <1>2, <1>3

LEMMA CountRead ==
  ASSUME EngineTypeOK, NEW x \in Ranks, NEW y \in Ranks, sock[x][y] # <<>>,
         sock' = Read(x, y), NEW a \in Ranks, NEW b \in Ranks, NEW kind
  PROVE  InSocket(a, b, kind) = InSocket(a, b, kind)'
           + (IF a = x /\ b = y /\ Head(sock[x][y]).kind = kind THEN 1 ELSE 0)
<1>1. sock[a][b] \in Seq(Record)
  BY DEF EngineTypeOK
<1>2. CASE a = x /\ b = y
  <2>1. sock'[a][b] = Tail(sock[a][b])
    BY <1>2 DEF Read, EngineTypeOK
  <2>2. Cardinality(OfKind(sock[a][b], kind)) =
          Cardinality(OfKind(sock'[a][b], kind))
            + (IF Head(sock[a][b]).kind = kind THEN 1 ELSE 0)
    BY <1>1, <1>2, <2>1, CountTail
  <2> QED BY <1>2, <2>2, InSocketIs
<1>3. CASE ~(a = x /\ b = y)
  <2>1. sock'[a][b] = sock[a][b]
    BY <1>3 DEF Read, EngineTypeOK
  <2> QED BY <1>1, <1>3, <2>1, OfKindFinite, InSocketIs
<1> QED BY <1>2, <1>3

LEMMA CountTyped ==
  ASSUME EngineTypeOK, NEW a \in Ranks, NEW b \in Ranks, NEW kind
  PROVE  InSocket(a, b, kind) \in Nat
<1>1. sock[a][b] \in Seq(Record)
  BY DEF EngineTypeOK
<1> QED BY <1>1, OfKindFinite, InSocketIs

-----------------------------------------------------------------------------
(***************************************************************************)
(* What a step may do to a rank: nothing its collectives depend on; end    *)
(* them, keeping what was returned and how far the rank had come; or one   *)
(* of its own transfer steps, successfully.                                *)
(***************************************************************************)
InCollectives(r) == st[r] \in {"ready", "active"}
Rests(r) ==
  /\ st'[r] = st[r] /\ pc'[r] = pc[r]
  /\ seq'[r] = seq[r] /\ step'[r] = step[r]
  /\ work'[r] = work[r] /\ staged'[r] = staged[r]
  /\ completed'[r] = completed[r] /\ public'[r] = public[r]
  /\ inflight'[r] = inflight[r] /\ slots'[r] = slots[r]
Ends(r) ==
  /\ ~InCollectives(r)'
  /\ pc'[r] = pc[r] /\ seq'[r] = seq[r] /\ step'[r] = step[r]
  /\ public'[r] = public[r]
  /\ completed'[r] \in {<<>>, completed[r]}
GoesAhead(r) == Transfer(r) /\ InCollectives(r)'

\* What the frame conditions below need of the types.
RankFunctions ==
  /\ DOMAIN st = Ranks /\ DOMAIN pc = Ranks /\ DOMAIN seq = Ranks /\ DOMAIN step = Ranks
  /\ DOMAIN work = Ranks /\ DOMAIN staged = Ranks
  /\ DOMAIN completed = Ranks /\ DOMAIN public = Ranks
  /\ DOMAIN inflight = Ranks /\ DOMAIN slots = Ranks

LEMMA Domains == EngineTypeOK => RankFunctions
BY DEF EngineTypeOK, RankFunctions

LEMMA FailEnds ==
  ASSUME EngineTypeOK, NEW r \in Ranks, NEW q \in Ranks, NEW peers, NEW blamed,
         NEW accused, Fail(r, peers, blamed, accused)
  PROVE  IF q = r THEN Ends(q) ELSE Rests(q)
<1>d. RankFunctions
  BY Domains
<1>1. CASE q = r
  <2>1. st'[q] = "aborted" /\ completed'[q] = <<>> /\ UNCHANGED <<pc, seq, step, public>>
    BY <1>d, <1>1 DEF Fail, RankFunctions
  <2> QED BY <1>1, <2>1 DEF Ends, InCollectives
<1>2. CASE q # r
  BY <1>d, <1>2 DEF Fail, RankFunctions, Rests
<1> QED BY <1>1, <1>2

LEMMA FailSegmentEnds ==
  ASSUME EngineTypeOK, NEW r \in Ranks, NEW q \in Ranks, NEW blamed, NEW accused,
         FailSegment(r, blamed, accused)
  PROVE  IF q = r THEN Ends(q) ELSE Rests(q)
BY FailEnds DEF FailSegment

LEMMA TransferDoes ==
  ASSUME EngineTypeOK, NEW r \in Ranks, NEW q \in Ranks, Transfer(r)
  PROVE  IF q = r THEN Ends(q) \/ GoesAhead(q) ELSE Rests(q)
<1>d. RankFunctions
  BY Domains
<1>0. CASE FailSegment(r, r, r)
  BY <1>0, FailSegmentEnds
<1>1. CASE ~FailSegment(r, r, r)
  <2>1. CASE q = r
    <3>1. CASE \/ StartAllReduce(r) \/ PrepareData(r) \/ SendData(r) \/ ReceiveData(r)
               \/ ApplyInbound(r)
      BY <1>d, <1>1, <3>1, <2>1
         DEF StartAllReduce, PrepareData, SendData, ReceiveData, ApplyInbound,
             GoesAhead, InCollectives, At, Active, RankFunctions, Transfer
    <3>2. CASE \/ SendConsumed(r) \/ ReceiveConsumed(r) \/ FinishSegment(r) \/ Commit(r)
      BY <1>d, <1>1, <3>2, <2>1
         DEF SendConsumed, ReceiveConsumed, FinishSegment, NextSegment, Commit,
             GoesAhead, InCollectives, At, Active, RankFunctions, Transfer
    <3> QED BY <3>1, <3>2 DEF Transfer
  <2>2. CASE q # r
    <3>1. CASE StartAllReduce(r)
      BY <1>d, <3>1, <2>2 DEF StartAllReduce, Goto, RankFunctions, Rests
    <3>2. CASE PrepareData(r)
      BY <1>d, <1>1, <3>2, <2>2 DEF PrepareData, Goto, RankFunctions, Rests
    <3>3. CASE SendData(r)
      BY <1>d, <3>3, <2>2 DEF SendData, Goto, RankFunctions, Rests
    <3>4. CASE ReceiveData(r)
      BY <1>d, <1>1, <3>4, <2>2 DEF ReceiveData, Goto, RankFunctions, Rests
    <3>5. CASE ApplyInbound(r)
      BY <1>d, <3>5, <2>2 DEF ApplyInbound, Goto, RankFunctions, Rests
    <3>6. CASE SendConsumed(r)
      BY <1>d, <3>6, <2>2 DEF SendConsumed, Goto, RankFunctions, Rests
    <3>7. CASE ReceiveConsumed(r)
      BY <1>d, <1>1, <3>7, <2>2 DEF ReceiveConsumed, CompleteStep, Goto, RankFunctions, Rests
    <3>8. CASE FinishSegment(r)
      BY <1>d, <1>1, <3>8, <2>2 DEF FinishSegment, NextSegment, Goto, RankFunctions, Rests
    <3>9. CASE Commit(r)
      BY <1>d, <1>1, <3>9, <2>2 DEF Commit, Goto, RankFunctions, Rests
    <3> QED BY <3>1, <3>2, <3>3, <3>4, <3>5, <3>6, <3>7, <3>8, <3>9 DEF Transfer
  <2> QED BY <2>1, <2>2
<1> QED BY <1>0, <1>1

LEMMA UnwindDoes ==
  ASSUME EngineTypeOK, NEW r \in Ranks, NEW q \in Ranks, Unwind(r)
  PROVE  Rests(q) \/ (q = r /\ Ends(q))
<1>1. CASE FindBusy(r) \/ RelayAbort(r) \/ ReportAndRelease(r)
  BY <1>1 DEF FindBusy, RelayAbort, ReportAndRelease, Rests
<1>2. CASE PollAbort(r) \/ ObservePeerAbort(r) \/ ObservePeerLoss(r)
  <2>1. \E blamed, accused : FailSegment(r, blamed, accused)
    BY <1>2 DEF PollAbort, ObservePeerAbort, ObservePeerLoss
  <2> QED BY <2>1, FailSegmentEnds
<1> QED BY <1>1, <1>2 DEF Unwind

LEMMA LeaveDoes ==
  ASSUME EngineTypeOK, NEW r \in Ranks, NEW q \in Ranks,
         Leave(r) \/ Destroy(r) \/ Crash(r)
  PROVE  Rests(q) \/ (q = r /\ Ends(q))
<1>d. RankFunctions
  BY Domains
<1>1. CASE q # r
  BY <1>d, <1>1 DEF Leave, Close, FinishClose, CloseFails, CloseAborted, Destroy, Crash,
              RankFunctions, Rests
<1>2. CASE q = r
  BY <1>d, <1>2 DEF Leave, Close, FinishClose, CloseFails, CloseAborted, Destroy, Crash,
              RankFunctions, Ends, InCollectives
<1> QED BY <1>1, <1>2

LEMMA MisfortuneDoes ==
  ASSUME EngineTypeOK, NEW r \in Ranks, NEW q \in Ranks, Misfortune(r)
  PROVE  Rests(q) \/ (q = r /\ Ends(q))
<1>1. CASE RejectCall(r) \/ FailLocally(r) \/ TimeOut(r) \/ Abort(r)
  <2>1. \E peers, blamed, accused : Fail(r, peers, blamed, accused)
    BY <1>1 DEF RejectCall, FailLocally, TimeOut, Abort, FailSegment
  <2> QED BY <2>1, FailEnds
<1>2. CASE Destroy(r) \/ Crash(r)
  BY <1>2, LeaveDoes
<1> QED BY <1>1, <1>2 DEF Misfortune

LEMMA OneRankMoves ==
  ASSUME EngineTypeOK, [Next]_vars
  PROVE  \E r \in Ranks : \A q \in Ranks :
           Rests(q) \/ (q = r /\ (Ends(q) \/ GoesAhead(q)))
<1>1. ASSUME NEW r \in Ranks, NEW q \in Ranks, Transfer(r)
      PROVE  Rests(q) \/ (q = r /\ (Ends(q) \/ GoesAhead(q)))
  BY <1>1, TransferDoes
<1>2. ASSUME NEW r \in Ranks, NEW q \in Ranks, Unwind(r) \/ Leave(r) \/ Misfortune(r)
      PROVE  Rests(q) \/ (q = r /\ Ends(q))
  BY <1>2, UnwindDoes, LeaveDoes, MisfortuneDoes
<1>3. ASSUME Broker \/ UNCHANGED vars, NEW q \in Ranks PROVE Rests(q)
  BY <1>3 DEF Broker, BrokerDeadline, BrokerLatch, BrokerObserveLoss, BrokerRelay,
              vars, Rests
<1>4. 0 \in Ranks
  BY EngineAssumption DEF Ranks, RanksOf
<1> QED BY <1>1, <1>2, <1>3, <1>4 DEF Next, Done

LEMMA StepDoes ==
  ASSUME EngineTypeOK, [Next]_vars, NEW q \in Ranks
  PROVE  Rests(q) \/ Ends(q) \/ GoesAhead(q)
BY OneRankMoves

-----------------------------------------------------------------------------
(***************************************************************************)
(* The transfer steps that move a credit, and what they do to the rank     *)
(* that takes them when they succeed.                                      *)
(***************************************************************************)
MovesCredit(x) ==
  \/ PrepareData(x) \/ SendData(x) \/ ReceiveData(x) \/ SendConsumed(x)
  \/ ReceiveConsumed(x)
SendsNext(r) == IF pc[r] = "send" THEN 1 ELSE 0

\* A rank that stays in its collectives was in them.
LEMMA WasInCollectives ==
  ASSUME EngineTypeOK, [Next]_vars, NEW q \in Ranks, InCollectives(q)'
  PROVE  InCollectives(q) /\ (Rests(q) \/ GoesAhead(q))
<1>1. Rests(q) \/ GoesAhead(q)
  BY StepDoes DEF Ends
<1>2. CASE Rests(q)
  BY <1>2 DEF Rests, InCollectives
<1>3. CASE GoesAhead(q)
  BY <1>3 DEF GoesAhead, Transfer, StartAllReduce, PrepareData, SendData, ReceiveData,
              ApplyInbound, SendConsumed, ReceiveConsumed, FinishSegment, Commit,
              At, Active, InCollectives
<1> QED BY <1>1, <1>2, <1>3

LEMMA CreditsOfPrepare ==
  ASSUME EngineTypeOK, NEW x \in Ranks, PrepareData(x), InCollectives(x)'
  PROVE  /\ inflight'[x] = inflight[x] + 1 /\ slots'[x] = slots[x]
         /\ pc[x] = "prepare" /\ pc'[x] = "send" /\ sock' = sock
<1>1. ~FailSegment(x, x, x)
  BY FailSegmentEnds DEF Ends
<1> QED BY <1>1, Domains DEF PrepareData, At, Goto, RankFunctions

LEMMA CreditsOfSend ==
  ASSUME EngineTypeOK, NEW x \in Ranks, SendData(x)
  PROVE  /\ inflight'[x] = inflight[x] /\ slots'[x] = slots[x]
         /\ pc[x] = "send" /\ pc'[x] = "receive"
         /\ sock' = Queued(x, Succ(x), Data(x)) /\ Data(x).kind = "DATA"
BY Domains DEF SendData, At, Goto, RankFunctions, Data

LEMMA CreditsOfReceive ==
  ASSUME EngineTypeOK, NEW x \in Ranks, ReceiveData(x), InCollectives(x)'
  PROVE  /\ inflight'[x] = inflight[x] /\ slots'[x] = slots[x] + 1
         /\ pc[x] = "receive" /\ pc'[x] = "apply"
         /\ Head(sock[Pred(x)][x]).kind = "DATA"
<1>1. ~FailSegment(x, x, x)
  BY FailSegmentEnds DEF Ends
<1> QED BY <1>1, Domains DEF ReceiveData, At, Goto, RankFunctions

LEMMA CreditsOfAck ==
  ASSUME EngineTypeOK, NEW x \in Ranks, SendConsumed(x)
  PROVE  /\ inflight'[x] = inflight[x] /\ slots'[x] = slots[x] - 1
         /\ pc[x] = "ack" /\ pc'[x] = "await"
         /\ sock' = Queued(x, Pred(x), Consumed(x)) /\ Consumed(x).kind = "CONSUMED"
BY Domains DEF SendConsumed, At, Goto, RankFunctions, Consumed

LEMMA CreditsOfComplete ==
  ASSUME EngineTypeOK, NEW x \in Ranks, ReceiveConsumed(x), InCollectives(x)'
  PROVE  /\ inflight'[x] = inflight[x] - 1 /\ slots'[x] = slots[x]
         /\ pc[x] = "await" /\ pc'[x] \in {"finish", "prepare"}
         /\ Head(sock[Succ(x)][x]).kind = "CONSUMED"
<1>1. ~FailSegment(x, x, x)
  BY FailSegmentEnds DEF Ends
<1> QED BY <1>1, Domains DEF ReceiveConsumed, CompleteStep, At, Goto, RankFunctions

(***************************************************************************)
(* No other step moves a credit of a rank that stays in its collectives,   *)
(* or a DATA or CONSUMED record.                                           *)
(***************************************************************************)
LEMMA CreditsOfOthers ==
  ASSUME EngineInv, [Next]_vars, NEW q \in Ranks, InCollectives(q)', ~MovesCredit(q)
  PROVE  /\ inflight'[q] = inflight[q] /\ slots'[q] = slots[q]
         /\ SendsNext(q)' = SendsNext(q)
<1>d. EngineTypeOK /\ RankFunctions
  BY Domains DEF EngineInv
<1>1. CASE Rests(q)
  BY <1>1 DEF Rests, SendsNext
<1>2. CASE GoesAhead(q)
  <2>1. ~FailSegment(q, q, q)
    BY <1>d, FailSegmentEnds DEF Ends
  <2>2. CASE StartAllReduce(q) \/ ApplyInbound(q)
    <3>1. pc[q] # "send"
      BY <2>2 DEF StartAllReduce, ApplyInbound, At, EngineInv, EngineConsistent, Consistent
    <3> QED BY <1>d, <2>2, <3>1
            DEF StartAllReduce, ApplyInbound, Goto, RankFunctions, SendsNext
  <2>3. CASE FinishSegment(q) \/ Commit(q)
    BY <1>d, <2>1, <2>3
       DEF FinishSegment, NextSegment, Commit, At, Goto, RankFunctions, SendsNext
  <2> QED BY <1>2, <2>2, <2>3 DEF GoesAhead, Transfer, MovesCredit
<1> QED BY <1>d, <1>1, <1>2, WasInCollectives

LEMMA RecordsOfOthers ==
  ASSUME EngineInv, [Next]_vars, NEW a \in Ranks, NEW b \in Ranks,
         NEW kind \in {"DATA", "CONSUMED"},
         \A x \in Ranks : ~MovesCredit(x)
  PROVE  InSocket(a, b, kind)' = InSocket(a, b, kind)
<1>t. EngineTypeOK
  BY DEF EngineInv
<1>0. CASE sock' = sock
  BY <1>0 DEF InSocket
<1>1. ASSUME NEW r \in Ranks, RelayAbort(r)
      PROVE  InSocket(a, b, kind)' = InSocket(a, b, kind)
  <2>1. AbortRecord(r) \in Record /\ AbortRecord(r).kind # kind
    BY <1>t, WrittenRecords DEF AbortRecord
  <2>2. PICK peer \in relayTo[r] :
          sock' = IF Room(r, peer) THEN Queued(r, peer, AbortRecord(r)) ELSE sock
    BY <1>1 DEF RelayAbort
  <2>3. peer \in Ranks
    BY <1>t DEF EngineTypeOK
  <2>4. CASE sock' = Queued(r, peer, AbortRecord(r))
    BY <1>t, <2>1, <2>3, <2>4, CountQueued, CountTyped
  <2> QED BY <1>0, <2>2, <2>4
<1>2. ASSUME NEW r \in Ranks, ObservePeerAbort(r)
      PROVE  InSocket(a, b, kind)' = InSocket(a, b, kind)
  <2>1. WaitPeer(r) \in Ranks
    BY RingNeighbours DEF WaitPeer
  <2>2. /\ sock[WaitPeer(r)][r] # <<>> /\ sock' = Read(WaitPeer(r), r)
        /\ Head(sock[WaitPeer(r)][r]).kind # kind
    BY <1>2 DEF ObservePeerAbort, HeadIs
  <2>3. InSocket(a, b, kind) = InSocket(a, b, kind)' + 0
    BY <1>t, <2>1, <2>2, CountRead
  <2>4. InSocket(a, b, kind)' \in Nat
    BY <1>t, EngineStep, CountTyped, <2>1, <2>2, ReadTyped, InSocketIs, OfKindFinite
  <2> QED BY <2>3, <2>4
<1>3. ASSUME NEW r \in Ranks,
             \/ StartAllReduce(r) \/ ApplyInbound(r)
             \/ FinishSegment(r) \/ Commit(r)
             \/ FindBusy(r) \/ PollAbort(r) \/ ObservePeerLoss(r)
             \/ ReportAndRelease(r) \/ Leave(r) \/ Misfortune(r)
      PROVE  sock' = sock
  BY <1>3 DEF StartAllReduce, ApplyInbound, FinishSegment, Commit,
              FindBusy, PollAbort, ObservePeerLoss, ReportAndRelease, Leave,
              Close, FinishClose, CloseFails, CloseAborted, Misfortune,
              RejectCall, FailLocally, TimeOut, Abort, Destroy, Crash
<1>4. CASE Broker \/ UNCHANGED vars
  <2>1. sock' = sock
    BY <1>4 DEF Broker, BrokerDeadline, BrokerLatch, BrokerObserveLoss, BrokerRelay, vars
  <2> QED BY <1>0, <2>1
<1> QED
  BY <1>0, <1>1, <1>2, <1>3, <1>4 DEF Next, Transfer, Unwind, Done, MovesCredit

(***************************************************************************)
(* What the five steps do to the counts of the records between a rank and  *)
(* its successor n.                                                        *)
(***************************************************************************)
LEMMA CountsTypedNext ==
  ASSUME EngineInv, [Next]_vars, NEW a \in Ranks, NEW b \in Ranks, NEW kind
  PROVE  InSocket(a, b, kind) \in Nat /\ InSocket(a, b, kind)' \in Nat
<1>1. EngineTypeOK /\ EngineTypeOK'
  BY EngineStep DEF EngineInv
<1>2. sock[a][b] \in Seq(Record) /\ sock'[a][b] \in Seq(Record)
  BY <1>1 DEF EngineTypeOK
<1> QED BY <1>2, OfKindFinite, InSocketIs

\* Other ranks rest while one transfers.
LEMMA OthersRest ==
  ASSUME EngineTypeOK, NEW x \in Ranks, Transfer(x), NEW q \in Ranks, q # x
  PROVE  /\ inflight'[q] = inflight[q] /\ slots'[q] = slots[q]
         /\ SendsNext(q)' = SendsNext(q)
BY TransferDoes DEF Rests, SendsNext

(***************************************************************************)
(* The account of a rank's credits.                                        *)
(***************************************************************************)
Balance(r) ==
  inflight[r] = SendsNext(r) + InSocket(r, Succ(r), "DATA") + slots[Succ(r)]
                  + InSocket(Succ(r), r, "CONSUMED")

LEMMA BalanceIs ==
  CreditConservation <=>
    \A r \in Ranks : InCollectives(r) /\ InCollectives(Succ(r)) => Balance(r)
BY DEF CreditConservation, Balance, SendsNext, InCollectives

LEMMA CreditStep ==
  ASSUME EngineInv, CreditConservation, [Next]_vars
  PROVE  CreditConservation'
<1> SUFFICES ASSUME NEW r \in Ranks, InCollectives(r)', InCollectives(Succ(r))'
             PROVE  Balance(r)'
  BY BalanceIs DEF CreditConservation, Balance, SendsNext, InCollectives
<1> DEFINE n == Succ(r)
           D == InSocket(r, n, "DATA")
           C == InSocket(n, r, "CONSUMED")
<1>n. /\ n \in Ranks /\ n # r /\ Pred(n) = r /\ EngineTypeOK
      /\ \A x \in Ranks : Succ(x) \in Ranks /\ Pred(x) \in Ranks
      /\ \A x \in Ranks : Pred(x) = r => x = n
  BY RingNeighbours DEF EngineInv
<1>t. /\ D \in Nat /\ D' \in Nat /\ C \in Nat /\ C' \in Nat
      /\ inflight[r] \in Int /\ slots[n] \in Int
      /\ SendsNext(r) \in Int
  <2>1. D \in Nat /\ D' \in Nat /\ C \in Nat /\ C' \in Nat
    BY <1>n, CountsTypedNext
  <2> QED BY <1>n, <2>1 DEF EngineTypeOK, SendsNext
<1>b. inflight[r] = SendsNext(r) + D + slots[n] + C
  BY <1>n, WasInCollectives, BalanceIs DEF Balance
<1>q. ASSUME inflight'[r] - SendsNext(r)' = inflight[r] - SendsNext(r)
                                              + (D' - D) + (slots'[n] - slots[n]) + (C' - C),
             inflight'[r] \in Int, slots'[n] \in Int, SendsNext(r)' \in Int
      PROVE  Balance(r)'
  <2>1. inflight'[r] = SendsNext(r)' + D' + slots'[n] + C'
    <3>1. inflight'[r] \in Int /\ slots'[n] \in Int /\ SendsNext(r)' \in Int
      BY <1>q
    <3>2. /\ D \in Int /\ D' \in Int /\ C \in Int /\ C' \in Int
          /\ inflight[r] \in Int /\ slots[n] \in Int /\ SendsNext(r) \in Int
      BY <1>t
    <3>3. inflight'[r] - SendsNext(r)' = inflight[r] - SendsNext(r)
                                           + (D' - D) + (slots'[n] - slots[n]) + (C' - C)
      BY <1>q
    <3>4. inflight[r] = SendsNext(r) + D + slots[n] + C
      BY <1>b
    <3> HIDE DEF D, C, n
    <3> QED BY <3>1, <3>2, <3>3, <3>4
  <2> QED BY <2>1 DEF Balance
<1>i. inflight'[r] \in Int /\ slots'[n] \in Int /\ SendsNext(r)' \in Int
  <2>1. EngineTypeOK'
    BY EngineStep DEF EngineInv
  <2> QED BY <1>n, <2>1 DEF EngineTypeOK, SendsNext
<1>1. ASSUME NEW x \in Ranks, PrepareData(x) PROVE Balance(r)'
  <2>1. D' = D /\ C' = C
    BY <1>1 DEF PrepareData, InSocket
  <2>2. CASE x = r
    BY <1>1, <1>i, <1>n, <1>q, <1>t, <2>1, <2>2, CreditsOfPrepare, OthersRest
       DEF Transfer, SendsNext
  <2>3. CASE x # r
    <3>1. slots'[n] = slots[n]
      BY <1>1, <1>n, CreditsOfPrepare, OthersRest DEF Transfer
    <3> QED BY <1>1, <1>i, <1>n, <1>q, <1>t, <2>1, <2>3, <3>1, OthersRest DEF Transfer
  <2> QED BY <2>2, <2>3
<1>2. ASSUME NEW x \in Ranks, SendData(x) PROVE Balance(r)'
  <2>1. /\ D' = D + (IF r = x /\ n = Succ(x) THEN 1 ELSE 0)
        /\ C' = C
    BY <1>2, <1>n, <1>t, CreditsOfSend, CountQueued, WrittenRecords
  <2>2. slots'[n] = slots[n]
    BY <1>2, <1>n, CreditsOfSend, OthersRest DEF Transfer
  <2>3. CASE x = r
    BY <1>2, <1>i, <1>q, <1>t, <2>1, <2>2, <2>3, CreditsOfSend, <1>n DEF SendsNext
  <2>4. CASE x # r
    BY <1>2, <1>i, <1>n, <1>q, <1>t, <2>1, <2>2, <2>4, OthersRest DEF Transfer
  <2> QED BY <2>3, <2>4
<1>3. ASSUME NEW x \in Ranks, ReceiveData(x) PROVE Balance(r)'
  <2> DEFINE h == Head(sock[Pred(x)][x])
  <2>0. sock[Pred(x)][x] # <<>> /\ sock' = Read(Pred(x), x)
    BY <1>3 DEF ReceiveData
  <2>1. /\ D = D' + (IF r = Pred(x) /\ n = x /\ h.kind = "DATA" THEN 1 ELSE 0)
        /\ C = C' + (IF n = Pred(x) /\ r = x /\ h.kind = "CONSUMED" THEN 1 ELSE 0)
    BY <1>n, <2>0, CountRead
  <2>2. x \in {r, n} => h.kind = "DATA"
    BY <1>3, <1>n, CreditsOfReceive
  <2>3. C = C'
    BY <1>t, <2>1, <2>2
  <2>4. inflight'[r] = inflight[r] /\ SendsNext(r)' = SendsNext(r)
    BY <1>3, <1>n, CreditsOfReceive, OthersRest DEF Transfer, SendsNext
  <2>5. CASE x = n
    <3>1. slots'[n] = slots[n] + 1
      BY <1>3, <1>n, <2>5, CreditsOfReceive
    <3>2. D = D' + 1
      BY <1>n, <2>1, <2>2, <2>5
    <3> QED BY <1>i, <1>q, <1>t, <2>3, <2>4, <3>1, <3>2
  <2>6. CASE x # n
    <3>1. slots'[n] = slots[n]
      BY <1>3, <1>n, <2>6, OthersRest DEF Transfer
    <3>2. D = D'
      BY <1>t, <2>1, <2>6
    <3> QED BY <1>i, <1>q, <1>t, <2>3, <2>4, <3>1, <3>2
  <2> QED BY <2>5, <2>6
<1>4. ASSUME NEW x \in Ranks, SendConsumed(x) PROVE Balance(r)'
  <2>1. /\ D' = D
        /\ C' = C + (IF n = x /\ r = Pred(x) THEN 1 ELSE 0)
    BY <1>4, <1>n, <1>t, CreditsOfAck, CountQueued, WrittenRecords
  <2>2. inflight'[r] = inflight[r] /\ SendsNext(r)' = SendsNext(r)
    BY <1>4, <1>n, CreditsOfAck, OthersRest DEF Transfer, SendsNext
  <2>3. CASE x = n
    <3>1. slots'[n] = slots[n] - 1 /\ C' = C + 1
      BY <1>4, <1>n, <2>1, <2>3, CreditsOfAck
    <3> QED BY <1>i, <1>q, <1>t, <2>1, <2>2, <3>1
  <2>4. CASE x # n
    <3>1. slots'[n] = slots[n] /\ C' = C
      BY <1>4, <1>n, <1>t, <2>1, <2>4, OthersRest DEF Transfer
    <3> QED BY <1>i, <1>q, <1>t, <2>1, <2>2, <3>1
  <2> QED BY <2>3, <2>4
<1>5. ASSUME NEW x \in Ranks, ReceiveConsumed(x) PROVE Balance(r)'
  <2> DEFINE h == Head(sock[Succ(x)][x])
  <2>0. sock[Succ(x)][x] # <<>> /\ sock' = Read(Succ(x), x)
    BY <1>5 DEF ReceiveConsumed
  <2>1. /\ D = D' + (IF r = Succ(x) /\ n = x /\ h.kind = "DATA" THEN 1 ELSE 0)
        /\ C = C' + (IF n = Succ(x) /\ r = x /\ h.kind = "CONSUMED" THEN 1 ELSE 0)
    BY <1>n, <2>0, CountRead
  <2>2. x \in {r, n} => h.kind = "CONSUMED"
    BY <1>5, <1>n, CreditsOfComplete
  <2>3. D = D'
    BY <1>t, <2>1, <2>2
  <2>4. slots'[n] = slots[n]
    BY <1>5, <1>n, CreditsOfComplete, OthersRest DEF Transfer
  <2>5. CASE x = r
    <3>1. /\ inflight'[r] = inflight[r] - 1
          /\ SendsNext(r)' = 0 /\ SendsNext(r) = 0
      BY <1>5, <1>n, <2>5, CreditsOfComplete DEF SendsNext
    <3>2. C = C' + 1
      BY <1>n, <2>1, <2>2, <2>5
    <3> QED BY <1>i, <1>q, <1>t, <2>3, <2>4, <3>1, <3>2
  <2>6. CASE x # r
    <3>1. inflight'[r] = inflight[r] /\ SendsNext(r)' = SendsNext(r)
      BY <1>5, <1>n, <2>6, OthersRest DEF Transfer
    <3>2. C = C'
      BY <1>t, <2>1, <2>6
    <3> QED BY <1>i, <1>q, <1>t, <2>3, <2>4, <3>1, <3>2
  <2> QED BY <2>5, <2>6
<1>6. CASE \A x \in Ranks : ~MovesCredit(x)
  <2>1. D' = D /\ C' = C
    BY <1>n, <1>6, RecordsOfOthers
  <2>2. inflight'[r] = inflight[r] /\ SendsNext(r)' = SendsNext(r)
    BY <1>6, CreditsOfOthers
  <2>3. slots'[n] = slots[n]
    BY <1>6, <1>n, CreditsOfOthers
  <2> QED BY <1>i, <1>q, <1>t, <2>1, <2>2, <2>3
<1> QED BY <1>1, <1>2, <1>3, <1>4, <1>5, <1>6 DEF MovesCredit

LEMMA CreditInit == Init => CreditConservation
<1> SUFFICES ASSUME Init, NEW r \in Ranks
             PROVE  Balance(r)
  BY BalanceIs
<1>1. Succ(r) \in Ranks
  BY RingNeighbours
<1>2. sock[r][Succ(r)] = <<>> /\ sock[Succ(r)][r] = <<>>
  BY <1>1 DEF Init
<1>3. \A kind : OfKind(<<>>, kind) = {}
  BY DEF OfKind
<1>4. InSocket(r, Succ(r), "DATA") = 0 /\ InSocket(Succ(r), r, "CONSUMED") = 0
  BY <1>2, <1>3, InSocketIs, FS_EmptySet
<1> QED BY <1>1, <1>4 DEF Init, Balance, SendsNext

(***************************************************************************)
(* While two neighbours are in collectives no credit of the sender is ever *)
(* lost or invented, for any number of ranks, credits and socket slots.    *)
(***************************************************************************)
THEOREM CreditsConserved == Spec => []CreditConservation
<1>1. Init => EngineInv /\ CreditConservation
  BY EngineInit, CreditInit
<1>2. EngineInv /\ CreditConservation /\ [Next]_vars => EngineInv' /\ CreditConservation'
  BY EngineStep, CreditStep
<1> QED BY <1>1, <1>2, PTL DEF Spec

-----------------------------------------------------------------------------
(***************************************************************************)
(* The plan: how old the chunks are that a rank sends and receives.        *)
(***************************************************************************)
LEMMA Wrap ==
  ASSUME NEW a \in Int, 0 <= a, a < 2 * World
  PROVE  a % World = IF a < World THEN a ELSE a - World
BY EngineAssumption

LEMMA PlanSize ==
  World \in Int /\ World >= 2 /\ Steps = 2 * World - 2
BY EngineAssumption DEF Steps, StepCount

LEMMA AgeIs ==
  ASSUME NEW r \in Ranks, NEW c \in Ranks
  PROVE  /\ Age(r, c) \in 1 .. World
         /\ (c + Age(r, c)) % World = r
         /\ \A d \in Ranks : Age(r, d) = Age(r, c) => d = c
<1>1. r \in Int /\ c \in Int /\ 0 <= r /\ r < World /\ 0 <= c /\ c < World
  BY EngineAssumption DEF Ranks, RanksOf
<1>2. Age(r, c) \in 1 .. World /\ c + Age(r, c) = IF c < r THEN r ELSE r + World
  BY <1>1, PlanSize DEF Age
<1>3. (c + Age(r, c)) % World = r
  <2>1. CASE c < r
    BY <1>1, <1>2, <2>1, Wrap, PlanSize
  <2>2. CASE ~(c < r)
    <3>1. (r + World) % World = r
      BY <1>1, Wrap, PlanSize
    <3> QED BY <1>2, <2>2, <3>1
  <2> QED BY <2>1, <2>2
<1>4. \A d \in Ranks : Age(r, d) = Age(r, c) => d = c
  BY <1>1, PlanSize DEF Age, Ranks, RanksOf
<1> QED BY <1>2, <1>3, <1>4

LEMMA ReceivedAge ==
  ASSUME NEW r \in Ranks, NEW k \in 0 .. Steps - 1, NEW c, c = ReceiveChunk(World, r, k)
  PROVE  /\ c \in Ranks
         /\ IF InReduceScatter(World, k) THEN Age(r, c) = k + 2
                                         ELSE Age(r, c) = k - World + 2
<1>1. r \in Int /\ 0 <= r /\ r < World /\ k \in Int /\ 0 <= k /\ k < 2 * World - 2
  BY PlanSize DEF Ranks, RanksOf
<1>2. c \in Ranks
  BY <1>1, ChunksInRanks
<1>3. CASE InReduceScatter(World, k)
  <2>1. k < World - 1 /\ c = (r + World - k - 2) % World
    BY <1>3 DEF InReduceScatter, ReceiveChunk, PhaseStep
  <2>2. c = IF r + World - k - 2 < World THEN r + World - k - 2 ELSE r - k - 2
    BY <1>1, <2>1, PlanSize, Wrap
  <2> QED BY <1>1, <1>2, <1>3, <2>1, <2>2, PlanSize DEF Age
<1>4. CASE ~InReduceScatter(World, k)
  <2>1. k >= World - 1 /\ c = (r + World - (k - (World - 1)) - 1) % World
    BY <1>1, <1>4, PlanSize DEF InReduceScatter, ReceiveChunk, PhaseStep
  <2>2. r + World - (k - (World - 1)) - 1 = r + 2 * World - k - 2
    BY <1>1, PlanSize
  <2>3. c = IF r + 2 * World - k - 2 < World THEN r + 2 * World - k - 2
                                             ELSE r + World - k - 2
    BY <1>1, <2>1, <2>2, PlanSize, Wrap
  <2> QED BY <1>1, <1>2, <1>4, <2>1, <2>3, PlanSize DEF Age
<1> QED BY <1>2, <1>3, <1>4

LEMMA SentAge ==
  ASSUME NEW r \in Ranks, NEW k \in 0 .. Steps - 1, NEW c, c = SendChunk(World, r, k)
  PROVE  /\ c \in Ranks
         /\ IF InReduceScatter(World, k) THEN Age(r, c) = k + 1
            ELSE Age(r, c) = IF k = World - 1 THEN World ELSE k - World + 1
<1>1. r \in Int /\ 0 <= r /\ r < World /\ k \in Int /\ 0 <= k /\ k < 2 * World - 2
  BY PlanSize DEF Ranks, RanksOf
<1>2. c \in Ranks
  BY <1>1, ChunksInRanks
<1>3. CASE InReduceScatter(World, k)
  <2>1. k < World - 1 /\ c = (r + World - k - 1) % World
    BY <1>3 DEF InReduceScatter, SendChunk, PhaseStep
  <2>2. c = IF r + World - k - 1 < World THEN r + World - k - 1 ELSE r - k - 1
    BY <1>1, <2>1, PlanSize, Wrap
  <2> QED BY <1>1, <1>2, <1>3, <2>1, <2>2, PlanSize DEF Age
<1>4. CASE ~InReduceScatter(World, k)
  <2>1. k >= World - 1 /\ c = (r + World - (k - (World - 1))) % World
    BY <1>1, <1>4, PlanSize DEF InReduceScatter, SendChunk, PhaseStep
  <2>2. r + World - (k - (World - 1)) = r + 2 * World - k - 1
    BY <1>1, PlanSize
  <2>3. c = IF r + 2 * World - k - 1 < World THEN r + 2 * World - k - 1
                                             ELSE r + World - k - 1
    BY <1>1, <2>1, <2>2, PlanSize, Wrap
  <2> QED BY <1>1, <1>2, <1>4, <2>1, <2>3, PlanSize DEF Age
<1> QED BY <1>2, <1>3, <1>4

\* What a rank receives is what its predecessor sends.
LEMMA ReceivedIsSent ==
  ASSUME NEW r \in Ranks, NEW k \in 0 .. Steps - 1
  PROVE  ReceiveChunk(World, r, k) = SendChunk(World, Pred(r), k)
<1> DEFINE c == SendChunk(World, Pred(r), k)
<1>1. r \in Int /\ 0 <= r /\ r < World /\ k \in Int /\ 0 <= k /\ k < 2 * World - 2
  BY PlanSize DEF Ranks, RanksOf
<1>2. Pred(r) \in Ranks /\ Pred(r) = IF r = 0 THEN World - 1 ELSE r - 1
  BY PredIs, RingNeighbours
<1>3. c \in Ranks /\ ReceiveChunk(World, r, k) \in Ranks
  BY <1>1, <1>2, ChunksInRanks
<1>4. Age(r, c) = IF Age(Pred(r), c) = World THEN 1 ELSE Age(Pred(r), c) + 1
  BY <1>1, <1>2, <1>3, PlanSize DEF Age, Ranks, RanksOf
<1>5. Age(r, ReceiveChunk(World, r, k)) = Age(r, c)
  <2>1. CASE InReduceScatter(World, k)
    <3>1. k < World - 1 /\ Age(Pred(r), c) = k + 1 /\ Age(r, ReceiveChunk(World, r, k)) = k + 2
      BY <1>2, <2>1, SentAge, ReceivedAge DEF InReduceScatter
    <3> QED BY <1>1, <1>4, <3>1, PlanSize
  <2>2. CASE ~InReduceScatter(World, k)
    <3>1. /\ k >= World - 1
          /\ Age(Pred(r), c) = IF k = World - 1 THEN World ELSE k - World + 1
          /\ Age(r, ReceiveChunk(World, r, k)) = k - World + 2
      BY <1>1, <1>2, <2>2, PlanSize, SentAge, ReceivedAge DEF InReduceScatter
    <3> QED BY <1>1, <1>4, <3>1, PlanSize
  <2> QED BY <2>1, <2>2
<1> QED BY <1>3, <1>5, AgeIs

(***************************************************************************)
(* A partial sum grows by the next contribution.                           *)
(***************************************************************************)
LEMMA PartialGrows ==
  ASSUME NEW c \in Ranks, NEW n \in Nat
  PROVE  Partial(c, n) \o <<(c + n + 1) % World>> = Partial(c, n + 1)
<1> DEFINE v == (c + n + 1) % World
<1>1. c \in Int /\ v \in Int /\ \A i \in Int : (c + i) % World \in Int
  BY EngineAssumption DEF Ranks, RanksOf
<1>2. Partial(c, n) \in Seq(Int) /\ Len(Partial(c, n)) = n
  BY <1>1 DEF Partial
<1>3. Partial(c, n + 1) \in Seq(Int) /\ Len(Partial(c, n + 1)) = n + 1
  BY <1>1 DEF Partial
<1>4. Partial(c, n) \o <<v>> = Append(Partial(c, n), v)
  BY <1>1, <1>2, AppendIsConcat
<1>5. /\ Append(Partial(c, n), v) \in Seq(Int)
      /\ Len(Append(Partial(c, n), v)) = n + 1
      /\ \A i \in 1 .. n : Append(Partial(c, n), v)[i] = Partial(c, n)[i]
      /\ Append(Partial(c, n), v)[n + 1] = v
  <2>1. \A q \in Seq(Int) : /\ Append(q, v) \in Seq(Int)
                            /\ Len(Append(q, v)) = Len(q) + 1
                            /\ \A i \in 1 .. Len(q) : Append(q, v)[i] = q[i]
                            /\ Append(q, v)[Len(q) + 1] = v
    BY <1>1, AppendProperties
  <2> QED BY <1>2, <2>1
<1>6. \A i \in 1 .. n + 1 : Append(Partial(c, n), v)[i] = Partial(c, n + 1)[i]
  <2> SUFFICES ASSUME NEW i \in 1 .. n + 1
               PROVE  Append(Partial(c, n), v)[i] = Partial(c, n + 1)[i]
    OBVIOUS
  <2>1. Partial(c, n + 1)[i] = (c + i) % World
    BY DEF Partial
  <2>2. CASE i = n + 1
    BY <1>1, <1>5, <2>1, <2>2
  <2>3. CASE i \in 1 .. n
    <3>1. Partial(c, n)[i] = (c + i) % World
      BY <2>3 DEF Partial
    <3> QED BY <1>5, <2>1, <2>3, <3>1
  <2>4. i = n + 1 \/ i \in 1 .. n
    OBVIOUS
  <2> QED BY <2>2, <2>3, <2>4
<1>7. Append(Partial(c, n), v) = Partial(c, n + 1)
  BY <1>3, <1>5, <1>6, SeqEqual
<1> QED BY <1>4, <1>7

LEMMA PartialOne ==
  ASSUME NEW c \in Ranks
  PROVE  Partial(c, 1) = <<(c + 1) % World>>
<1>1. c \in Int /\ (c + 1) % World \in Int
  BY EngineAssumption DEF Ranks, RanksOf
<1> QED BY <1>1 DEF Partial

(***************************************************************************)
(* What a workspace should hold: the input at first, the sums at the end,  *)
(* what is sent at each step, and what applying a received chunk makes of  *)
(* it.                                                                     *)
(***************************************************************************)
LEMMA InputExpected ==
  ASSUME NEW r \in Ranks
  PROVE  Input(r) = [c \in Ranks |-> Expected(r, c, 0)]
<1> SUFFICES ASSUME NEW c \in Ranks PROVE Expected(r, c, 0) = <<r>>
  BY DEF Input
<1>1. Age(r, c) \in 1 .. World /\ (c + Age(r, c)) % World = r
  BY AgeIs
<1>2. ~(0 > World + Age(r, c) - 2)
  BY <1>1, PlanSize
<1>3. CASE 0 > Age(r, c) - 2
  <2>1. Age(r, c) = 1
    BY <1>1, <1>3, PlanSize
  <2>2. Partial(c, 1) = <<r>>
    BY <1>1, <2>1, PartialOne
  <2> QED BY <1>2, <1>3, <2>1, <2>2 DEF Expected
<1>4. CASE ~(0 > Age(r, c) - 2)
  BY <1>2, <1>4 DEF Expected
<1> QED BY <1>3, <1>4

LEMMA DoneExpected ==
  ASSUME NEW r \in Ranks
  PROVE  [c \in Ranks |-> Expected(r, c, Steps)] = RingSum
<1> SUFFICES ASSUME NEW c \in Ranks PROVE Expected(r, c, Steps) = Partial(c, World)
  BY DEF RingSum, Partial
<1>1. Age(r, c) \in 1 .. World
  BY AgeIs
<1>2. CASE Age(r, c) = World
  <2>1. Steps > Age(r, c) - 2
    BY <1>2, PlanSize
  <2> QED BY <1>2, <2>1 DEF Expected
<1>3. CASE Age(r, c) # World
  <2>1. Steps > World + Age(r, c) - 2
    BY <1>1, <1>3, PlanSize
  <2> QED BY <2>1 DEF Expected
<1> QED BY <1>2, <1>3

LEMMA SentExpected ==
  ASSUME NEW r \in Ranks, NEW k \in 0 .. Steps - 1
  PROVE  Expected(r, SendChunk(World, r, k), k) = Payload(r, k)
<1> DEFINE c == SendChunk(World, r, k)
<1>0. c \in Ranks /\ Age(r, c) \in 1 .. World /\ k \in Int /\ 0 <= k
  BY SentAge, AgeIs, PlanSize
<1>1. CASE InReduceScatter(World, k)
  <2>1. Age(r, c) = k + 1 /\ k < World - 1
    BY <1>1, SentAge DEF InReduceScatter
  <2>2. ~(k > World + Age(r, c) - 2) /\ k > Age(r, c) - 2
    BY <1>0, <2>1, PlanSize
  <2> QED BY <1>1, <2>1, <2>2 DEF Expected, Payload
<1>2. CASE ~InReduceScatter(World, k)
  <2>1. Payload(r, k) = Partial(c, World)
    BY <1>2 DEF Payload
  <2>2. k >= World - 1 /\ Age(r, c) = IF k = World - 1 THEN World ELSE k - World + 1
    BY <1>0, <1>2, SentAge, PlanSize DEF InReduceScatter
  <2>3. CASE k = World - 1
    <3>1. Age(r, c) = World /\ k > Age(r, c) - 2
      BY <2>2, <2>3, PlanSize
    <3> QED BY <2>1, <3>1 DEF Expected
  <2>4. CASE k # World - 1
    <3>1. k > World + Age(r, c) - 2
      BY <1>0, <2>2, <2>4, PlanSize
    <3> QED BY <2>1, <3>1 DEF Expected
  <2> QED BY <2>3, <2>4
<1> QED BY <1>1, <1>2

LEMMA AppliedExpected ==
  ASSUME NEW r \in Ranks, NEW k \in 0 .. Steps - 1, NEW c \in Ranks
  PROVE  Expected(r, c, k + 1) =
           IF c # ReceiveChunk(World, r, k) THEN Expected(r, c, k)
           ELSE IF InReduceScatter(World, k) THEN Payload(Pred(r), k) \o Expected(r, c, k)
           ELSE Payload(Pred(r), k)
<1> DEFINE x == ReceiveChunk(World, r, k)
<1>0. /\ k \in Int /\ 0 <= k /\ k < 2 * World - 2
      /\ Age(r, c) \in 1 .. World /\ (c + Age(r, c)) % World = r
      /\ x \in Ranks
      /\ Age(r, x) = Age(r, c) => x = c
  BY AgeIs, ReceivedAge, PlanSize
<1>1. CASE c # x
  <2>1. k # Age(r, c) - 2
    <3>1. CASE InReduceScatter(World, k)
      BY <1>0, <1>1, <3>1, ReceivedAge, PlanSize
    <3>2. CASE ~InReduceScatter(World, k)
      <4>1. k >= World - 1
        BY <1>0, <3>2, PlanSize DEF InReduceScatter
      <4> QED BY <1>0, <4>1, PlanSize
    <3> QED BY <3>1, <3>2
  <2>2. k # World + Age(r, c) - 2
    <3>1. CASE InReduceScatter(World, k)
      <4>1. k < World - 1
        BY <3>1 DEF InReduceScatter
      <4> QED BY <1>0, <4>1, PlanSize
    <3>2. CASE ~InReduceScatter(World, k)
      <4>1. Age(r, x) = k - World + 2
        BY <3>2, ReceivedAge
      <4> QED BY <1>0, <1>1, <4>1, PlanSize
    <3> QED BY <3>1, <3>2
  <2>3. /\ k + 1 > Age(r, c) - 2 <=> k > Age(r, c) - 2
        /\ k + 1 > World + Age(r, c) - 2 <=> k > World + Age(r, c) - 2
    BY <1>0, <2>1, <2>2, PlanSize
  <2> QED BY <1>1, <2>3 DEF Expected
<1>2. CASE c = x
  <2>0. SendChunk(World, Pred(r), k) = c
    BY <1>2, ReceivedIsSent
  <2>1. CASE InReduceScatter(World, k)
    <3>1. Age(r, c) = k + 2 /\ k < World - 1
      BY <1>2, <2>1, ReceivedAge DEF InReduceScatter
    <3>2. Payload(Pred(r), k) = Partial(c, k + 1)
      BY <2>0, <2>1 DEF Payload
    <3>3. Expected(r, c, k) = <<r>>
      <4>1. ~(k > World + Age(r, c) - 2) /\ ~(k > Age(r, c) - 2)
        BY <1>0, <3>1, PlanSize
      <4> QED BY <4>1 DEF Expected
    <3>4. Expected(r, c, k + 1) = Partial(c, k + 2)
      <4>1. ~(k + 1 > World + Age(r, c) - 2) /\ k + 1 > Age(r, c) - 2
        BY <1>0, <3>1, PlanSize
      <4> QED BY <3>1, <4>1 DEF Expected
    <3>5. Partial(c, k + 1) \o <<r>> = Partial(c, k + 2)
      <4>1. k + 1 \in Nat /\ (k + 1) + 1 = k + 2 /\ c + (k + 1) + 1 = c + Age(r, c)
        BY <1>0, <3>1, PlanSize DEF Ranks, RanksOf
      <4>2. Partial(c, k + 1) \o <<(c + (k + 1) + 1) % World>> = Partial(c, (k + 1) + 1)
        BY <4>1, PartialGrows
      <4> QED BY <1>0, <4>1, <4>2
    <3> QED BY <1>2, <2>1, <3>2, <3>3, <3>4, <3>5
  <2>2. CASE ~InReduceScatter(World, k)
    <3>1. Age(r, c) = k - World + 2
      BY <1>2, <2>2, ReceivedAge
    <3>2. k + 1 > World + Age(r, c) - 2
      BY <1>0, <3>1, PlanSize
    <3>3. Expected(r, c, k + 1) = Partial(c, World)
      BY <3>2 DEF Expected
    <3>4. Payload(Pred(r), k) = Partial(c, World)
      BY <2>0, <2>2 DEF Payload
    <3> QED BY <1>2, <2>2, <3>3, <3>4
  <2> QED BY <2>1, <2>2
<1> QED BY <1>1, <1>2

-----------------------------------------------------------------------------
(***************************************************************************)
(* What a transfer step that succeeds does to its rank's values.           *)
(***************************************************************************)
LEMMA StepBound ==
  ASSUME EngineInv, NEW r \in Ranks, pc[r] \notin {"idle", "finish"}
  PROVE  step[r] \in 0 .. Steps - 1 /\ step[r] \in Int
BY PlanSize, Positions DEF EngineInv, EngineConsistent, Consistent

LEMMA WorkStep ==
  ASSUME EngineInv, ValuesExpected, [Next]_vars, NEW r \in Ranks, Active(r)'
  PROVE  work'[r] = [c \in Ranks |-> Expected(r, c, Applied(r)')]
<1>d. EngineTypeOK /\ RankFunctions /\ step[r] \in Int
  BY Domains, Positions, PlanSize DEF EngineInv
<1>w. Active(r) => work[r] = [c \in Ranks |-> Expected(r, c, Applied(r))]
  BY DEF ValuesExpected, WorkIsExpected
<1>1. CASE Rests(r)
  <2>1. Active(r) /\ Applied(r)' = Applied(r) /\ work'[r] = work[r]
    BY <1>1 DEF Rests, Active, Applied
  <2> QED BY <1>w, <2>1
<1>2. CASE GoesAhead(r)
  <2>f. ~FailSegment(r, r, r)
    BY <1>2, <1>d, FailSegmentEnds DEF Ends, GoesAhead
  <2>1. CASE StartAllReduce(r)
    <3>1. work'[r] = Input(r) /\ Applied(r)' = 0
      BY <1>d, <2>1
         DEF StartAllReduce, Goto, RankFunctions, Applied, EngineInv, EngineConsistent,
             Consistent
    <3> QED BY <3>1, InputExpected
  <2>2. CASE PrepareData(r) \/ SendData(r) \/ ReceiveData(r) \/ SendConsumed(r)
    <3>1. Active(r) /\ work'[r] = work[r] /\ Applied(r)' = Applied(r)
      BY <1>d, <2>2, <2>f
         DEF PrepareData, SendData, ReceiveData, SendConsumed, At, Active, Goto,
             RankFunctions, Applied
    <3> QED BY <1>w, <3>1
  <2>3. CASE ApplyInbound(r)
    <3> DEFINE k == step[r]
               x == ReceiveChunk(World, r, k)
    <3>1. /\ Active(r) /\ Applied(r) = k /\ Applied(r)' = k + 1 /\ k \in 0 .. Steps - 1
          /\ staged[r] = Payload(Pred(r), k)
      BY <1>d, <2>3, StepBound
         DEF ApplyInbound, At, Active, Goto, RankFunctions, Applied, ValuesExpected,
             StagedIsExpected
    <3>2. x \in Ranks
      BY <1>d, ChunksInRanks
    <3>3. work' = [work EXCEPT ![r][x] = IF InReduceScatter(World, k)
                                           THEN staged[r] \o @ ELSE staged[r]]
      BY <2>3 DEF ApplyInbound
    <3>4. work'[r] = [work[r] EXCEPT ![x] = IF InReduceScatter(World, k)
                                              THEN staged[r] \o @ ELSE staged[r]]
      BY <1>d, <3>3 DEF RankFunctions
    <3>5. work[r] = [c \in Ranks |-> Expected(r, c, k)]
      BY <1>w, <3>1
    <3>6. \A c \in Ranks : work'[r][c] = Expected(r, c, k + 1)
      BY <3>1, <3>2, <3>4, <3>5, AppliedExpected
    <3>7. work'[r] = [c \in Ranks |-> work'[r][c]]
      BY <3>4, <3>5
    <3> QED BY <3>1, <3>6, <3>7
  <2>4. CASE ReceiveConsumed(r)
    <3>1. Active(r) /\ work'[r] = work[r] /\ Applied(r) = step[r] + 1
      BY <1>d, <2>4, <2>f DEF ReceiveConsumed, At, Applied
    <3>2. Applied(r)' = step[r] + 1
      BY <1>d, <2>4, <2>f
         DEF ReceiveConsumed, CompleteStep, Goto, RankFunctions, Applied
    <3> QED BY <1>w, <3>1, <3>2
  <2>5. CASE FinishSegment(r)
    <3>1. work'[r] = Input(r) /\ Applied(r)' = 0
      BY <1>d, <2>5, <2>f
         DEF FinishSegment, NextSegment, Goto, RankFunctions, Applied
    <3> QED BY <3>1, InputExpected
  <2>6. CASE Commit(r)
    BY <1>d, <2>6, <2>f DEF Commit, Active, RankFunctions
  <2> QED BY <1>2, <2>1, <2>2, <2>3, <2>4, <2>5, <2>6 DEF GoesAhead, Transfer
<1> QED BY <1>d, <1>1, <1>2, WasInCollectives DEF InCollectives, Active

LEMMA StagedStep ==
  ASSUME EngineInv, ValuesExpected, [Next]_vars, NEW r \in Ranks, At(r, "apply")'
  PROVE  staged'[r] = Payload(Pred(r), step'[r])
<1>d. EngineTypeOK /\ RankFunctions /\ Pred(r) \in Ranks /\ Succ(Pred(r)) = r
  BY Domains, RingNeighbours DEF EngineInv
<1>1. CASE Rests(r)
  BY <1>1 DEF Rests, At, Active, ValuesExpected, StagedIsExpected
<1>2. CASE GoesAhead(r)
  <2>f. ~FailSegment(r, r, r)
    BY <1>2, <1>d, FailSegmentEnds DEF Ends, GoesAhead
  <2>1. CASE ReceiveData(r)
    <3> DEFINE q == sock[Pred(r)][r]
    <3>1. /\ q # <<>> /\ Head(q).kind = "DATA" /\ Head(q).step = step[r]
          /\ staged'[r] = Head(q).payload /\ step'[r] = step[r]
      BY <1>d, <2>1, <2>f DEF ReceiveData, RankFunctions
    <3>2. q \in Seq(Record)
      BY <1>d DEF EngineTypeOK
    <3>3. 1 \in DOMAIN q /\ q[1] = Head(q)
      BY <3>1, <3>2
    <3>4. q[1].kind = "DATA" => q[1].payload = Payload(Pred(r), q[1].step)
      BY <1>d, <3>3 DEF ValuesExpected, DataIsExpected
    <3> QED BY <3>1, <3>3, <3>4
  <2>2. CASE ~ReceiveData(r)
    <3>1. pc'[r] # "apply"
      BY <1>2, <1>d, <2>2, <2>f
         DEF GoesAhead, Transfer, StartAllReduce, PrepareData, SendData, ApplyInbound,
             SendConsumed, ReceiveConsumed, CompleteStep, FinishSegment, NextSegment,
             Commit, Goto, RankFunctions
    <3> QED BY <3>1 DEF At
  <2> QED BY <2>1, <2>2
<1> QED BY <1>d, <1>1, <1>2, WasInCollectives DEF InCollectives, At, Active

LEMMA DataStep ==
  ASSUME EngineInv, ValuesExpected, [Next]_vars, NEW r \in Ranks,
         NEW i \in DOMAIN sock'[r][Succ(r)], sock'[r][Succ(r)][i].kind = "DATA"
  PROVE  sock'[r][Succ(r)][i].payload = Payload(r, sock'[r][Succ(r)][i].step)
<1> DEFINE m == sock'[r][Succ(r)][i]
<1>n. Succ(r) \in Ranks
  BY RingNeighbours
<1>1. ASSUME NEW j \in DOMAIN sock[r][Succ(r)],
             sock[r][Succ(r)][j] = sock'[r][Succ(r)][i]
      PROVE  m.payload = Payload(r, m.step)
  BY <1>1 DEF ValuesExpected, DataIsExpected
<1>2. CASE SendData(r) /\ m = Data(r)
  <2>1. /\ Active(r) /\ Applied(r) = step[r] /\ step[r] \in 0 .. Steps - 1
        /\ step[r] \in Int
    BY <1>2, StepBound, PlanSize DEF SendData, At, Applied
  <2>2. work[r] = [c \in Ranks |-> Expected(r, c, step[r])]
    BY <2>1 DEF ValuesExpected, WorkIsExpected
  <2>3. SendChunk(World, r, step[r]) \in Ranks
    BY <2>1, ChunksInRanks
  <2>4. work[r][SendChunk(World, r, step[r])] = Payload(r, step[r])
    BY <2>1, <2>2, <2>3, SentExpected
  <2> QED BY <1>2, <2>4 DEF Data
<1>3. m # Consumed(r) /\ m.kind # "ABORT"
  BY DEF Consumed
<1> QED BY <1>n, <1>1, <1>2, <1>3, RecordOrigin

LEMMA ValuesInit == Init => ValuesExpected
<1> SUFFICES ASSUME Init PROVE ValuesExpected
  OBVIOUS
<1>1. \A r \in Ranks : ~Active(r) /\ sock[r][Succ(r)] = <<>>
  BY RingNeighbours DEF Init, Active
<1> QED BY <1>1
        DEF ValuesExpected, WorkIsExpected, StagedIsExpected, DataIsExpected, At

LEMMA ValuesStep ==
  ASSUME EngineInv, ValuesExpected, [Next]_vars
  PROVE  ValuesExpected'
<1>1. WorkIsExpected'
  BY WorkStep DEF WorkIsExpected
<1>2. StagedIsExpected'
  BY StagedStep DEF StagedIsExpected
<1>3. DataIsExpected'
  BY DataStep DEF DataIsExpected
<1> QED BY <1>1, <1>2, <1>3 DEF ValuesExpected

-----------------------------------------------------------------------------
(***************************************************************************)
(* Lists of results that are all the same.                                 *)
(***************************************************************************)
AllAre(list, v) == \A i \in DOMAIN list : list[i] = v

LEMMA AppendAllAre ==
  ASSUME NEW S, NEW v \in S, NEW list \in Seq(S), AllAre(list, v)
  PROVE  /\ Append(list, v) \in Seq(S) /\ AllAre(Append(list, v), v)
         /\ Len(Append(list, v)) = Len(list) + 1
<1>1. /\ Append(list, v) \in Seq(S) /\ Len(Append(list, v)) = Len(list) + 1
      /\ \A i \in 1 .. Len(list) : Append(list, v)[i] = list[i]
      /\ Append(list, v)[Len(list) + 1] = v
      /\ Len(list) \in Nat /\ DOMAIN list = 1 .. Len(list)
  BY AppendProperties, LenProperties
<1>2. DOMAIN Append(list, v) = 1 .. Len(list) + 1
  BY <1>1, LenProperties
<1> QED BY <1>1, <1>2 DEF AllAre

LEMMA ConcatAllAre ==
  ASSUME NEW S, NEW v \in S, NEW a \in Seq(S), NEW b \in Seq(S),
         AllAre(a, v), AllAre(b, v)
  PROVE  /\ a \o b \in Seq(S) /\ AllAre(a \o b, v)
         /\ Len(a \o b) = Len(a) + Len(b)
<1>1. /\ a \o b \in Seq(S) /\ Len(a \o b) = Len(a) + Len(b)
      /\ Len(a) \in Nat /\ DOMAIN a = 1 .. Len(a)
      /\ Len(b) \in Nat /\ DOMAIN b = 1 .. Len(b)
  BY ConcatProperties, LenProperties
<1>2. DOMAIN (a \o b) = 1 .. Len(a) + Len(b)
  BY <1>1, LenProperties
<1>3. ASSUME NEW i \in DOMAIN (a \o b) PROVE (a \o b)[i] = v
  <2>1. i \in 1 .. Len(a) + Len(b)
    BY <1>2
  <2>2. (a \o b)[i] = IF i <= Len(a) THEN a[i] ELSE b[i - Len(a)]
    BY <2>1, ConcatProperties
  <2>3. CASE i <= Len(a)
    <3>1. i \in DOMAIN a
      BY <1>1, <2>1, <2>3
    <3> QED BY <2>2, <2>3, <3>1 DEF AllAre
  <2>4. CASE ~(i <= Len(a))
    <3>1. i - Len(a) \in DOMAIN b
      BY <1>1, <2>1, <2>4
    <3> QED BY <2>2, <2>4, <3>1 DEF AllAre
  <2> QED BY <2>3, <2>4
<1> QED BY <1>1, <1>3 DEF AllAre

LEMMA AllAreIs ==
  ASSUME NEW S, NEW v, NEW list \in Seq(S), AllAre(list, v)
  PROVE  list = [i \in 1 .. Len(list) |-> v]
<1>1. DOMAIN list = 1 .. Len(list) /\ list = [i \in DOMAIN list |-> list[i]]
  BY LenProperties
<1> QED BY <1>1 DEF AllAre

-----------------------------------------------------------------------------
(***************************************************************************)
(* What a rank returns: one sum per finished segment, and never more than  *)
(* it finished.                                                            *)
(***************************************************************************)
Results == Seq([Ranks -> Values])

LEMMA ResultLists ==
  ASSUME EngineTypeOK, NEW r \in Ranks
  PROVE  /\ public[r] \in Results /\ completed[r] \in Results
         /\ Len(public[r]) \in Nat /\ Len(completed[r]) \in Nat
         /\ seq[r] \in Int
<1>1. public[r] \in Results /\ completed[r] \in Results /\ seq[r] \in Int
  BY EngineAssumption DEF EngineTypeOK, Results
<1> QED BY <1>1, LenProperties DEF Results

LEMMA ResultsAre ==
  ASSUME ResultsAreSums, NEW r \in Ranks
  PROVE  /\ AllAre(public[r], RingSum) /\ AllAre(completed[r], RingSum)
         /\ Len(public[r]) < seq[r]
         /\ InCollectives(r) => Len(public[r]) + Len(completed[r]) = seq[r] - 1
         /\ st[r] = "ready" => completed[r] = <<>>
BY DEF ResultsAreSums, AllAre, InCollectives

\* A rank that has finished its steps holds the sum.
LEMMA FinishedWork ==
  ASSUME EngineInv, ValuesExpected, NEW r \in Ranks, At(r, "finish")
  PROVE  work[r] = RingSum /\ RingSum \in [Ranks -> Values] /\ step[r] = Steps
<1>1. step[r] = Steps /\ Active(r) /\ Applied(r) = Steps
  BY PlanSize DEF EngineInv, EngineConsistent, Consistent, At, Applied
<1>2. work[r] = RingSum
  BY <1>1, DoneExpected DEF ValuesExpected, WorkIsExpected
<1>3. work[r] \in [Ranks -> Values]
  BY DEF EngineInv, EngineTypeOK
<1> QED BY <1>1, <1>2, <1>3

ResultsOf(r) ==
  /\ AllAre(public[r], RingSum) /\ AllAre(completed[r], RingSum)
  /\ Len(public[r]) < seq[r]
  /\ st[r] \in {"ready", "active"} => Len(public[r]) + Len(completed[r]) = seq[r] - 1
  /\ st[r] = "ready" => completed[r] = <<>>

LEMMA ResultsStep ==
  ASSUME EngineInv, ValuesExpected, ResultsAreSums, [Next]_vars
  PROVE  ResultsAreSums'
<1> SUFFICES ASSUME NEW r \in Ranks PROVE ResultsOf(r)'
  BY DEF ResultsAreSums, ResultsOf, AllAre
<1> DEFINE p == Len(public[r])
           c == Len(completed[r])
           s == seq[r]
           p1 == Len(public'[r])
           c1 == Len(completed'[r])
           s1 == seq'[r]
<1>d. EngineTypeOK /\ RankFunctions
  BY Domains DEF EngineInv
<1>h. /\ AllAre(public[r], RingSum) /\ AllAre(completed[r], RingSum)
      /\ p < s
      /\ InCollectives(r) => p + c = s - 1
      /\ st[r] = "ready" => completed[r] = <<>>
  BY ResultsAre
<1>l. /\ public[r] \in Results /\ completed[r] \in Results
      /\ p \in Nat /\ c \in Nat /\ s \in Int
  BY <1>d, ResultLists
<1>1. CASE Rests(r)
  BY <1>h, <1>1 DEF Rests, ResultsOf, AllAre, InCollectives
<1>2. CASE Ends(r)
  <2>1. AllAre(completed'[r], RingSum)
    BY <1>h, <1>2 DEF Ends, AllAre
  <2>2. public'[r] = public[r] /\ seq'[r] = seq[r] /\ st'[r] \notin {"ready", "active"}
    BY <1>2 DEF Ends, InCollectives
  <2> QED BY <1>h, <2>1, <2>2 DEF ResultsOf, AllAre
<1>3. CASE GoesAhead(r)
  <2>f. ~FailSegment(r, r, r)
    BY <1>3, <1>d, FailSegmentEnds DEF Ends, GoesAhead
  <2>1. CASE FinishSegment(r)
    <3>1. At(r, "finish") /\ InCollectives(r)
      BY <2>1 DEF FinishSegment, At, Active, InCollectives
    <3>2. work[r] = RingSum /\ RingSum \in [Ranks -> Values]
      BY <3>1, FinishedWork
    <3>3. /\ public'[r] = public[r] /\ seq'[r] = seq[r] + 1 /\ st'[r] = "active"
          /\ completed'[r] = Append(completed[r], RingSum)
      BY <1>d, <2>1, <2>f, <3>2
         DEF FinishSegment, NextSegment, At, Active, RankFunctions
    <3>4. /\ AllAre(Append(completed[r], RingSum), RingSum)
          /\ Len(Append(completed[r], RingSum)) = Len(completed[r]) + 1
      BY <1>h, <1>l, <3>2, AppendAllAre DEF Results
    <3>5. AllAre(public'[r], RingSum) /\ AllAre(completed'[r], RingSum)
      BY <1>h, <3>3, <3>4
    <3>6. p1 = p /\ c1 = c + 1 /\ s1 = s + 1 /\ p + c = s - 1
      BY <1>h, <3>1, <3>3, <3>4
    <3>7. p1 < s1 /\ p1 + c1 = s1 - 1
      <4> HIDE DEF p, c, s, p1, c1, s1
      <4> QED BY <1>l, <3>6
    <3> QED BY <3>3, <3>5, <3>7 DEF ResultsOf
  <2>2. CASE Commit(r)
    <3>1. At(r, "finish") /\ InCollectives(r)
      BY <2>2 DEF Commit, At, Active, InCollectives
    <3>2. work[r] = RingSum /\ RingSum \in [Ranks -> Values]
      BY <3>1, FinishedWork
    <3>3. /\ public'[r] = public[r] \o Append(completed[r], RingSum)
          /\ completed'[r] = <<>> /\ seq'[r] = seq[r] + 1 /\ st'[r] = "ready"
      BY <1>d, <2>2, <2>f, <3>2 DEF Commit, At, Active, RankFunctions
    <3>4. /\ Append(completed[r], RingSum) \in Results
          /\ AllAre(Append(completed[r], RingSum), RingSum)
          /\ Len(Append(completed[r], RingSum)) = c + 1
      BY <1>h, <1>l, <3>2, AppendAllAre DEF Results
    <3>5. AllAre(public'[r], RingSum) /\ p1 = p + (c + 1)
      <4> DEFINE a == public[r]
                 b == Append(completed[r], RingSum)
      <4>1. AllAre(a, RingSum) /\ AllAre(b, RingSum) /\ a \in Results /\ b \in Results
        BY <1>h, <1>l, <3>4
      <4>2. AllAre(a \o b, RingSum) /\ Len(a \o b) = Len(a) + Len(b)
        <5> HIDE DEF a, b
        <5> QED BY <3>2, <4>1, ConcatAllAre DEF Results
      <4>3. public'[r] = a \o b /\ Len(a) = p /\ Len(b) = c + 1
        BY <3>3, <3>4
      <4>4. AllAre(public'[r], RingSum)
        BY <4>2, <4>3 DEF AllAre
      <4> QED BY <4>2, <4>3, <4>4
    <3>6. AllAre(completed'[r], RingSum) /\ c1 = 0
      BY <3>3 DEF AllAre
    <3>7. s1 = s + 1 /\ p + c = s - 1
      BY <1>h, <3>1, <3>3
    <3>8. p1 < s1 /\ p1 + c1 = s1 - 1
      <4>1. p1 = p + (c + 1) /\ c1 = 0
        BY <3>5, <3>6
      <4> HIDE DEF p, c, s, p1, c1, s1
      <4> QED BY <1>l, <3>7, <4>1
    <3> QED BY <3>3, <3>5, <3>6, <3>8 DEF ResultsOf
  <2>3. CASE ~FinishSegment(r) /\ ~Commit(r)
    <3>1. /\ UNCHANGED <<public, completed, seq>>
          /\ InCollectives(r) /\ (st'[r] = "ready" => st[r] = "ready")
      BY <1>3, <1>d, <2>3, <2>f
         DEF GoesAhead, Transfer, StartAllReduce, PrepareData, SendData, ReceiveData,
             ApplyInbound, SendConsumed, ReceiveConsumed, CompleteStep, At, Active,
             InCollectives, RankFunctions
    <3> QED BY <1>h, <3>1 DEF ResultsOf, AllAre, InCollectives
  <2> QED BY <2>1, <2>2, <2>3
<1> QED BY <1>d, <1>1, <1>2, <1>3, StepDoes

-----------------------------------------------------------------------------
(***************************************************************************)
(* The inductive invariant behind the results.                             *)
(***************************************************************************)
ResultInv == KeepUpInv /\ NoneFarBehind /\ ValuesExpected /\ ResultsAreSums

LEMMA ResultInit == Init => ResultInv
<1> SUFFICES ASSUME Init PROVE ResultInv
  OBVIOUS
<1>1. NoneFarBehind
  <2> SUFFICES ASSUME NEW q \in Ranks, NEW r \in Ranks, NEW s \in 1 .. LastSequence,
                      NEW k \in 0 .. Steps - 1, q # r
               PROVE  ~Before(s, k + Hops(q, r) - 1, seq[q], step[q])
    BY DEF NoneFarBehind
  <2>1. Hops(q, r) \in 1 .. World - 1 /\ seq[q] = 1 /\ step[q] = 0
    BY HopsTyped DEF Init
  <2> QED BY <2>1, PlanSize DEF Before
<1>2. ResultsAreSums
  BY DEF Init, ResultsAreSums
<1> QED BY <1>1, <1>2, KeepUpInit, ValuesInit DEF ResultInv

LEMMA ResultNext == ResultInv /\ [Next]_vars => ResultInv'
BY KeepUpNext, NoneFarBehindStep, ValuesStep, ResultsStep DEF ResultInv, KeepUpInv

(***************************************************************************)
(* Every chunk a caller is returned, in every segment of every call, is    *)
(* the sum of one contribution of each rank in the ring order of the       *)
(* chunk: no rank is added twice or left out, whatever fails meanwhile.    *)
(***************************************************************************)
THEOREM ReturnedSums == Spec => []ResultsAreSums
<1>1. ResultInv => ResultsAreSums
  BY DEF ResultInv
<1> QED BY <1>1, ResultInit, ResultNext, PTL DEF Spec

(***************************************************************************)
(* _fail_collective in the reduce-scatter: the failed rank is missing in   *)
(* some chunk of every other rank, so none of them finishes the segment    *)
(* and none returns the call the segment belongs to.                       *)
(***************************************************************************)
LEMMA GroupWide == ResultInv => ReduceScatterFailureIsGroupWide
<1> SUFFICES ASSUME ResultInv, NEW r \in Ranks, Interrupted(r),
                    InReduceScatter(World, step[r]), NEW q \in Ranks,
                    ~(Len(public[q]) < seq[r])
             PROVE  FALSE
  BY DEF ReduceScatterFailureIsGroupWide
<1>1. EngineInv /\ NoneFarBehind /\ ResultsAreSums
  BY DEF ResultInv, KeepUpInv
<1>2. seq[r] \in 1 .. LastSequence
  BY <1>1, Positions DEF Interrupted, EngineInv, EngineConsistent, Consistent
<1>3. /\ seq[q] \in Int /\ step[q] \in Int /\ step[r] \in Int /\ step[r] < World - 1
      /\ Len(public[q]) \in Nat /\ seq[r] \in Int
  BY <1>1, <1>2, Positions, PlanSize, EngineAssumption, ResultLists
     DEF InReduceScatter, EngineInv
<1>4. seq[r] < seq[q]
  <2>1. Len(public[q]) < seq[q]
    BY <1>1, ResultsAre
  <2> QED BY <1>3, <2>1
<1>5. Before(seq[r], Steps - 1, seq[q], step[q])
  BY <1>4 DEF Before
<1>6. ~Before(seq[r], step[r], seq[r], World - 1)
  BY <1>1, <1>2, <1>5, AllReducedWhenDone
<1> QED BY <1>3, <1>6 DEF Before

THEOREM FailureIsGroupWide == Spec => []ReduceScatterFailureIsGroupWide
BY GroupWide, ResultInit, ResultNext, PTL DEF Spec

-----------------------------------------------------------------------------
(***************************************************************************)
(* The engines implement the abstract collective.                          *)
(***************************************************************************)
Entered == [r \in Ranks |-> IF pc[r] = "idle" THEN seq[r] - 1 ELSE seq[r]]
Gone == {r \in Ranks : ~InCollectives(r)}

LEMMA AbstractInit == Init => Abstract!Init
<1> SUFFICES ASSUME Init PROVE Abstract!Init
  OBVIOUS
<1>1. Entered = [r \in Ranks |-> 0] /\ Gone = {} /\ public = [r \in Ranks |-> <<>>]
  BY DEF Init, Entered, Gone, InCollectives
<1> QED BY <1>1 DEF Abstract!Init, Entered, Gone, InCollectives

\* What a rank does to the abstract state of the others, and of its own.
LEMMA Unseen ==
  ASSUME NEW q \in Ranks, Rests(q)
  PROVE  /\ Entered'[q] = Entered[q] /\ public'[q] = public[q]
         /\ q \in Gone' <=> q \in Gone
BY DEF Rests, Entered, Gone, InCollectives

\* A rank that completed all steps has every other one in its sequence.
LEMMA AllHaveEntered ==
  ASSUME ResultInv, NEW r \in Ranks, At(r, "finish"), NEW q \in Ranks
  PROVE  Entered[q] >= seq[r]
<1>1. EngineInv /\ NoneFarBehind
  BY DEF ResultInv, KeepUpInv
<1>2. /\ seq[r] \in 1 .. LastSequence /\ step[r] = Steps
      /\ pc[q] = "idle" => step[q] = 0
  BY <1>1, Positions DEF At, EngineInv, EngineConsistent, Consistent
<1>3. seq[r] \in Int /\ seq[q] \in Int /\ step[q] \in Int
  BY <1>1, Positions, PlanSize, EngineAssumption
<1>4. Before(seq[r], Steps - 1, seq[r], step[r])
  BY <1>2, PlanSize DEF Before
<1>5. ~Before(seq[q], step[q], seq[r], World - 1)
  BY <1>1, <1>2, <1>4, AllReducedWhenDone
<1>6. ~(seq[q] < seq[r]) /\ ~(seq[q] = seq[r] /\ step[q] < World - 1)
  BY <1>5 DEF Before
<1>7. CASE pc[q] = "idle"
  <2>1. Entered[q] = seq[q] - 1 /\ step[q] = 0
    BY <1>2, <1>7 DEF Entered
  <2> QED BY <1>3, <1>6, <2>1, PlanSize
<1>8. CASE pc[q] # "idle"
  <2>1. Entered[q] = seq[q]
    BY <1>8 DEF Entered
  <2> QED BY <1>3, <1>6, <2>1
<1> QED BY <1>7, <1>8

\* The mapped variables change where they change for the rank that moves.
LEMMA AbstractFrame ==
  ASSUME EngineTypeOK, EngineTypeOK', NEW r \in Ranks,
         \A q \in Ranks : Rests(q) \/ q = r
  PROVE  /\ Entered'[r] = Entered[r] => Entered' = Entered
         /\ Entered'[r] = Entered[r] + 1 => Entered' = [Entered EXCEPT ![r] = @ + 1]
         /\ public'[r] = public[r] => public' = public
         /\ \A v : public'[r] = v => public' = [public EXCEPT ![r] = v]
         /\ r \in Gone' => Gone' = Gone \cup {r}
         /\ (r \in Gone' <=> r \in Gone) => Gone' = Gone
<1>1. \A q \in Ranks : q # r =>
        /\ Entered'[q] = Entered[q] /\ public'[q] = public[q]
        /\ q \in Gone' <=> q \in Gone
  BY Unseen
<1>2. /\ Entered = [q \in Ranks |-> Entered[q]]
      /\ Entered' = [q \in Ranks |-> Entered'[q]]
  BY DEF Entered
<1>3. public = [q \in Ranks |-> public[q]] /\ public' = [q \in Ranks |-> public'[q]]
  BY DEF EngineTypeOK
<1>4. Gone \subseteq Ranks /\ Gone' \subseteq Ranks
  BY DEF Gone
<1> HIDE DEF Entered, Gone
<1>5. /\ Entered'[r] = Entered[r] => Entered' = Entered
      /\ Entered'[r] = Entered[r] + 1 => Entered' = [Entered EXCEPT ![r] = @ + 1]
  BY <1>1, <1>2
<1>6. /\ public'[r] = public[r] => public' = public
      /\ \A v : public'[r] = v => public' = [public EXCEPT ![r] = v]
  BY <1>1, <1>3
<1>7. /\ r \in Gone' => Gone' = Gone \cup {r}
      /\ (r \in Gone' <=> r \in Gone) => Gone' = Gone
  BY <1>1, <1>4
<1> QED BY <1>5, <1>6, <1>7

LEMMA ReturnedSoFar ==
  ASSUME EngineTypeOK, ResultsAreSums, NEW r \in Ranks, InCollectives(r), completed[r] = <<>>
  PROVE  public[r] = [i \in 1 .. seq[r] - 1 |-> RingSum]
<1>1. Len(public[r]) = seq[r] - 1
  <2>1. Len(public[r]) + Len(completed[r]) = seq[r] - 1 /\ Len(completed[r]) = 0
    BY ResultsAre
  <2>2. Len(public[r]) \in Nat /\ seq[r] \in Int
    BY ResultLists
  <2> DEFINE p == Len(public[r])
             c == Len(completed[r])
             s == seq[r]
  <2>3. p + c = s - 1 /\ c = 0 /\ p \in Nat /\ s \in Int
    BY <2>1, <2>2
  <2>4. p = s - 1
    <3> HIDE DEF p, c, s
    <3> QED BY <2>3
  <2> QED BY <2>4
<1>2. public[r] = [i \in 1 .. Len(public[r]) |-> RingSum]
  BY ResultLists, ResultsAre, AllAreIs DEF Results
<1> QED BY <1>1, <1>2

\* ... and after a commit.
LEMMA ReturnedByCommit ==
  ASSUME EngineTypeOK', ResultsAreSums', NEW r \in Ranks, st'[r] = "ready",
         completed'[r] = <<>>, NEW n \in Nat, seq'[r] = n + 1
  PROVE  public'[r] = [i \in 1 .. n |-> RingSum]
<1> DEFINE p == Len(public'[r])
           c == Len(completed'[r])
<1>1. public'[r] \in Results
  BY DEF EngineTypeOK, Results
<1>2. p \in Nat /\ c = 0 /\ p + c = (n + 1) - 1
  BY <1>1, LenProperties DEF Results, ResultsAreSums
<1>3. p = n
  <2> HIDE DEF p, c
  <2> QED BY <1>2
<1>4. AllAre(public'[r], RingSum)
  BY DEF ResultsAreSums, AllAre
<1>5. public'[r] = [i \in 1 .. p |-> RingSum]
  BY <1>1, <1>4, AllAreIs DEF Results
<1> QED BY <1>3, <1>5

-----------------------------------------------------------------------------
(***************************************************************************)
(* Each kind of step, in the abstract collective.                          *)
(***************************************************************************)
LEMMA EntersSequence ==
  ASSUME ResultInv, ResultInv', [Next]_vars, NEW r \in Ranks,
         \A q \in Ranks : Rests(q) \/ q = r,
         \/ StartAllReduce(r)
         \/ FinishSegment(r) /\ GoesAhead(r)
  PROVE  Abstract!Contribute(r)
<1>1. /\ EngineInv /\ EngineTypeOK /\ EngineTypeOK' /\ RankFunctions
      /\ ResultsAreSums
  BY Domains DEF ResultInv, KeepUpInv, EngineInv
<1>2. seq[r] \in 1 .. LastSequence + 1 /\ LastSequence \in Nat
  BY <1>1, Positions, EngineAssumption
<1>3. CASE StartAllReduce(r)
  <2>1. /\ st[r] = "ready" /\ pc[r] = "idle" /\ seq[r] <= LastSequence
        /\ completed[r] = <<>> /\ InCollectives(r)
    BY <1>1, <1>3, ResultsAre
       DEF StartAllReduce, EngineInv, EngineConsistent, Consistent, InCollectives
  <2>2. st'[r] = "active" /\ pc'[r] = "prepare" /\ seq'[r] = seq[r] /\ public' = public
    BY <1>1, <1>3 DEF StartAllReduce, Goto, RankFunctions
  <2>3. /\ Entered[r] = seq[r] - 1 /\ Entered'[r] = seq[r]
        /\ r \notin Gone /\ r \notin Gone'
    BY <2>1, <2>2 DEF Entered, Gone, InCollectives
  <2>4. Entered[r] < LastSequence /\ Entered'[r] = Entered[r] + 1
    BY <1>2, <2>1, <2>3
  <2>5. public[r] = [i \in 1 .. Entered[r] |-> RingSum]
    BY <1>1, <2>1, <2>3, ReturnedSoFar
  <2>6. Entered' = [Entered EXCEPT ![r] = @ + 1] /\ Gone' = Gone
    BY <1>1, <2>3, <2>4, AbstractFrame
  <2> QED BY <2>2, <2>3, <2>4, <2>5, <2>6
          DEF Abstract!Contribute, Entered, Gone, InCollectives
<1>4. CASE FinishSegment(r) /\ GoesAhead(r)
  <2>f. ~FailSegment(r, r, r)
    BY <1>1, <1>4, FailSegmentEnds DEF Ends, GoesAhead
  <2>1. /\ st[r] = "active" /\ pc[r] = "finish" /\ seq[r] \notin CallEnds
        /\ seq[r] <= LastSequence
    BY <1>1, <1>4 DEF FinishSegment, At, Active, EngineInv, EngineConsistent, Consistent
  <2>2. /\ st'[r] = "active" /\ pc'[r] = "prepare" /\ seq'[r] = seq[r] + 1
        /\ public' = public
    BY <1>1, <1>4, <2>1, <2>f DEF FinishSegment, NextSegment, Goto, RankFunctions
  <2>3. /\ Entered[r] = seq[r] /\ Entered'[r] = seq[r] + 1
        /\ r \notin Gone /\ r \notin Gone'
    BY <2>1, <2>2 DEF Entered, Gone, InCollectives
  <2>4. Entered[r] < LastSequence
    BY <1>2, <2>1, <2>3, EngineAssumption
  <2>5. Entered' = [Entered EXCEPT ![r] = @ + 1] /\ Gone' = Gone
    BY <1>1, <2>3, AbstractFrame
  <2> QED BY <2>1, <2>2, <2>3, <2>4, <2>5
          DEF Abstract!Contribute, Entered, Gone, InCollectives
<1> QED BY <1>3, <1>4

LEMMA ReturnsCall ==
  ASSUME ResultInv, ResultInv', [Next]_vars, NEW r \in Ranks,
         \A q \in Ranks : Rests(q) \/ q = r,
         Commit(r), GoesAhead(r)
  PROVE  Abstract!Return(r)
<1>1. /\ EngineInv /\ EngineTypeOK /\ EngineTypeOK' /\ RankFunctions
      /\ ResultsAreSums'
  BY Domains DEF ResultInv, KeepUpInv, EngineInv
<1>f. ~FailSegment(r, r, r)
  BY <1>1, FailSegmentEnds DEF Ends, GoesAhead
<1>2. At(r, "finish") /\ st[r] = "active" /\ pc[r] = "finish" /\ seq[r] \in CallEnds
  BY DEF Commit, At, Active
<1>3. /\ st'[r] = "ready" /\ pc'[r] = "idle" /\ seq'[r] = seq[r] + 1
      /\ completed'[r] = <<>>
  BY <1>1, <1>f DEF Commit, Goto, RankFunctions
<1>4. seq[r] \in Nat
  BY <1>1, Positions, EngineAssumption
<1>5. /\ Entered[r] = seq[r] /\ Entered'[r] = Entered[r]
      /\ r \notin Gone /\ r \notin Gone'
  BY <1>2, <1>3, <1>4 DEF Entered, Gone, InCollectives
<1>6. public'[r] = [i \in 1 .. seq[r] |-> RingSum]
  BY <1>1, <1>3, <1>4, ReturnedByCommit
<1>7. /\ Entered' = Entered /\ Gone' = Gone
      /\ public' = [public EXCEPT ![r] = [i \in 1 .. seq[r] |-> RingSum]]
  BY <1>1, <1>5, <1>6, AbstractFrame
<1>8. \A q \in Ranks : Entered[q] >= Entered[r]
  BY <1>2, <1>5, AllHaveEntered
<1> QED BY <1>2, <1>5, <1>7, <1>8
        DEF Abstract!Return, Entered, Gone, InCollectives

LEMMA AbstractStep == ResultInv /\ ResultInv' /\ [Next]_vars => [Abstract!Next]_(Abstract!vars)
<1> SUFFICES ASSUME ResultInv, ResultInv', [Next]_vars
             PROVE  [Abstract!Next]_(Abstract!vars)
  OBVIOUS
<1>1. EngineTypeOK /\ EngineTypeOK' /\ RankFunctions
  BY Domains DEF ResultInv, KeepUpInv, EngineInv
<1>2. PICK r \in Ranks :
        \A q \in Ranks : Rests(q) \/ (q = r /\ (Ends(q) \/ GoesAhead(q)))
  BY <1>1, OneRankMoves
<1>f. \A q \in Ranks : Rests(q) \/ q = r
  BY <1>2
<1>3. ASSUME Entered'[r] = Entered[r], public'[r] = public[r], r \in Gone' <=> r \in Gone
      PROVE  UNCHANGED Abstract!vars
  <2>1. Entered' = Entered /\ public' = public /\ Gone' = Gone
    BY <1>1, <1>3, <1>f, AbstractFrame
  <2> QED BY <2>1 DEF Abstract!vars, Entered, Gone, InCollectives
<1>4. CASE Rests(r)
  BY <1>3, <1>4, Unseen
<1>5. CASE Ends(r)
  <2>1. Entered'[r] = Entered[r] /\ public'[r] = public[r] /\ r \in Gone'
    BY <1>5 DEF Ends, Entered, Gone
  <2>2. Entered' = Entered /\ public' = public /\ Gone' = Gone \cup {r}
    BY <1>1, <1>f, <2>1, AbstractFrame
  <2>3. Abstract!Leave(r)
    BY <2>2 DEF Abstract!Leave, Entered, Gone, InCollectives
  <2> QED BY <2>3 DEF Abstract!Next
<1>6. CASE GoesAhead(r)
  <2>1. CASE StartAllReduce(r) \/ FinishSegment(r)
    BY <1>f, <1>6, <2>1, EntersSequence DEF Abstract!Next
  <2>2. CASE Commit(r)
    BY <1>f, <1>6, <2>2, ReturnsCall DEF Abstract!Next
  <2>3. CASE \/ PrepareData(r) \/ SendData(r) \/ ReceiveData(r) \/ ApplyInbound(r)
             \/ SendConsumed(r) \/ ReceiveConsumed(r)
    <3>f. ~FailSegment(r, r, r)
      BY <1>1, <1>6, FailSegmentEnds DEF Ends, GoesAhead
    <3>1. /\ pc[r] # "idle" /\ pc'[r] # "idle" /\ UNCHANGED <<seq, public, st>>
      BY <1>1, <2>3, <3>f
         DEF PrepareData, SendData, ReceiveData, ApplyInbound, SendConsumed,
             ReceiveConsumed, CompleteStep, At, Goto, RankFunctions
    <3>2. /\ Entered'[r] = Entered[r] /\ public'[r] = public[r]
          /\ r \in Gone' <=> r \in Gone
      BY <3>1 DEF Entered, Gone, InCollectives
    <3> QED BY <1>3, <3>2
  <2> QED BY <1>6, <2>1, <2>2, <2>3 DEF GoesAhead, Transfer
<1> QED BY <1>2, <1>4, <1>5, <1>6

(***************************************************************************)
(* all_reduce as its callers see it: the ranks enter the sequences in      *)
(* order, a call returns the sums of all its segments at once and only     *)
(* after every rank has entered them all, and a rank that failed, closed   *)
(* or died neither enters nor returns anything more.                       *)
(***************************************************************************)
THEOREM EnginesImplementCollective == Spec => ImplementsCollective
BY AbstractInit, AbstractStep, ResultInit, ResultNext, PTL
   DEF Spec, ImplementsCollective, Abstract!Spec
=============================================================================
