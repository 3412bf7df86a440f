-------------------------- MODULE RingOracleProofs --------------------------
(***************************************************************************)
(* Proofs about RingOracle for every set of world sizes, of tensor sizes,  *)
(* and every size of a segment.                                            *)
(***************************************************************************)
EXTENDS RingOracle, SequenceTheorems, TLAPS

-----------------------------------------------------------------------------
(***************************************************************************)
(* The number of contributions that chunk c has when it holds the one of   *)
(* rank r, the first n of them in ring order, and what rank r holds of     *)
(* chunk c before step k.                                                  *)
(***************************************************************************)
Age(w, r, c) == IF c < r THEN r - c ELSE r - c + w
Partial(w, c, n) == [i \in 1 .. n |-> (c + i) % w]
Held(w, r, c, k) ==
  IF k > w + Age(w, r, c) - 2 THEN Partial(w, c, w)
  ELSE IF k > Age(w, r, c) - 2 THEN Partial(w, c, Age(w, r, c))
  ELSE <<r>>

-----------------------------------------------------------------------------
(***************************************************************************)
(* The ring.                                                               *)
(***************************************************************************)
LEMMA WrapsOnce ==
  ASSUME NEW w \in Nat, w >= 2, NEW a \in Int, 0 <= a, a < 2 * w
  PROVE  a % w = IF a < w THEN a ELSE a - w
OBVIOUS

LEMMA Neighbours ==
  ASSUME NEW w \in Nat, w >= 2, NEW r \in RanksOf(w)
  PROVE  /\ NextRank(w, r) = IF r = w - 1 THEN 0 ELSE r + 1
         /\ PrevRank(w, r) = IF r = 0 THEN w - 1 ELSE r - 1
         /\ NextRank(w, r) \in RanksOf(w) /\ PrevRank(w, r) \in RanksOf(w)
         /\ PrevRank(w, NextRank(w, r)) = r
<1>1. NextRank(w, r) = IF r = w - 1 THEN 0 ELSE r + 1
  BY WrapsOnce DEF RanksOf, NextRank
<1>2. \A q \in RanksOf(w) : PrevRank(w, q) = IF q = 0 THEN w - 1 ELSE q - 1
  <2> SUFFICES ASSUME NEW q \in RanksOf(w)
               PROVE  PrevRank(w, q) = IF q = 0 THEN w - 1 ELSE q - 1
    OBVIOUS
  <2>1. q + w - 1 \in Int /\ 0 <= q + w - 1 /\ q + w - 1 < 2 * w
    BY DEF RanksOf
  <2> QED
    BY <2>1, WrapsOnce DEF RanksOf, PrevRank
<1>3. NextRank(w, r) \in RanksOf(w) /\ PrevRank(w, r) \in RanksOf(w)
  BY <1>1, <1>2 DEF RanksOf
<1> QED
  BY <1>1, <1>2, <1>3 DEF RanksOf

LEMMA AgeProperties ==
  ASSUME NEW w \in Nat, w >= 2, NEW r \in RanksOf(w), NEW c \in RanksOf(w)
  PROVE  /\ Age(w, r, c) \in 1 .. w /\ (c + Age(w, r, c)) % w = r
         /\ \A d \in RanksOf(w) : Age(w, r, d) = Age(w, r, c) => d = c
<1>1. r \in Int /\ c \in Int /\ 0 <= r /\ r < w /\ 0 <= c /\ c < w
  BY DEF RanksOf
<1>2. Age(w, r, c) \in 1 .. w /\ c + Age(w, r, c) = IF c < r THEN r ELSE r + w
  BY <1>1 DEF Age
<1>3. (c + Age(w, r, c)) % w = r
  BY <1>1, <1>2, WrapsOnce
<1>4. \A d \in RanksOf(w) : Age(w, r, d) = Age(w, r, c) => d = c
  BY <1>1 DEF Age, RanksOf
<1> QED
  BY <1>2, <1>3, <1>4

LEMMA ReceivedChunk ==
  ASSUME NEW w \in Nat, w >= 2, NEW r \in RanksOf(w), NEW k \in 0 .. StepCount(w) - 1
  PROVE  /\ ReceiveChunk(w, r, k) \in RanksOf(w)
         /\ Age(w, r, ReceiveChunk(w, r, k)) = IF InReduceScatter(w, k) THEN k + 2 ELSE k - w + 2
<1> DEFINE c == ReceiveChunk(w, r, k)
<1>1. r \in Int /\ 0 <= r /\ r < w /\ k \in Int /\ 0 <= k /\ k < 2 * w - 2
  BY DEF RanksOf, StepCount
<1>2. CASE InReduceScatter(w, k)
  <2>1. k < w - 1 /\ c = (r + w - k - 2) % w
    BY <1>2 DEF InReduceScatter, ReceiveChunk, PhaseStep
  <2>2. c = IF r + w - k - 2 < w THEN r + w - k - 2 ELSE r - k - 2
    <3>1. r + w - k - 2 \in Int /\ 0 <= r + w - k - 2 /\ r + w - k - 2 < 2 * w
      BY <1>1, <2>1
    <3>2. (r + w - k - 2) % w = IF r + w - k - 2 < w THEN r + w - k - 2 ELSE (r + w - k - 2) - w
      BY <3>1, WrapsOnce
    <3> QED
      BY <1>1, <2>1, <3>2
  <2> QED
    BY <1>1, <1>2, <2>1, <2>2 DEF Age, RanksOf
<1>3. CASE ~InReduceScatter(w, k)
  <2>1. k >= w - 1 /\ c = (r + w - (k - (w - 1)) - 1) % w
    BY <1>1, <1>3 DEF InReduceScatter, ReceiveChunk, PhaseStep
  <2>2. c = IF r + 2 * w - k - 2 < w THEN r + 2 * w - k - 2 ELSE r + w - k - 2
    <3>1. r + w - (k - (w - 1)) - 1 = r + 2 * w - k - 2
      BY <1>1
    <3>2. r + 2 * w - k - 2 \in Int /\ 0 <= r + 2 * w - k - 2 /\ r + 2 * w - k - 2 < 2 * w
      BY <1>1, <2>1
    <3>3. (r + 2 * w - k - 2) % w = IF r + 2 * w - k - 2 < w THEN r + 2 * w - k - 2 ELSE (r + 2 * w - k - 2) - w
      BY <3>2, WrapsOnce
    <3> QED
      BY <1>1, <2>1, <3>1, <3>3
  <2> QED
    BY <1>1, <1>3, <2>1, <2>2 DEF Age, RanksOf
<1> QED
  BY <1>2, <1>3

LEMMA SentChunk ==
  ASSUME NEW w \in Nat, w >= 2, NEW r \in RanksOf(w), NEW k \in 0 .. StepCount(w) - 1
  PROVE  /\ SendChunk(w, r, k) \in RanksOf(w)
         /\ Age(w, r, SendChunk(w, r, k)) = IF InReduceScatter(w, k) THEN k + 1
                                            ELSE IF k = w - 1 THEN w ELSE k - w + 1
<1> DEFINE c == SendChunk(w, r, k)
<1>1. r \in Int /\ 0 <= r /\ r < w /\ k \in Int /\ 0 <= k /\ k < 2 * w - 2
  BY DEF RanksOf, StepCount
<1>2. CASE InReduceScatter(w, k)
  <2>1. k < w - 1 /\ c = (r + w - k - 1) % w
    BY <1>2 DEF InReduceScatter, SendChunk, PhaseStep
  <2>2. c = IF r + w - k - 1 < w THEN r + w - k - 1 ELSE r - k - 1
    <3>1. r + w - k - 1 \in Int /\ 0 <= r + w - k - 1 /\ r + w - k - 1 < 2 * w
      BY <1>1, <2>1
    <3>2. (r + w - k - 1) % w = IF r + w - k - 1 < w THEN r + w - k - 1 ELSE (r + w - k - 1) - w
      BY <3>1, WrapsOnce
    <3> QED
      BY <1>1, <2>1, <3>2
  <2> QED
    BY <1>1, <1>2, <2>1, <2>2 DEF Age, RanksOf
<1>3. CASE ~InReduceScatter(w, k)
  <2>1. k >= w - 1 /\ c = (r + w - (k - (w - 1))) % w
    BY <1>1, <1>3 DEF InReduceScatter, SendChunk, PhaseStep
  <2>2. c = IF r + 2 * w - k - 1 < w THEN r + 2 * w - k - 1 ELSE r + w - k - 1
    <3>1. r + w - (k - (w - 1)) = r + 2 * w - k - 1
      BY <1>1
    <3>2. r + 2 * w - k - 1 \in Int /\ 0 <= r + 2 * w - k - 1 /\ r + 2 * w - k - 1 < 2 * w
      BY <1>1, <2>1
    <3>3. (r + 2 * w - k - 1) % w = IF r + 2 * w - k - 1 < w THEN r + 2 * w - k - 1 ELSE (r + 2 * w - k - 1) - w
      BY <3>2, WrapsOnce
    <3> QED
      BY <1>1, <2>1, <3>1, <3>3
  <2> QED
    BY <1>1, <1>3, <2>1, <2>2 DEF Age, RanksOf
<1> QED
  BY <1>2, <1>3

\* What a rank receives is what its predecessor sends.
LEMMA ReceivedIsSent ==
  ASSUME NEW w \in Nat, w >= 2, NEW r \in RanksOf(w), NEW k \in 0 .. StepCount(w) - 1
  PROVE  ReceiveChunk(w, r, k) = SendChunk(w, PrevRank(w, r), k)
<1> DEFINE p == PrevRank(w, r)
           c == SendChunk(w, p, k)
<1>1. r \in Int /\ 0 <= r /\ r < w /\ k \in Int /\ 0 <= k /\ k < 2 * w - 2
  BY DEF RanksOf, StepCount
<1>2. p \in RanksOf(w) /\ p = IF r = 0 THEN w - 1 ELSE r - 1
  BY Neighbours
<1>3. /\ c \in RanksOf(w)
      /\ Age(w, p, c) = IF InReduceScatter(w, k) THEN k + 1
                        ELSE IF k = w - 1 THEN w ELSE k - w + 1
  BY <1>2, SentChunk
<1>4. /\ ReceiveChunk(w, r, k) \in RanksOf(w)
      /\ Age(w, r, ReceiveChunk(w, r, k)) = IF InReduceScatter(w, k) THEN k + 2 ELSE k - w + 2
  BY ReceivedChunk
<1> HIDE DEF p, c
<1>5. Age(w, r, c) = IF Age(w, p, c) = w THEN 1 ELSE Age(w, p, c) + 1
  BY <1>1, <1>2, <1>3 DEF Age, RanksOf
<1>6. Age(w, r, ReceiveChunk(w, r, k)) = Age(w, r, c)
  BY <1>1, <1>3, <1>4, <1>5 DEF InReduceScatter
<1> QED
  BY <1>3, <1>4, <1>6, AgeProperties DEF p, c

-----------------------------------------------------------------------------
(***************************************************************************)
(* The chunks partition the elements of a segment.                         *)
(***************************************************************************)
LEMMA Division ==
  ASSUME NEW a \in Nat, NEW n \in Nat, n > 0
  PROVE  /\ a \div n \in Nat /\ a % n \in 0 .. n - 1 /\ a = n * (a \div n) + (a % n)
OBVIOUS

LEMMA Products ==
  ASSUME NEW a \in Int, NEW b \in Int, NEW n \in Nat, a <= b
  PROVE  a * n <= b * n /\ (a + 1) * n = a * n + n
OBVIOUS

\* The offsets of two chunks, the second of which begins where the first ends.
LEMMA Offsets ==
  ASSUME NEW w \in Nat, w >= 2, NEW total \in Nat, NEW c \in Nat
  PROVE  /\ ChunkOffset(total, w, c) \in Nat /\ ChunkLength(total, w, c) \in Nat
         /\ ChunkOffset(total, w, c + 1) = ChunkOffset(total, w, c) + ChunkLength(total, w, c)
         /\ \A d \in Nat : c <= d => ChunkOffset(total, w, c) <= ChunkOffset(total, w, d)
<1> DEFINE q == total \div w
           m == total % w
<1>1. q \in Nat /\ m \in Nat
  BY Division
<1>2. \A d \in Nat : ChunkOffset(total, w, d) = d * q + (IF d < m THEN d ELSE m)
  BY DEF ChunkOffset
<1>3. ChunkLength(total, w, c) = q + (IF c < m THEN 1 ELSE 0)
  BY DEF ChunkLength
<1> HIDE DEF q, m
<1>4. c * q \in Nat /\ (c + 1) * q = c * q + q
  BY <1>1, Products
<1>5. ChunkOffset(total, w, c + 1) = ChunkOffset(total, w, c) + ChunkLength(total, w, c)
  <2>1. ChunkOffset(total, w, c + 1) = (c + 1) * q + (IF c + 1 < m THEN c + 1 ELSE m)
    BY <1>2
  <2>2. ChunkOffset(total, w, c) = c * q + (IF c < m THEN c ELSE m)
    BY <1>2
  <2> QED
    BY <1>1, <1>3, <1>4, <2>1, <2>2
<1>6. ASSUME NEW d \in Nat, c <= d
      PROVE  ChunkOffset(total, w, c) <= ChunkOffset(total, w, d)
  <2>1. c * q <= d * q /\ d * q \in Nat
    BY <1>1, <1>6, Products
  <2>2. ChunkOffset(total, w, c) = c * q + (IF c < m THEN c ELSE m)
    BY <1>2
  <2>3. ChunkOffset(total, w, d) = d * q + (IF d < m THEN d ELSE m)
    BY <1>2
  <2> QED
    BY <1>1, <1>4, <1>6, <2>1, <2>2, <2>3
<1>7. ChunkOffset(total, w, c) \in Nat /\ ChunkLength(total, w, c) \in Nat
  <2>1. ChunkOffset(total, w, c) = c * q + (IF c < m THEN c ELSE m)
    BY <1>2
  <2> QED
    BY <1>1, <1>3, <1>4, <2>1
<1> QED
  BY <1>5, <1>6, <1>7

\* An element is in the chunk that its quotient names.
LEMMA EveryElementInChunk ==
  ASSUME NEW w \in Nat, w >= 2, NEW total \in Nat, NEW e \in 0 .. total - 1
  PROVE  \E c \in RanksOf(w) : e \in ChunkElements(total, w, c)
<1> DEFINE q == total \div w
           m == total % w
<1>1. q \in Nat /\ m \in 0 .. w - 1 /\ total = w * q + m
  BY Division
<1>2. \A c \in Nat : ChunkElements(total, w, c) =
        (c * q + (IF c < m THEN c ELSE m)) ..
          (c * q + (IF c < m THEN c ELSE m)) + (q + (IF c < m THEN 1 ELSE 0)) - 1
  BY DEF ChunkElements, ChunkOffset, ChunkLength
<1> HIDE DEF q, m
<1>3. CASE e < m * (q + 1)
  <2> DEFINE c == e \div (q + 1)
             x == e % (q + 1)
  <2>1. c \in Nat /\ x \in 0 .. q /\ e = (q + 1) * c + x
    <3>1. q + 1 \in Nat /\ q + 1 > 0 /\ e \in Nat /\ (q + 1) - 1 = q
      BY <1>1
    <3> QED
      BY <3>1, Division
  <2> HIDE DEF c, x
  <2>2. c < m
    <3>1. ASSUME m <= c PROVE FALSE
      <4>1. m * (q + 1) <= c * (q + 1)
        BY <1>1, <2>1, <3>1, Products
      <4>2. c * (q + 1) = (q + 1) * c /\ c * (q + 1) \in Nat /\ m * (q + 1) \in Nat
        BY <1>1, <2>1
      <4> QED
        BY <1>3, <2>1, <4>1, <4>2
    <3> QED
      BY <1>1, <2>1, <3>1
  <2>3. (q + 1) * c = c * q + c /\ c * q \in Nat
    BY <1>1, <2>1
  <2>4. ChunkElements(total, w, c) = (c * q + c) .. (c * q + c) + (q + 1) - 1
    BY <1>2, <2>1, <2>2
  <2>5. e \in ChunkElements(total, w, c)
    BY <1>1, <2>1, <2>3, <2>4
  <2>6. c \in RanksOf(w)
    BY <1>1, <2>1, <2>2 DEF RanksOf
  <2> QED
    BY <2>5, <2>6
<1>4. CASE ~(e < m * (q + 1))
  <2> DEFINE rest == e - m * (q + 1)
             d == rest \div q
             x == rest % q
             c == m + d
  <2>1. /\ m * (q + 1) = m * q + m /\ m * q \in Nat /\ w * q \in Nat
        /\ (w - m) * q = w * q - m * q
    BY <1>1
  <2>2. rest \in Nat /\ rest < (w - m) * q
    BY <1>1, <1>4, <2>1
  <2>3. q > 0
    <3>1. ASSUME q = 0 PROVE FALSE
      BY <1>1, <2>2, <3>1
    <3> QED
      BY <1>1, <3>1
  <2> HIDE DEF rest
  <2>4. d \in Nat /\ x \in 0 .. q - 1 /\ rest = q * d + x
    BY <1>1, <2>2, <2>3, Division
  <2> HIDE DEF d, x
  <2>5. d < w - m
    <3>1. ASSUME w - m <= d PROVE FALSE
      <4>1. (w - m) * q <= d * q
        BY <1>1, <2>4, <3>1, Products
      <4>2. d * q = q * d /\ d * q \in Nat /\ (w - m) * q \in Int
        BY <1>1, <2>4
      <4> QED
        BY <2>2, <2>4, <4>1, <4>2
    <3> QED
      BY <1>1, <2>4, <3>1
  <2>6. c \in Nat /\ ~(c < m) /\ c < w
    BY <1>1, <2>4, <2>5
  <2>7. c * q = m * q + q * d
    BY <1>1, <2>4
  <2>8. ChunkElements(total, w, c) = (c * q + m) .. (c * q + m) + (q + 0) - 1
    BY <1>2, <2>6
  <2>9. e = rest + m * (q + 1)
    BY <1>1, <2>1 DEF rest
  <2>10. q * d \in Nat
    BY <1>1, <2>4
  <2> HIDE DEF c
  <2>11. e \in ChunkElements(total, w, c)
    BY <1>1, <2>1, <2>4, <2>7, <2>8, <2>9, <2>10
  <2>12. c \in RanksOf(w)
    BY <2>6 DEF RanksOf
  <2> QED
    BY <2>11, <2>12
<1> QED
  BY <1>3, <1>4

ChunkAt(w, length, e) == CHOOSE c \in RanksOf(w) : e \in ChunkElements(length, w, c)

LEMMA OneChunkOfElement ==
  ASSUME NEW w \in Nat, w >= 2, NEW total \in Nat, NEW e \in 0 .. total - 1
  PROVE  /\ ChunkAt(w, total, e) \in RanksOf(w)
         /\ \A c \in RanksOf(w) :
              e \in ChunkElements(total, w, c) <=> c = ChunkAt(w, total, e)
<1> DEFINE a == ChunkAt(w, total, e)
<1>1. a \in RanksOf(w) /\ e \in ChunkElements(total, w, a)
  BY EveryElementInChunk DEF ChunkAt
<1>2. ASSUME NEW c \in RanksOf(w), NEW d \in RanksOf(w), c < d,
             e \in ChunkElements(total, w, c), e \in ChunkElements(total, w, d)
      PROVE  FALSE
  <2>1. c \in Nat /\ d \in Nat /\ c + 1 <= d /\ c + 1 \in Nat
    BY <1>2 DEF RanksOf
  <2>2. ChunkOffset(total, w, c + 1) <= ChunkOffset(total, w, d)
    BY <2>1, Offsets
  <2>3. ChunkOffset(total, w, c + 1) = ChunkOffset(total, w, c) + ChunkLength(total, w, c)
    BY <2>1, Offsets
  <2>4. /\ ChunkOffset(total, w, c) \in Nat /\ ChunkLength(total, w, c) \in Nat
        /\ ChunkOffset(total, w, d) \in Nat /\ ChunkLength(total, w, d) \in Nat
    BY <2>1, Offsets
  <2> QED
    BY <1>2, <2>2, <2>3, <2>4 DEF ChunkElements
<1>3. ASSUME NEW c \in RanksOf(w), e \in ChunkElements(total, w, c) PROVE c = a
  <2>1. c \in Int /\ a \in Int
    BY <1>1 DEF RanksOf
  <2> QED
    BY <1>1, <1>2, <1>3, <2>1
<1> QED
  BY <1>1, <1>3

-----------------------------------------------------------------------------
(***************************************************************************)
(* The segments partition the tensor.                                      *)
(***************************************************************************)
Cut(n) == PlanSegments(n, SegmentLimit, 1)
Start(n, i) == IF i > Len(Cut(n)) THEN n ELSE (i - 1) * SegmentLimit

LEMMA Cutting ==
  ASSUME NEW n \in Nat \ {0}
  PROVE  /\ Len(Cut(n)) \in Nat \ {0} /\ DOMAIN Cut(n) = 1 .. Len(Cut(n))
         /\ Start(n, 1) = 0 /\ Start(n, Len(Cut(n)) + 1) = n
         /\ \A i, j \in 1 .. Len(Cut(n)) : i <= j => Start(n, i) <= Start(n, j)
         /\ \A i \in 1 .. Len(Cut(n)) :
              /\ Cut(n)[i].offset = Start(n, i) /\ Start(n, i) \in Nat
              /\ Cut(n)[i].length \in Nat /\ Start(n, i + 1) = Start(n, i) + Cut(n)[i].length
<1> DEFINE L == SegmentLimit
           N == SegmentCount(n, SegmentLimit)
<1>1. L \in Nat /\ L > 0
  BY OracleAssumption
<1>2. N \in Nat /\ n + L - 1 = L * N + ((n + L - 1) % L) /\ (n + L - 1) % L \in 0 .. L - 1
  BY <1>1, Division DEF SegmentCount
<1>3. Cut(n) = [i \in 1 .. N |->
                  [sequence |-> 1 + i - 1, offset |-> (i - 1) * L,
                   length |-> IF L < n - (i - 1) * L THEN L ELSE n - (i - 1) * L]]
  BY DEF Cut, PlanSegments
<1> HIDE DEF N, L
<1>4. Len(Cut(n)) = N /\ DOMAIN Cut(n) = 1 .. N
  BY <1>2, <1>3
<1>5. N * L = L * N /\ N * L \in Nat /\ N * L >= n
  BY <1>1, <1>2
<1>6. N > 0
  BY <1>1, <1>2
<1>7. (N - 1) * L < n
  <2>1. (N - 1) * L = N * L - L
    BY <1>1, <1>2
  <2> QED
    BY <1>1, <1>2, <1>5, <2>1
<1>8. ASSUME NEW i \in 1 .. N
      PROVE  /\ Cut(n)[i].offset = Start(n, i) /\ Start(n, i) \in Nat
             /\ Cut(n)[i].length \in Nat /\ Start(n, i + 1) = Start(n, i) + Cut(n)[i].length
  <2>1. /\ Cut(n)[i].offset = (i - 1) * L
        /\ Cut(n)[i].length = IF L < n - (i - 1) * L THEN L ELSE n - (i - 1) * L
    BY <1>3
  <2>2. Start(n, i) = (i - 1) * L
    BY <1>2, <1>4 DEF Start, L
  <2>3. Start(n, i + 1) = IF i = N THEN n ELSE i * L
    BY <1>2, <1>4 DEF Start, L
  <2>4. i * L = (i - 1) * L + L /\ (i - 1) * L \in Nat
    BY <1>1
  <2>5. CASE i = N
    <3>1. (i - 1) * L < n /\ (i - 1) * L + L >= n
      BY <1>5, <1>7, <2>4, <2>5
    <3> QED
      BY <1>1, <2>1, <2>2, <2>3, <2>4, <2>5, <3>1
  <2>6. CASE i < N
    <3>1. i * L <= (N - 1) * L
      BY <1>1, <1>2, <2>6, Products
    <3>2. i * L < n
      BY <1>1, <1>2, <1>7, <2>4, <3>1
    <3> QED
      BY <1>1, <2>1, <2>2, <2>3, <2>4, <2>6, <3>2
  <2> QED
    BY <1>2, <2>5, <2>6
<1>9. Start(n, 1) = 0
  BY <1>1, <1>4, <1>6 DEF Start, L
<1>10. ASSUME NEW i \in 1 .. N, NEW j \in 1 .. N, i <= j
       PROVE  Start(n, i) <= Start(n, j)
  <2>1. Start(n, i) = (i - 1) * L /\ Start(n, j) = (j - 1) * L
    BY <1>2, <1>4 DEF Start, L
  <2>2. (i - 1) * L <= (j - 1) * L
    BY <1>1, <1>2, <1>10, Products
  <2> QED
    BY <2>1, <2>2
<1>11. Start(n, Len(Cut(n)) + 1) = n
  BY <1>2, <1>4 DEF Start
<1> QED
  BY <1>2, <1>4, <1>6, <1>8, <1>9, <1>10, <1>11

-----------------------------------------------------------------------------
(***************************************************************************)
(* A partial sum grows by the next contribution and has none twice.        *)
(***************************************************************************)
LEMMA PartialTyped ==
  ASSUME NEW w \in Nat, w >= 2, NEW c \in RanksOf(w), NEW n \in Nat
  PROVE  /\ Partial(w, c, n) \in Seq(Int) /\ Len(Partial(w, c, n)) = n
         /\ \A i \in 1 .. n : Partial(w, c, n)[i] = (c + i) % w
         /\ \A i \in Int : (c + i) % w \in Int
<1>1. c \in Int /\ \A i \in Int : (c + i) % w \in Int
  BY DEF RanksOf
<1> QED
  BY <1>1 DEF Partial

LEMMA PartialGrows ==
  ASSUME NEW w \in Nat, w >= 2, NEW c \in RanksOf(w), NEW n \in Nat
  PROVE  Partial(w, c, n) \o <<(c + n + 1) % w>> = Partial(w, c, n + 1)
<1> DEFINE v == (c + n + 1) % w
           old == Partial(w, c, n)
           new == Partial(w, c, n + 1)
<1>1. c \in Int /\ c + n + 1 = c + (n + 1) /\ n + 1 \in Nat /\ n + 1 \in Int
  BY DEF RanksOf
<1>2. /\ old \in Seq(Int) /\ Len(old) = n /\ new \in Seq(Int) /\ Len(new) = n + 1
      /\ v \in Int /\ new[n + 1] = v
      /\ \A i \in 1 .. n : old[i] = (c + i) % w /\ new[i] = (c + i) % w
  BY <1>1, PartialTyped
<1> HIDE DEF old, new, v
<1>3. old \o <<v>> = Append(old, v)
  BY <1>2, AppendIsConcat
<1>4. /\ Append(old, v) \in Seq(Int) /\ Len(Append(old, v)) = n + 1
      /\ \A i \in 1 .. n : Append(old, v)[i] = old[i]
      /\ Append(old, v)[n + 1] = v
  <2>1. \A q \in Seq(Int) : /\ Append(q, v) \in Seq(Int)
                            /\ Len(Append(q, v)) = Len(q) + 1
                            /\ \A i \in 1 .. Len(q) : Append(q, v)[i] = q[i]
                            /\ Append(q, v)[Len(q) + 1] = v
    BY <1>2, AppendProperties
  <2> QED
    BY <1>2, <2>1
<1>5. \A i \in 1 .. n + 1 : Append(old, v)[i] = new[i]
  BY <1>2, <1>4
<1>6. Append(old, v) = new
  BY <1>2, <1>4, <1>5, SeqEqual
<1> QED
  BY <1>3, <1>6 DEF old, new, v

LEMMA PartialOne ==
  ASSUME NEW w \in Nat, w >= 2, NEW c \in RanksOf(w)
  PROVE  Partial(w, c, 1) = <<(c + 1) % w>>
BY PartialTyped DEF Partial

LEMMA NoneTwice ==
  ASSUME NEW w \in Nat, w >= 2, NEW c \in RanksOf(w),
         NEW i \in 1 .. w, NEW j \in 1 .. w, (c + i) % w = (c + j) % w
  PROVE  i = j
<1>1. /\ c \in Int /\ 0 <= c /\ c < w
      /\ c + i \in Int /\ 0 <= c + i /\ c + i < 2 * w
      /\ c + j \in Int /\ 0 <= c + j /\ c + j < 2 * w
  BY DEF RanksOf
<1>2. (c + i) % w = IF c + i < w THEN c + i ELSE (c + i) - w
  BY <1>1, WrapsOnce
<1>3. (c + j) % w = IF c + j < w THEN c + j ELSE (c + j) - w
  BY <1>1, WrapsOnce
<1> QED
  BY <1>1, <1>2, <1>3

-----------------------------------------------------------------------------
(***************************************************************************)
(* What a rank holds at first, at the end, and after a step.               *)
(***************************************************************************)
LEMMA HeldAtFirst ==
  ASSUME NEW w \in Nat, w >= 2, NEW r \in RanksOf(w), NEW c \in RanksOf(w)
  PROVE  Held(w, r, c, 0) = <<r>>
<1>1. Age(w, r, c) \in 1 .. w /\ (c + Age(w, r, c)) % w = r
  BY AgeProperties
<1>2. ~(0 > w + Age(w, r, c) - 2)
  BY <1>1
<1>3. CASE 0 > Age(w, r, c) - 2
  <2>1. Age(w, r, c) = 1
    BY <1>1, <1>3
  <2> QED
    BY <1>1, <1>2, <1>3, <2>1, PartialOne DEF Held
<1>4. CASE ~(0 > Age(w, r, c) - 2)
  BY <1>2, <1>4 DEF Held
<1> QED
  BY <1>3, <1>4

LEMMA HeldAtLast ==
  ASSUME NEW w \in Nat, w >= 2, NEW r \in RanksOf(w), NEW c \in RanksOf(w)
  PROVE  Held(w, r, c, StepCount(w)) = Partial(w, c, w)
<1>1. Age(w, r, c) \in 1 .. w /\ StepCount(w) = 2 * w - 2
  BY AgeProperties DEF StepCount
<1>2. CASE Age(w, r, c) = w
  BY <1>1, <1>2 DEF Held
<1>3. CASE Age(w, r, c) # w
  <2>1. StepCount(w) > w + Age(w, r, c) - 2
    BY <1>1, <1>3
  <2> QED
    BY <2>1 DEF Held
<1> QED
  BY <1>2, <1>3

LEMMA HeldWhenSent ==
  ASSUME NEW w \in Nat, w >= 2, NEW r \in RanksOf(w), NEW k \in 0 .. StepCount(w) - 1,
         NEW c, c = SendChunk(w, r, k)
  PROVE  Held(w, r, c, k) = Partial(w, c, IF InReduceScatter(w, k) THEN k + 1 ELSE w)
<1>1. c \in RanksOf(w) /\ Age(w, r, c) \in 1 .. w /\ k \in Int /\ 0 <= k /\ k < 2 * w - 2
  BY SentChunk, AgeProperties DEF StepCount
<1>2. Age(w, r, c) = IF InReduceScatter(w, k) THEN k + 1
                     ELSE IF k = w - 1 THEN w ELSE k - w + 1
  BY SentChunk
<1>3. InReduceScatter(w, k) <=> k < w - 1
  BY DEF InReduceScatter
<1>4. CASE k < w - 1
  <2>1. Age(w, r, c) = k + 1 /\ ~(k > w + Age(w, r, c) - 2) /\ k > Age(w, r, c) - 2
    BY <1>1, <1>2, <1>3, <1>4
  <2> QED
    BY <1>3, <1>4, <2>1 DEF Held
<1>5. CASE k = w - 1
  <2>1. Age(w, r, c) = w /\ ~(k > w + Age(w, r, c) - 2) /\ k > Age(w, r, c) - 2
    BY <1>1, <1>2, <1>3, <1>5
  <2> QED
    BY <1>1, <1>3, <1>5, <2>1 DEF Held
<1>6. CASE k > w - 1
  <2>1. k > w + Age(w, r, c) - 2
    BY <1>1, <1>2, <1>3, <1>6
  <2> QED
    BY <1>1, <1>3, <1>6, <2>1 DEF Held
<1> QED
  BY <1>1, <1>4, <1>5, <1>6

LEMMA HeldAfter ==
  ASSUME NEW w \in Nat, w >= 2, NEW r \in RanksOf(w), NEW k \in 0 .. StepCount(w) - 1,
         NEW c \in RanksOf(w)
  PROVE  Held(w, r, c, k + 1) =
           IF c # ReceiveChunk(w, r, k) THEN Held(w, r, c, k)
           ELSE IF InReduceScatter(w, k) THEN Held(w, PrevRank(w, r), c, k) \o Held(w, r, c, k)
           ELSE Held(w, PrevRank(w, r), c, k)
<1> DEFINE x == ReceiveChunk(w, r, k)
           a == Age(w, r, c)
<1>1. /\ k \in Int /\ 0 <= k /\ k < 2 * w - 2 /\ a \in 1 .. w /\ (c + a) % w = r
      /\ Age(w, r, x) = a => x = c
      /\ PrevRank(w, r) \in RanksOf(w)
  <2>1. x \in RanksOf(w) /\ PrevRank(w, r) \in RanksOf(w)
    BY ReceivedChunk, Neighbours
  <2>2. a \in 1 .. w /\ (c + a) % w = r /\ (Age(w, r, x) = a => x = c)
    BY <2>1, AgeProperties
  <2>3. k \in Int /\ 0 <= k /\ k < 2 * w - 2
    BY DEF StepCount
  <2> QED
    BY <2>1, <2>2, <2>3
<1>2. Age(w, r, x) = IF InReduceScatter(w, k) THEN k + 2 ELSE k - w + 2
  BY ReceivedChunk
<1>3. InReduceScatter(w, k) <=> k < w - 1
  BY DEF InReduceScatter
<1>4. \A j : Held(w, r, c, j) = IF j > w + a - 2 THEN Partial(w, c, w)
                                ELSE IF j > a - 2 THEN Partial(w, c, a) ELSE <<r>>
  BY DEF Held
<1>5. c = x => Held(w, PrevRank(w, r), c, k)
                 = Partial(w, c, IF InReduceScatter(w, k) THEN k + 1 ELSE w)
  BY <1>1, ReceivedIsSent, HeldWhenSent
<1>6. c = x => a = Age(w, r, x)
  OBVIOUS
<1> HIDE DEF x, a
<1>7. CASE c # x
  <2>1. /\ k + 1 > a - 2 <=> k > a - 2
        /\ k + 1 > w + a - 2 <=> k > w + a - 2
    BY <1>1, <1>2, <1>3, <1>7
  <2> QED
    BY <1>4, <1>7, <2>1 DEF x
<1>8. CASE c = x /\ k < w - 1
  <2>1. a = k + 2
    BY <1>2, <1>3, <1>6, <1>8
  <2>2. Held(w, r, c, k) = <<r>>
    BY <1>1, <1>4, <1>8, <2>1
  <2>3. Held(w, r, c, k + 1) = Partial(w, c, k + 2)
    BY <1>1, <1>4, <1>8, <2>1
  <2>4. Partial(w, c, k + 1) \o <<r>> = Partial(w, c, k + 2)
    <3>1. k + 1 \in Nat /\ (k + 1) + 1 = k + 2 /\ c + (k + 1) + 1 = c + a
      BY <1>1, <2>1 DEF RanksOf
    <3>2. Partial(w, c, k + 1) \o <<(c + (k + 1) + 1) % w>> = Partial(w, c, (k + 1) + 1)
      BY <3>1, PartialGrows
    <3> QED
      BY <1>1, <3>1, <3>2
  <2> QED
    BY <1>3, <1>5, <1>8, <2>2, <2>3, <2>4 DEF x
<1>9. CASE c = x /\ k >= w - 1
  <2>1. a = k - w + 2
    BY <1>1, <1>2, <1>3, <1>6, <1>9
  <2>2. k + 1 > w + a - 2
    BY <1>1, <2>1
  <2>3. Held(w, r, c, k + 1) = Partial(w, c, w)
    BY <1>4, <2>2
  <2> QED
    BY <1>1, <1>3, <1>5, <1>9, <2>3 DEF x
<1> QED
  BY <1>1, <1>7, <1>8, <1>9

-----------------------------------------------------------------------------
(***************************************************************************)
(* The inductive invariant.  Between two steps of the plan every rank      *)
(* holds of each element what the plan has brought it of the element's     *)
(* chunk; the finished segments are sums, one after the other.             *)
(***************************************************************************)
OracleTyped ==
  /\ world \in Worlds /\ count \in ElementCounts
  /\ segment \in 1 .. Len(Cut(count)) + 1 /\ ordinal \in 0 .. StepCount(world)

HeldByAll(w, n, i, k) ==
  [r \in RanksOf(w) |->
     [e \in 0 .. Cut(n)[i].length - 1 |-> Held(w, r, ChunkAt(w, Cut(n)[i].length, e), k)]]

WorkspacesHold ==
  workspaces = IF segment > Len(Cut(count)) THEN [r \in RanksOf(world) |-> <<>>]
               ELSE HeldByAll(world, count, segment, ordinal)

SumOf(w, n, i, e) == Partial(w, ChunkAt(w, Cut(n)[i].length, e), w)

OutputsAreSums ==
  \A r \in RanksOf(world) :
    /\ outputs[r] \in Seq(Seq(Int)) /\ Len(outputs[r]) = Start(count, segment)
    /\ \A i \in 1 .. Len(Cut(count)) : i < segment =>
         \A e \in 0 .. Cut(count)[i].length - 1 :
           outputs[r][Start(count, i) + e + 1] = SumOf(world, count, i, e)

OracleInv == OracleTyped /\ WorkspacesHold /\ OutputsAreSums

LEMMA Sizes ==
  ASSUME OracleTyped
  PROVE  /\ world \in Nat /\ world >= 2 /\ count \in Nat \ {0}
         /\ Len(Cut(count)) \in Nat \ {0}
BY OracleAssumption, Cutting DEF OracleTyped

LEMMA InputsHeld ==
  ASSUME NEW w \in Nat, w >= 2, NEW n \in Nat \ {0}, NEW i \in 1 .. Len(Cut(n))
  PROVE  HeldByAll(w, n, i, 0) = [r \in RanksOf(w) |-> [e \in 0 .. Cut(n)[i].length - 1 |-> <<r>>]]
<1> DEFINE length == Cut(n)[i].length
<1>1. length \in Nat
  BY Cutting
<1>2. ASSUME NEW r \in RanksOf(w), NEW e \in 0 .. length - 1
      PROVE  Held(w, r, ChunkAt(w, length, e), 0) = <<r>>
  BY <1>1, OneChunkOfElement, HeldAtFirst
<1> QED
  BY <1>2 DEF HeldByAll

LEMMA OracleInit == Init => OracleInv
<1> SUFFICES ASSUME Init PROVE OracleInv
  OBVIOUS
<1>1. /\ world \in Nat /\ world >= 2 /\ count \in Nat \ {0}
      /\ Len(Cut(count)) \in Nat \ {0} /\ Start(count, 1) = 0
  BY OracleAssumption, Cutting DEF Init
<1>2. OracleTyped
  BY <1>1 DEF Init, OracleTyped, StepCount
<1>3. WorkspacesHold
  <2>1. workspaces = [r \in RanksOf(world) |-> [e \in 0 .. Cut(count)[1].length - 1 |-> <<r>>]]
    BY DEF Init, Inputs, Length, Segments, Cut
  <2>2. HeldByAll(world, count, 1, 0) = workspaces
    BY <1>1, <2>1, InputsHeld
  <2> QED
    BY <1>1, <2>2 DEF WorkspacesHold, Init
<1>4. OutputsAreSums
  <2>1. \A r \in RanksOf(world) : outputs[r] = <<>>
    BY DEF Init
  <2>2. <<>> \in Seq(Seq(Int)) /\ Len(<<>>) = 0 /\ segment = 1
    BY DEF Init
  <2>3. Start(count, segment) = 0 /\ \A i \in 1 .. Len(Cut(count)) : ~(i < segment)
    BY <1>1, <2>2
  <2> QED
    BY <2>1, <2>2, <2>3 DEF OutputsAreSums
<1> QED
  BY <1>2, <1>3, <1>4 DEF OracleInv

(***************************************************************************)
(* A step of the plan: every rank holds one more of the plan's steps.      *)
(***************************************************************************)
LEMMA DeliveredIsHeld ==
  ASSUME OracleInv, segment <= Len(Cut(count)), ordinal < StepCount(world)
  PROVE  [r \in RanksOf(world) |-> Delivered(r)] = HeldByAll(world, count, segment, ordinal + 1)
<1> DEFINE length == Cut(count)[segment].length
<1>1. /\ world \in Nat /\ world >= 2 /\ count \in Nat \ {0}
      /\ ordinal \in 0 .. StepCount(world) - 1 /\ segment \in 1 .. Len(Cut(count))
  BY Sizes DEF OracleInv, OracleTyped, StepCount
<1>2. length \in Nat /\ Length(segment) = length
  BY <1>1, Cutting DEF Length, Segments, Cut
<1>3. \A r \in RanksOf(world) :
        /\ workspaces[r] = [e \in 0 .. length - 1 |->
                              Held(world, r, ChunkAt(world, length, e), ordinal)]
        /\ DOMAIN workspaces[r] = 0 .. length - 1
        /\ \A e \in 0 .. length - 1 :
             workspaces[r][e] = Held(world, r, ChunkAt(world, length, e), ordinal)
  <2>1. workspaces = HeldByAll(world, count, segment, ordinal)
    BY <1>1 DEF OracleInv, WorkspacesHold
  <2> QED
    BY <2>1 DEF HeldByAll
<1> HIDE DEF length
<1>4. ASSUME NEW r \in RanksOf(world)
      PROVE  Delivered(r) = [e \in 0 .. length - 1 |->
                               Held(world, r, ChunkAt(world, length, e), ordinal + 1)]
  <2> DEFINE source == PrevRank(world, r)
             chunk  == ReceiveChunk(world, r, ordinal)
  <2>1. /\ source \in RanksOf(world) /\ chunk \in RanksOf(world)
        /\ SendChunk(world, source, ordinal) = chunk
    <3>1. source \in RanksOf(world)
      BY <1>1, Neighbours
    <3>2. chunk \in RanksOf(world)
      BY <1>1, ReceivedChunk
    <3>3. chunk = SendChunk(world, source, ordinal)
      BY <1>1, ReceivedIsSent
    <3> QED
      BY <3>1, <3>2, <3>3
  <2>2. ChunkOffset(length, world, chunk) - ChunkOffset(length, world, chunk) = 0
    <3>1. chunk \in Nat
      BY <1>1, <2>1 DEF RanksOf
    <3>2. ChunkOffset(length, world, chunk) \in Nat
      BY <1>1, <1>2, <3>1, Offsets
    <3> QED
      BY <3>2
  <2>3. Delivered(r) =
          [e \in 0 .. length - 1 |->
             IF e \notin ChunkElements(length, world, chunk) THEN workspaces[r][e]
             ELSE IF InReduceScatter(world, ordinal) THEN workspaces[source][e + 0] \o workspaces[r][e]
             ELSE workspaces[source][e + 0]]
    BY <1>2, <1>3, <2>1, <2>2 DEF Delivered
  <2>4. ASSUME NEW e \in 0 .. length - 1
        PROVE  (IF e \notin ChunkElements(length, world, chunk) THEN workspaces[r][e]
                ELSE IF InReduceScatter(world, ordinal) THEN workspaces[source][e + 0] \o workspaces[r][e]
                ELSE workspaces[source][e + 0])
                 = Held(world, r, ChunkAt(world, length, e), ordinal + 1)
    <3> DEFINE c == ChunkAt(world, length, e)
    <3>1. c \in RanksOf(world) /\ (e \in ChunkElements(length, world, chunk) <=> chunk = c)
      BY <1>1, <1>2, <2>1, OneChunkOfElement
    <3>2. e + 0 = e
      OBVIOUS
    <3>3. /\ workspaces[r][e] = Held(world, r, c, ordinal)
          /\ workspaces[source][e] = Held(world, source, c, ordinal)
      BY <1>3, <2>1
    <3>4. Held(world, r, c, ordinal + 1) =
            IF c # chunk THEN Held(world, r, c, ordinal)
            ELSE IF InReduceScatter(world, ordinal)
                 THEN Held(world, source, c, ordinal) \o Held(world, r, c, ordinal)
            ELSE Held(world, source, c, ordinal)
      BY <1>1, <3>1, HeldAfter
    <3> HIDE DEF c, chunk, source
    <3> QED
      BY <3>1, <3>2, <3>3, <3>4 DEF c
  <2> QED
    BY <2>3, <2>4
<1> QED
  BY <1>4 DEF HeldByAll, length

\* A finished segment: its values follow the outputs of the earlier ones.
LEMMA FinishedOutputs ==
  ASSUME OracleInv, segment <= Len(Cut(count)), ordinal = StepCount(world),
         NEW r \in RanksOf(world),
         NEW new, new = outputs[r] \o [i \in 1 .. Length(segment) |-> workspaces[r][i - 1]]
  PROVE  /\ new \in Seq(Seq(Int)) /\ Len(new) = Start(count, segment + 1)
         /\ \A i \in 1 .. Len(Cut(count)) : i < segment + 1 =>
              \A e \in 0 .. Cut(count)[i].length - 1 :
                new[Start(count, i) + e + 1] = SumOf(world, count, i, e)
<1> DEFINE length == Cut(count)[segment].length
           piece == [i \in 1 .. Length(segment) |-> workspaces[r][i - 1]]
           old == outputs[r]
<1>1. /\ world \in Nat /\ world >= 2 /\ count \in Nat \ {0}
      /\ Len(Cut(count)) \in Nat /\ segment \in 1 .. Len(Cut(count))
  BY Sizes DEF OracleInv, OracleTyped
<1>2. /\ length \in Nat /\ Start(count, segment) \in Nat /\ Length(segment) = length
      /\ Start(count, segment + 1) = Start(count, segment) + length
  BY <1>1, Cutting DEF Length, Segments, Cut
<1>3. ASSUME NEW e \in 0 .. length - 1
      PROVE  workspaces[r][e] = SumOf(world, count, segment, e) /\ workspaces[r][e] \in Seq(Int)
  <2>1. workspaces[r][e] = Held(world, r, ChunkAt(world, length, e), StepCount(world))
    BY <1>1 DEF OracleInv, WorkspacesHold, HeldByAll
  <2>2. ChunkAt(world, length, e) \in RanksOf(world)
    BY <1>1, <1>2, OneChunkOfElement
  <2>3. workspaces[r][e] = Partial(world, ChunkAt(world, length, e), world)
    BY <1>1, <2>1, <2>2, HeldAtLast
  <2> QED
    BY <1>1, <2>2, <2>3, PartialTyped DEF SumOf
<1> HIDE DEF length
<1>4. /\ piece \in Seq(Seq(Int)) /\ Len(piece) = length
      /\ \A i \in 1 .. length : piece[i] = SumOf(world, count, segment, i - 1)
  <2>1. \A i \in 1 .. length : i - 1 \in 0 .. length - 1
    BY <1>2
  <2> QED
    BY <1>2, <1>3, <2>1
<1>5. old \in Seq(Seq(Int)) /\ Len(old) = Start(count, segment)
  BY DEF OracleInv, OutputsAreSums
<1>6. \A i \in 1 .. Len(Cut(count)) : i < segment =>
        \A e \in 0 .. Cut(count)[i].length - 1 :
          old[Start(count, i) + e + 1] = SumOf(world, count, i, e)
  BY DEF OracleInv, OutputsAreSums
<1> HIDE DEF piece, old
<1>7. /\ new \in Seq(Seq(Int)) /\ Len(new) = Len(old) + length
      /\ \A i \in 1 .. Len(old) : new[i] = old[i]
      /\ \A i \in 1 .. length : new[Len(old) + i] = piece[i]
  <2>1. new = old \o piece
    BY DEF old, piece
  <2>2. /\ old \o piece \in Seq(Seq(Int)) /\ Len(old \o piece) = Len(old) + Len(piece)
        /\ \A i \in 1 .. Len(old) + Len(piece) :
             (old \o piece)[i] = IF i <= Len(old) THEN old[i] ELSE piece[i - Len(old)]
    BY <1>4, <1>5, ConcatProperties
  <2>3. Len(old) \in Nat /\ Len(piece) = length /\ length \in Nat
    BY <1>2, <1>4, <1>5
  <2>4. new \in Seq(Seq(Int)) /\ Len(new) = Len(old) + length
    BY <2>1, <2>2, <2>3
  <2>5. ASSUME NEW i \in 1 .. Len(old)
        PROVE  new[i] = old[i]
    <3>1. i \in 1 .. Len(old) + Len(piece) /\ i <= Len(old)
      BY <2>3
    <3> QED
      BY <2>1, <2>2, <3>1
  <2>6. ASSUME NEW i \in 1 .. length
        PROVE  new[Len(old) + i] = piece[i]
    <3>1. /\ Len(old) + i \in 1 .. Len(old) + Len(piece) /\ ~(Len(old) + i <= Len(old))
          /\ (Len(old) + i) - Len(old) = i
      BY <2>3
    <3>2. new[Len(old) + i] = piece[(Len(old) + i) - Len(old)]
      BY <2>1, <2>2, <3>1
    <3> QED
      BY <3>1, <3>2
  <2> QED
    BY <2>4, <2>5, <2>6
<1>8. ASSUME NEW i \in 1 .. Len(Cut(count)), i < segment,
             NEW e \in 0 .. Cut(count)[i].length - 1
      PROVE  new[Start(count, i) + e + 1] = SumOf(world, count, i, e)
  <2>1. /\ Start(count, i) \in Nat /\ Cut(count)[i].length \in Nat
        /\ Start(count, i + 1) = Start(count, i) + Cut(count)[i].length
    BY <1>1, Cutting
  <2>2. Start(count, i + 1) <= Start(count, segment)
    <3>1. i + 1 \in 1 .. Len(Cut(count)) /\ i + 1 <= segment
      BY <1>1, <1>8
    <3> QED
      BY <1>1, <3>1, Cutting
  <2>3. Start(count, i) + e + 1 \in 1 .. Len(old)
    <3> DEFINE s == Start(count, i)
               l == Cut(count)[i].length
               b == Len(old)
    <3>1. s \in Nat /\ l \in Nat /\ e \in 0 .. l - 1 /\ b \in Nat /\ s + l <= b
      BY <1>2, <1>5, <1>8, <2>1, <2>2
    <3> HIDE DEF s, l, b
    <3>2. s + e + 1 \in 1 .. b
      BY <3>1
    <3> QED
      BY <3>2 DEF s, b
  <2> QED
    BY <1>6, <1>7, <1>8, <2>3
<1>9. ASSUME NEW e \in 0 .. length - 1
      PROVE  new[Start(count, segment) + e + 1] = SumOf(world, count, segment, e)
  <2>1. /\ e + 1 \in 1 .. length /\ (e + 1) - 1 = e
        /\ Len(old) + (e + 1) = Start(count, segment) + e + 1
    BY <1>2, <1>5
  <2>2. new[Len(old) + (e + 1)] = piece[e + 1]
    BY <1>7, <2>1
  <2>3. piece[e + 1] = SumOf(world, count, segment, (e + 1) - 1)
    BY <1>4, <2>1
  <2> QED
    BY <2>1, <2>2, <2>3
<1>10. \A i \in 1 .. Len(Cut(count)) : i < segment + 1 => i < segment \/ i = segment
  BY <1>1
<1> QED
  BY <1>2, <1>5, <1>7, <1>8, <1>9, <1>10 DEF length

LEMMA OracleNext == OracleInv /\ [Next]_vars => OracleInv'
<1> SUFFICES ASSUME OracleInv, [Next]_vars PROVE OracleInv'
  OBVIOUS
<1>1. /\ world \in Nat /\ world >= 2 /\ count \in Nat \ {0} /\ Len(Cut(count)) \in Nat
      /\ segment \in 1 .. Len(Cut(count)) + 1 /\ ordinal \in 0 .. StepCount(world)
      /\ StepCount(world) \in Nat /\ Segments = Cut(count)
  BY Sizes DEF OracleInv, OracleTyped, StepCount, Segments, Cut
<1>2. CASE ExecuteStep
  <2>1. /\ segment <= Len(Cut(count)) /\ ordinal < StepCount(world) /\ ordinal' = ordinal + 1
        /\ UNCHANGED <<world, count, segment, outputs>>
        /\ workspaces' = [r \in RanksOf(world) |-> Delivered(r)]
    BY <1>1, <1>2 DEF ExecuteStep
  <2>2. workspaces' = HeldByAll(world, count, segment, ordinal + 1)
    BY <2>1, DeliveredIsHeld
  <2>3. OracleTyped'
    BY <1>1, <2>1 DEF OracleInv, OracleTyped
  <2>4. WorkspacesHold'
    BY <1>1, <2>1, <2>2 DEF WorkspacesHold
  <2>5. OutputsAreSums'
    BY <2>1 DEF OracleInv, OutputsAreSums
  <2> QED
    BY <2>3, <2>4, <2>5 DEF OracleInv
<1>3. CASE FinishSegment
  <2>1. /\ segment <= Len(Cut(count)) /\ ordinal = StepCount(world)
        /\ segment' = segment + 1 /\ ordinal' = 0 /\ UNCHANGED <<world, count>>
        /\ outputs' = [r \in RanksOf(world) |->
                         outputs[r] \o [i \in 1 .. Length(segment) |-> workspaces[r][i - 1]]]
        /\ workspaces' = IF segment = Len(Cut(count)) THEN [r \in RanksOf(world) |-> <<>>]
                         ELSE Inputs(segment + 1)
    BY <1>1, <1>3 DEF FinishSegment
  <2>2. OracleTyped'
    BY <1>1, <2>1 DEF OracleInv, OracleTyped
  <2>3. WorkspacesHold'
    <3>1. CASE segment = Len(Cut(count))
      BY <1>1, <2>1, <3>1 DEF WorkspacesHold
    <3>2. CASE segment # Len(Cut(count))
      <4>1. segment + 1 \in 1 .. Len(Cut(count)) /\ ~(segment + 1 > Len(Cut(count)))
        BY <1>1, <2>1, <3>2
      <4>2. Inputs(segment + 1) = [r \in RanksOf(world) |->
                                     [e \in 0 .. Cut(count)[segment + 1].length - 1 |-> <<r>>]]
        BY <1>1 DEF Inputs, Length
      <4>3. HeldByAll(world, count, segment + 1, 0) = Inputs(segment + 1)
        BY <1>1, <4>1, <4>2, InputsHeld
      <4> QED
        BY <2>1, <3>2, <4>1, <4>3 DEF WorkspacesHold
    <3> QED
      BY <3>1, <3>2
  <2>4. OutputsAreSums'
    <3> SUFFICES ASSUME NEW r \in RanksOf(world)
                 PROVE  /\ outputs'[r] \in Seq(Seq(Int))
                        /\ Len(outputs'[r]) = Start(count, segment + 1)
                        /\ \A i \in 1 .. Len(Cut(count)) : i < segment + 1 =>
                             \A e \in 0 .. Cut(count)[i].length - 1 :
                               outputs'[r][Start(count, i) + e + 1] = SumOf(world, count, i, e)
      BY <2>1 DEF OutputsAreSums
    <3>1. outputs'[r] = outputs[r] \o [i \in 1 .. Length(segment) |-> workspaces[r][i - 1]]
      BY <2>1
    <3> QED
      BY <2>1, <3>1, FinishedOutputs
  <2> QED
    BY <2>2, <2>3, <2>4 DEF OracleInv
<1>4. CASE UNCHANGED vars
  BY <1>4 DEF OracleInv, OracleTyped, WorkspacesHold, OutputsAreSums, vars
<1> QED
  BY <1>2, <1>3, <1>4 DEF Next, Done

THEOREM OracleInvariant == Spec => []OracleInv
<1> QED
  BY OracleInit, OracleNext, PTL DEF Spec

-----------------------------------------------------------------------------
(***************************************************************************)
(* The theorems.                                                           *)
(***************************************************************************)
\* The oracle's outputs are, element by element, the sum of every rank once,
\* in the ring order of the element's chunk, on every rank (ring_oracle).
THEOREM OracleIsRingSum == Spec => []OracleSumsEveryRankOnce
<1>1. OracleInv => OracleSumsEveryRankOnce
  <2> SUFFICES ASSUME OracleInv, segment > Len(Segments), NEW r \in RanksOf(world)
               PROVE  /\ Len(outputs[r]) = count
                      /\ \A i \in 1 .. Len(Segments) : \A e \in 0 .. Length(i) - 1 :
                           outputs[r][Segments[i].offset + e + 1]
                             = RingOrder(ChunkOf(Length(i), e))
    BY DEF OracleSumsEveryRankOnce
  <2>1. /\ Segments = Cut(count) /\ count \in Nat \ {0} /\ Len(Cut(count)) \in Nat
        /\ segment = Len(Cut(count)) + 1
    BY Sizes DEF OracleInv, OracleTyped, Segments, Cut
  <2>2. Len(outputs[r]) = count
    <3>1. Len(outputs[r]) = Start(count, segment)
      BY DEF OracleInv, OutputsAreSums
    <3>2. Start(count, Len(Cut(count)) + 1) = count
      BY <2>1, Cutting
    <3> QED
      BY <2>1, <3>1, <3>2
  <2>3. ASSUME NEW i \in 1 .. Len(Cut(count)), NEW e \in 0 .. Cut(count)[i].length - 1
        PROVE  outputs[r][Cut(count)[i].offset + e + 1]
                 = RingOrder(ChunkOf(Cut(count)[i].length, e))
    <3>1. i < segment /\ Cut(count)[i].offset = Start(count, i)
      <4>1. i < segment
        BY <2>1
      <4>2. Cut(count)[i].offset = Start(count, i)
        BY <2>1, Cutting
      <4> QED
        BY <4>1, <4>2
    <3>2. outputs[r][Start(count, i) + e + 1] = SumOf(world, count, i, e)
      BY <3>1 DEF OracleInv, OutputsAreSums
    <3>3. SumOf(world, count, i, e) = RingOrder(ChunkOf(Cut(count)[i].length, e))
      BY DEF SumOf, RingOrder, ChunkOf, ChunkAt, Partial
    <3> QED
      BY <3>1, <3>2, <3>3
  <2> QED
    BY <2>1, <2>2, <2>3 DEF Length
<1> QED
  BY <1>1, OracleInvariant, PTL

\* No partial sum ever counts a rank twice.
THEOREM OracleCountsOnce == Spec => []NoContributionTwice
<1>1. OracleInv => NoContributionTwice
  <2> SUFFICES ASSUME OracleInv, NEW r \in RanksOf(world), NEW e \in DOMAIN workspaces[r],
                      NEW i \in DOMAIN workspaces[r][e], NEW j \in DOMAIN workspaces[r][e],
                      workspaces[r][e][i] = workspaces[r][e][j]
               PROVE  i = j
    BY DEF NoContributionTwice
  <2>1. /\ world \in Nat /\ world >= 2 /\ count \in Nat \ {0} /\ Len(Cut(count)) \in Nat
        /\ segment \in 1 .. Len(Cut(count)) + 1 /\ ordinal \in 0 .. StepCount(world)
    BY Sizes DEF OracleInv, OracleTyped
  <2>2. CASE segment > Len(Cut(count))
    <3>1. workspaces[r] = <<>>
      BY <2>2 DEF OracleInv, WorkspacesHold
    <3> QED
      BY <3>1
  <2>3. CASE ~(segment > Len(Cut(count)))
    <3> DEFINE length == Cut(count)[segment].length
               c == ChunkAt(world, length, e)
               a == Age(world, r, c)
    <3>1. workspaces = HeldByAll(world, count, segment, ordinal)
      BY <2>3 DEF OracleInv, WorkspacesHold
    <3>2. e \in 0 .. length - 1 /\ workspaces[r][e] = Held(world, r, c, ordinal)
      BY <3>1 DEF HeldByAll
    <3>3. length \in Nat
      <4>1. segment \in 1 .. Len(Cut(count))
        BY <2>1, <2>3
      <4> QED
        BY <2>1, <4>1, Cutting
    <3>4. c \in RanksOf(world) /\ a \in 1 .. world
      <4>1. c \in RanksOf(world)
        BY <2>1, <3>2, <3>3, OneChunkOfElement
      <4> QED
        BY <2>1, <4>1, AgeProperties
    <3> HIDE DEF c
    <3>5. ASSUME NEW n \in 1 .. world, workspaces[r][e] = Partial(world, c, n)
          PROVE  i = j
      <4>1. /\ i \in 1 .. n /\ j \in 1 .. n
            /\ (c + i) % world = (c + j) % world
        BY <3>5 DEF Partial
      <4>2. i \in 1 .. world /\ j \in 1 .. world
        BY <2>1, <4>1
      <4> QED
        BY <2>1, <3>4, <4>1, <4>2, NoneTwice
    <3>6. CASE workspaces[r][e] = <<r>>
      BY <3>6
    <3>7. workspaces[r][e] \in {<<r>>, Partial(world, c, world), Partial(world, c, a)}
      BY <3>2 DEF Held
    <3>8. world \in 1 .. world
      BY <2>1
    <3> QED
      BY <3>4, <3>5, <3>6, <3>7, <3>8
  <2> QED
    BY <2>2, <2>3
<1> QED
  BY <1>1, OracleInvariant, PTL

\* At every step, what a rank sends is, to the element, what its successor
\* expects to receive ("planner peer symmetry mismatch", "oracle planner
\* peer delivery mismatch").
THEOREM PeersAgree == Spec => []PlannerPeerSymmetry
<1>1. OracleInv => PlannerPeerSymmetry
  <2> SUFFICES ASSUME OracleInv, NEW r \in RanksOf(world), NEW k \in 0 .. StepCount(world) - 1
               PROVE  /\ PrevRank(world, NextRank(world, r)) = r
                      /\ SendChunk(world, r, k) = ReceiveChunk(world, NextRank(world, r), k)
    BY DEF PlannerPeerSymmetry
  <2>1. world \in Nat /\ world >= 2
    BY Sizes DEF OracleInv
  <2>2. PrevRank(world, NextRank(world, r)) = r /\ NextRank(world, r) \in RanksOf(world)
    BY <2>1, Neighbours
  <2> QED
    BY <2>1, <2>2, ReceivedIsSent
<1> QED
  BY <1>1, OracleInvariant, PTL
=============================================================================
