------------------------- MODULE MegatronLoaderProofs -------------------------
(***************************************************************************)
(* Proofs about MegatronLoader, for any number of ranks, nodes, samples    *)
(* and batch size that the loader accepts (SizesOK).                       *)
(*                                                                         *)
(* The index cache: each store has one rank that writes it, the last file  *)
(* is opened when the others are whole, and nobody else loads before the   *)
(* writer is past the barrier.  The sampling: what a rank was handed is a  *)
(* function of the number of the batch alone, so it is the same for the    *)
(* job that was interrupted and for the one that continues it.             *)
(***************************************************************************)
EXTENDS MegatronLoader, TLAPS, FiniteSetTheorems, SequenceTheorems, WellFoundedInduction

-------------------------------------------------------------------------------
(* Arithmetic.                                                             *)

LEMMA Quotients ==
  ASSUME NEW a \in Nat, NEW b \in Nat \ {0}
  PROVE  /\ a \div b \in Nat /\ a % b \in 0 .. b - 1
         /\ a = b * (a \div b) + (a % b)
OBVIOUS

LEMMA QuotientIs ==
  ASSUME NEW q \in Nat, NEW b \in Nat \ {0}
  PROVE  (q * b) \div b = q
OBVIOUS

LEMMA RemainderIs ==
  ASSUME NEW q \in Nat, NEW b \in Nat \ {0}, NEW r \in 0 .. b - 1
  PROVE  (b * q + r) % b = r
<1> DEFINE a == b * q + r
           d == a \div b
           e == a % b
<1>1. a \in Nat
  OBVIOUS
<1>2. d \in Nat /\ e \in 0 .. b - 1 /\ a = b * d + e
  BY <1>1, Quotients
<1> HIDE DEF d, e
<1>3. b * q + r = b * d + e
  BY <1>2
<1>4. ~(q < d) /\ ~(d < q)
  <2>1. ASSUME NEW x \in Nat, NEW y \in Nat, x < y
        PROVE  b * x + b <= b * y
    <3>1. PICK k \in Nat : y = x + 1 + k
      BY <2>1
    <3>2. b * y = b * x + b + b * k /\ b * k >= 0
      BY <3>1
    <3> QED
      BY <3>2
  <2>2. b * q \in Nat /\ b * d \in Nat
    BY <1>2
  <2> QED
    BY <1>2, <1>3, <2>1, <2>2
<1>5. d = q
  BY <1>2, <1>4
<1>6. e = r
  BY <1>2, <1>3, <1>5
<1> QED
  BY <1>6 DEF e

LEMMA ProductsApart ==
  ASSUME NEW a \in Nat, NEW b \in Nat, NEW s \in Nat, a < b
  PROVE  a * s + s <= b * s
<1>1. PICK k \in Nat : b = a + 1 + k
  OBVIOUS
<1>2. b * s = a * s + s + k * s
  BY <1>1
<1>3. k * s >= 0
  OBVIOUS
<1> QED
  BY <1>2, <1>3

LEMMA FactorLess ==
  ASSUME NEW q \in Nat, NEW n \in Nat, NEW s \in Nat, q * s < n * s
  PROVE  q < n
OBVIOUS

(* The remainder counts up and wraps.                                      *)
LEMMA NextRemainder ==
  ASSUME NEW n \in Nat, NEW p \in Nat \ {0}
  PROVE  (n + 1) % p = IF (n % p) + 1 = p THEN 0 ELSE (n % p) + 1
<1>1. n = p * (n \div p) + (n % p) /\ n \div p \in Nat /\ n % p \in 0 .. p - 1
  BY Quotients
<1>2. CASE (n % p) + 1 = p
  <2>1. n + 1 = p * ((n \div p) + 1) + 0
    BY <1>1, <1>2
  <2>2. (p * ((n \div p) + 1) + 0) % p = 0
    BY <1>1, RemainderIs
  <2> QED
    BY <1>2, <2>1, <2>2
<1>3. CASE (n % p) + 1 # p
  <2>1. n + 1 = p * (n \div p) + ((n % p) + 1)
    BY <1>1
  <2>2. n \div p \in Nat /\ (n % p) + 1 \in 0 .. p - 1
    BY <1>1, <1>3
  <2>3. (p * (n \div p) + ((n % p) + 1)) % p = (n % p) + 1
    BY <2>2, RemainderIs
  <2> QED
    BY <1>3, <2>1, <2>3
<1> QED
  BY <1>2, <1>3

-------------------------------------------------------------------------------
(* The first sample of the batch that follows n others.                    *)
StartOf(n) == (n % StepsPerEpoch) * GlobalBatch

LEMMA Sizes ==
  ASSUME SizesOK
  PROVE  /\ World \in Nat \ {0} /\ GpusPerNode \in Nat \ {0} /\ MicroBatch \in Nat \ {0}
         /\ Samples \in Nat /\ Ahead \in Nat /\ MaxSteps \in Nat /\ MaxCrashes \in Nat
         /\ GlobalBatch \in Nat \ {0}
         /\ StepsPerEpoch \in Nat \ {0}
         /\ Usable = StepsPerEpoch * GlobalBatch
         /\ Usable \in Nat /\ Usable <= Samples
         /\ Ranks # {} /\ 0 \in Ranks
<1>1. /\ World \in Nat \ {0} /\ GpusPerNode \in Nat \ {0} /\ MicroBatch \in Nat \ {0}
      /\ Samples \in Nat /\ Ahead \in Nat /\ MaxSteps \in Nat /\ MaxCrashes \in Nat
      /\ GlobalBatch <= Samples
  BY DEF SizesOK
<1>2. GlobalBatch \in Nat \ {0}
  <2>1. PICK k \in Nat : World = k + 1
    BY <1>1
  <2>2. MicroBatch * World = MicroBatch * k + MicroBatch /\ MicroBatch * k \in Nat
    BY <1>1, <2>1
  <2> QED
    BY <1>1, <2>2 DEF GlobalBatch
<1> DEFINE g == GlobalBatch
           q == Samples \div g
<1>3. q \in Nat /\ Samples = g * q + (Samples % g) /\ Samples % g \in 0 .. g - 1
  BY <1>1, <1>2, Quotients
<1> HIDE DEF g, q
<1>4. q # 0
  <2>1. q = 0 => g * q = 0
    BY <1>2 DEF g
  <2> QED
    BY <1>1, <1>2, <1>3, <2>1 DEF g
<1>5. Usable = q * g /\ StepsPerEpoch = q
  <2>1. Usable = q * g
    BY DEF Usable, g, q
  <2>2. (q * g) \div g = q
    BY <1>2, <1>3, QuotientIs DEF g
  <2> QED
    BY <2>1, <2>2 DEF StepsPerEpoch, g
<1>6. q * g \in Nat /\ q * g <= Samples
  BY <1>1, <1>2, <1>3 DEF g
<1>7. 0 \in Ranks
  BY <1>1 DEF Ranks
<1> QED
  BY <1>1, <1>2, <1>3, <1>4, <1>5, <1>6, <1>7 DEF g

(* A whole global batch that fits in the samples fits in the usable ones.  *)
LEMMA WholeBatchFits ==
  ASSUME SizesOK, NEW m \in Nat, m * GlobalBatch + GlobalBatch <= Samples
  PROVE  m < StepsPerEpoch /\ m * GlobalBatch + GlobalBatch <= Usable
<1> DEFINE g == GlobalBatch
           q == Samples \div g
<1>1. g \in Nat \ {0} /\ Samples \in Nat /\ Usable = StepsPerEpoch * g
      /\ StepsPerEpoch \in Nat
  BY Sizes
<1>2. q \in Nat /\ Samples = g * q + (Samples % g) /\ Samples % g \in 0 .. g - 1
  BY <1>1, Quotients
<1>3. StepsPerEpoch = q
  BY <1>1, <1>2, QuotientIs DEF StepsPerEpoch, Usable
<1> HIDE DEF g, q
<1>4. m * g + g <= Samples
  BY DEF g
<1>5. m * g < (q + 1) * g - g + g
  BY <1>1, <1>2, <1>4
<1>6. m < q
  <2>1. m * g < q * g
    <3>1. q * g = g * q /\ q * g \in Nat /\ m * g \in Nat
      BY <1>1, <1>2
    <3> QED
      BY <1>1, <1>2, <1>4, <3>1
  <2> QED
    BY <1>1, <1>2, <2>1, FactorLess
<1>7. m * g + g <= q * g
  BY <1>1, <1>2, <1>6, ProductsApart
<1> QED
  BY <1>1, <1>3, <1>6, <1>7 DEF g

(* A count after n batches: the end of an epoch counts as its end or as the *)
(* beginning of the next.                                                  *)
AtStep(c, n) == c = StartOf(n) \/ (c = Usable /\ n % StepsPerEpoch = 0)

LEMMA StartType ==
  ASSUME SizesOK, NEW n \in Nat
  PROVE  /\ n % StepsPerEpoch \in 0 .. StepsPerEpoch - 1
         /\ StartOf(n) \in Nat
         /\ StartOf(n) + GlobalBatch <= Usable
<1>1. StepsPerEpoch \in Nat \ {0} /\ GlobalBatch \in Nat /\ Usable = StepsPerEpoch * GlobalBatch
  BY Sizes
<1>2. n % StepsPerEpoch \in 0 .. StepsPerEpoch - 1
  BY <1>1, Quotients
<1>3. (n % StepsPerEpoch) * GlobalBatch + GlobalBatch <= StepsPerEpoch * GlobalBatch
  BY <1>1, <1>2, ProductsApart
<1>4. (n % StepsPerEpoch) * GlobalBatch \in Nat
  BY <1>1, <1>2
<1> QED
  BY <1>1, <1>2, <1>3, <1>4 DEF StartOf

LEMMA StepCount ==
  ASSUME SizesOK, NEW n \in Nat, NEW c, AtStep(c, n)
  PROVE  \E m \in 0 .. StepsPerEpoch : c = m * GlobalBatch
<1>1. StepsPerEpoch \in Nat \ {0} /\ GlobalBatch \in Nat /\ Usable = StepsPerEpoch * GlobalBatch
  BY Sizes
<1>2. n % StepsPerEpoch \in 0 .. StepsPerEpoch
  BY <1>1, StartType
<1> QED
  BY <1>1, <1>2 DEF AtStep, StartOf

LEMMA StepCountType ==
  ASSUME SizesOK, NEW n \in Nat, NEW c, AtStep(c, n)
  PROVE  c \in 0 .. Usable
<1>1. StartOf(n) \in Nat /\ StartOf(n) + GlobalBatch <= Usable
  BY StartType
<1>2. Usable \in Nat /\ GlobalBatch \in Nat
  BY Sizes
<1> QED
  BY <1>1, <1>2 DEF AtStep

(* One more batch is the batch that is due, and the count stays in step.   *)
LEMMA NextStep ==
  ASSUME SizesOK, NEW n \in Nat, NEW c, AtStep(c, n), c + GlobalBatch <= Usable
  PROVE  c = StartOf(n) /\ AtStep(c + GlobalBatch, n + 1)
<1>1. /\ StepsPerEpoch \in Nat \ {0} /\ GlobalBatch \in Nat \ {0}
      /\ Usable = StepsPerEpoch * GlobalBatch /\ Usable \in Nat
  BY Sizes
<1>2. c = StartOf(n)
  BY <1>1 DEF AtStep
<1> DEFINE m == n % StepsPerEpoch
<1>3. m \in 0 .. StepsPerEpoch - 1
  BY StartType
<1>4. (n + 1) % StepsPerEpoch = IF m + 1 = StepsPerEpoch THEN 0 ELSE m + 1
  BY <1>1, NextRemainder
<1>5. c = m * GlobalBatch
  BY <1>2 DEF StartOf
<1> HIDE DEF m
<1>6. c + GlobalBatch = (m + 1) * GlobalBatch
  BY <1>1, <1>3, <1>5
<1> QED
  BY <1>1, <1>2, <1>3, <1>4, <1>6 DEF AtStep, StartOf

(* The sampler stops at the end of the usable samples only.                *)
LEMMA EpochEnds ==
  ASSUME SizesOK, NEW n \in Nat, NEW c, AtStep(c, n), c + GlobalBatch > Samples
  PROVE  c = Usable /\ n % StepsPerEpoch = 0
<1>1. GlobalBatch \in Nat /\ Usable \in Nat /\ Samples \in Nat /\ Usable <= Samples
  BY Sizes
<1>2. StartOf(n) \in Nat /\ StartOf(n) + GlobalBatch <= Usable
  BY StartType
<1> QED
  BY <1>1, <1>2 DEF AtStep

LEMMA SliceIs ==
  ASSUME SizesOK, NEW r \in Ranks, NEW i \in Nat
  PROVE  /\ r * MicroBatch \in Nat
         /\ (r + 1) * MicroBatch = r * MicroBatch + MicroBatch
         /\ r * MicroBatch + MicroBatch <= GlobalBatch
         /\ Slice(r, i) = (i + r * MicroBatch) .. (i + r * MicroBatch + MicroBatch - 1)
<1>1. World \in Nat /\ MicroBatch \in Nat /\ r \in Nat /\ r < World
  BY Sizes DEF Ranks
<1>2. r * MicroBatch + MicroBatch <= World * MicroBatch
  BY <1>1, ProductsApart
<1>3. /\ World * MicroBatch = GlobalBatch
      /\ (r + 1) * MicroBatch = r * MicroBatch + MicroBatch
      /\ r * MicroBatch \in Nat
  BY <1>1 DEF GlobalBatch
<1> QED
  BY <1>1, <1>2, <1>3 DEF Slice

(* The slice of a rank lies in its global batch, which lies in the data.   *)
LEMMA SliceInside ==
  ASSUME SizesOK, NEW r \in Ranks, NEW i \in Nat, i + GlobalBatch <= Usable
  PROVE  /\ Slice(r, i) \subseteq 0 .. Usable - 1
         /\ Slice(r, i) \subseteq 0 .. Samples - 1
         /\ Cardinality(Slice(r, i)) = MicroBatch
<1>1. /\ GlobalBatch \in Nat /\ Usable \in Nat /\ Samples \in Nat /\ Usable <= Samples
      /\ MicroBatch \in Nat \ {0}
  BY Sizes
<1> DEFINE a == i + r * MicroBatch
           b == i + r * MicroBatch + MicroBatch - 1
<1>2. Slice(r, i) = a .. b
  BY SliceIs
<1>3. /\ a \in Nat /\ b \in Int /\ b - a + 1 = MicroBatch
      /\ b + 1 <= i + GlobalBatch
  <2>1. r * MicroBatch \in Nat /\ r * MicroBatch + MicroBatch <= GlobalBatch
    BY SliceIs
  <2> QED
    BY <1>1, <2>1
<1> HIDE DEF a, b
<1>4. ~(a > b)
  BY <1>1, <1>3
<1>5. Cardinality(a .. b) = MicroBatch
  BY <1>3, <1>4, FS_Interval
<1> QED
  BY <1>1, <1>2, <1>3, <1>5

(* Slices of different ranks, or of different batches of an epoch, share   *)
(* no sample.                                                              *)
LEMMA SlicesDisjoint ==
  ASSUME SizesOK, NEW r \in Ranks, NEW q \in Ranks, NEW k \in Nat, NEW l \in Nat,
         k # l \/ r # q
  PROVE  Slice(r, k * GlobalBatch) \cap Slice(q, l * GlobalBatch) = {}
<1>1. GlobalBatch \in Nat /\ MicroBatch \in Nat /\ r \in Nat /\ q \in Nat
  BY Sizes DEF Ranks
<1>2. k * GlobalBatch \in Nat /\ l * GlobalBatch \in Nat
  BY <1>1
<1>3. /\ k < l => k * GlobalBatch + GlobalBatch <= l * GlobalBatch
      /\ l < k => l * GlobalBatch + GlobalBatch <= k * GlobalBatch
      /\ r < q => r * MicroBatch + MicroBatch <= q * MicroBatch
      /\ q < r => q * MicroBatch + MicroBatch <= r * MicroBatch
  BY <1>1, ProductsApart
<1> DEFINE a == k * GlobalBatch
           b == l * GlobalBatch
           x == r * MicroBatch
           y == q * MicroBatch
<1>4. /\ a \in Nat /\ b \in Nat /\ x \in Nat /\ y \in Nat
      /\ x + MicroBatch <= GlobalBatch /\ y + MicroBatch <= GlobalBatch
      /\ Slice(r, a) = (a + x) .. (a + x + MicroBatch - 1)
      /\ Slice(q, b) = (b + y) .. (b + y + MicroBatch - 1)
  BY <1>2, SliceIs
<1>5. \/ a + GlobalBatch <= b \/ b + GlobalBatch <= a
      \/ a = b /\ (x + MicroBatch <= y \/ y + MicroBatch <= x)
  BY <1>1, <1>3
<1> HIDE DEF a, b, x, y
<1>6. (a + x) .. (a + x + MicroBatch - 1) \cap (b + y) .. (b + y + MicroBatch - 1) = {}
  BY <1>1, <1>4, <1>5
<1>7. Slice(r, a) \cap Slice(q, b) = {}
  BY <1>4, <1>6
<1> QED
  BY <1>7 DEF a, b

-------------------------------------------------------------------------------
(* The index cache.                                                        *)

(* The one rank that may write the store of r.                             *)
WriterOf(r) == IF setup.nodeLocal THEN (r \div GpusPerNode) * GpusPerNode ELSE 0

LEMMA OneWriter ==
  ASSUME SizesOK, NEW r \in Ranks
  PROVE  /\ Store(r) \in Ranks
         /\ WriterOf(r) \in Ranks /\ CachingAllowed(WriterOf(r)) /\ Store(WriterOf(r)) = Store(r)
         /\ \A q \in Ranks : Store(q) = Store(r) => WriterOf(q) = WriterOf(r)
         /\ CachingAllowed(r) => WriterOf(r) = r
<1>1. World \in Nat \ {0} /\ GpusPerNode \in Nat \ {0} /\ r \in 0 .. World - 1
  BY Sizes DEF Ranks
<1>2. CASE ~setup.nodeLocal
  BY <1>1, <1>2 DEF Store, WriterOf, CachingAllowed, Ranks
<1>3. CASE setup.nodeLocal
  <2> DEFINE g == GpusPerNode
             d == r \div g
  <2>1. d \in Nat /\ r = g * d + (r % g) /\ r % g \in 0 .. g - 1
    <3>1. r \in Nat /\ g \in Nat \ {0}
      BY <1>1
    <3> QED
      BY <3>1, Quotients
  <2>2. (d * g) \div g = d
    BY <1>1, <2>1, QuotientIs
  <2>3. (d * g) % g = 0
    <3>1. (g * d + 0) % g = 0
      BY <1>1, <2>1, RemainderIs
    <3>2. d * g = g * d + 0
      BY <1>1, <2>1
    <3> QED
      BY <3>1, <3>2
  <2> HIDE DEF d
  <2>4. d * g \in Nat /\ d * g <= r /\ d <= r
    <3>1. PICK k \in Nat : g = k + 1
      BY <1>1
    <3>2. g * d = k * d + d /\ k * d \in Nat /\ d * g = g * d
      BY <2>1, <3>1
    <3> HIDE DEF g
    <3> QED
      BY <1>1, <2>1, <3>2
  <2>5. Store(r) = d /\ WriterOf(r) = d * g
    BY <1>3 DEF Store, WriterOf, d
  <2>6. d \in Ranks /\ d * g \in Ranks
    BY <1>1, <2>1, <2>4 DEF Ranks
  <2>7. CachingAllowed(d * g) /\ Store(d * g) = d
    BY <1>3, <2>2, <2>3 DEF CachingAllowed, Store
  <2>8. CachingAllowed(r) => d * g = r
    <3>1. CachingAllowed(r) => r % g = 0
      <4>1. r = 0 => r % g = 0
        BY <1>1
      <4> QED
        BY <1>3, <4>1 DEF CachingAllowed
    <3>2. r % g = 0 => r = d * g
      BY <1>1, <2>1
    <3> QED
      BY <3>1, <3>2
  <2>9. \A q \in Ranks : Store(q) = Store(r) => WriterOf(q) = WriterOf(r)
    BY <1>3 DEF Store, WriterOf
  <2> QED
    BY <2>5, <2>6, <2>7, <2>8, <2>9
<1> QED
  BY <1>2, <1>3

Writing == {"write", "writing"}
Loaded == {"built", "training", "asking", "ended"}

Whole(cache) == \A f \in Files : cache[f] = "whole"

(* The files are written in order; the last one is half-written while its  *)
(* writer writes it, or because an earlier job died there.                 *)
StoreInv(r) ==
  LET cache == files[Store(r)]
      writer == WriterOf(r)
  IN  /\ cache[4] # "absent" => \A f \in 1 .. 3 : cache[f] = "whole"
      /\ cache[4] = "torn" =>
           restarts > 0 \/ (pc[writer] = "writing" /\ written[writer] = 3)

(* A rank that writes has found a file missing, so there is no last file   *)
(* before it opens it.                                                     *)
WriterInv(r) ==
  LET cache == files[Store(r)]
  IN  /\ pc[r] = "start" => written[r] = 0
      /\ pc[r] \in Writing => /\ CachingAllowed(r)
                              /\ written[r] \in 0 .. 3
                              /\ \A f \in 1 .. written[r] : cache[f] = "whole"
      /\ pc[r] = "write" => cache[4] = "absent"
      /\ pc[r] = "writing" => /\ cache[written[r] + 1] = "torn"
                              /\ written[r] < 3 => cache[4] = "absent"
      /\ CachingAllowed(r) /\ pc[r] = "load" => cache[4] # "absent"
      /\ CachingAllowed(r) /\ pc[r] \in {"barrier"} \cup Loaded => Whole(cache)

(* A rank that does not write loads what its writer has left; it fails     *)
(* only on a last file that is torn, and a non-writer never does.          *)
ReaderInv(r) ==
  /\ pc[r] = "failed" => CachingAllowed(r) /\ files[Store(r)][4] = "torn"
  /\ ~CachingAllowed(r) /\ pc[r] \in {"load"} \cup Loaded => pc[WriterOf(r)] \in Loaded

CacheTypes ==
  /\ setup \in [nodeLocal : BOOLEAN, repeat : BOOLEAN]
  /\ files \in [Ranks -> [Files -> FileStates]]
  /\ pc \in [Ranks -> {"start", "write", "writing", "load", "failed", "barrier", "built",
                       "training", "asking", "ended"}]
  /\ written \in [Ranks -> 0 .. 4]
  /\ restarts \in 0 .. MaxCrashes

CacheInv ==
  /\ CacheTypes
  /\ \A r \in Ranks : StoreInv(r) /\ WriterInv(r) /\ ReaderInv(r)

-------------------------------------------------------------------------------
(* The batches.                                                            *)

BatchAt(r, n) == Slice(r, StartOf(n))

(* What a rank was handed depends on the number of the batch alone.        *)
HandedInv(r) ==
  /\ Len(handed[r]) <= MaxSteps
  /\ checkpoint.steps <= Len(handed[r])
  /\ \A i \in 1 .. Len(handed[r]) : handed[r][i] = BatchAt(r, i - 1)

(* The count a rank saves is that of the batches handed out, and what the  *)
(* workers hold follows it.                                                *)
CountInv(r) ==
  /\ AtStep(checkpoint.consumed[r], checkpoint.steps)
  /\ pc[r] \in {"training", "asking"} =>
       /\ AtStep(consumed[r], Len(handed[r]))
       /\ drawn[r] = consumed[r] + Len(fetched[r]) * GlobalBatch
       /\ \A k \in 1 .. Len(fetched[r]) :
            fetched[r][k] = Slice(r, consumed[r] + (k - 1) * GlobalBatch)
  /\ pc[r] = "asking" => Len(handed[r]) < MaxSteps
  /\ pc[r] \notin {"training", "asking", "ended"} =>
       Len(handed[r]) = checkpoint.steps /\ fetched[r] = << >>

Shortest(h) == Min({Len(h[r]) : r \in Ranks})

(* The first n global batches.                                             *)
FirstBatches(n) == [i \in 1 .. n |-> [r \in Ranks |-> BatchAt(r, i - 1)]]

(* The history is made of the same batches and is at least as long as what *)
(* every rank has been handed.                                             *)
HistoryInv ==
  /\ Len(history) \in Nat
  /\ history = FirstBatches(Len(history))
  /\ Shortest(handed) <= Len(history)

BatchTypes ==
  /\ consumed \in [Ranks -> 0 .. Usable]
  /\ drawn \in [Ranks -> 0 .. Usable]
  /\ fetched \in [Ranks -> Seq(SUBSET (0 .. Samples - 1))]
  /\ handed \in [Ranks -> Seq(SUBSET (0 .. Samples - 1))]
  /\ checkpoint \in [consumed : [Ranks -> 0 .. Usable], steps : 0 .. MaxSteps]

BatchInv ==
  /\ BatchTypes
  /\ \A r \in Ranks : HandedInv(r) /\ CountInv(r)

-------------------------------------------------------------------------------
(* The cache invariant holds.                                              *)

LEMMA CacheInit == ASSUME SizesOK, Init PROVE CacheInv
<1>1. \A r \in Ranks : Store(r) \in Ranks
  BY OneWriter
<1>2. MaxCrashes \in Nat
  BY Sizes
<1>3. CacheTypes
  BY <1>2 DEF Init, CacheTypes, FileStates
<1>4. ASSUME NEW r \in Ranks PROVE StoreInv(r) /\ WriterInv(r) /\ ReaderInv(r)
  <2>1. files[Store(r)][4] = "absent" /\ pc[r] = "start" /\ written[r] = 0
    BY <1>1 DEF Init, Files
  <2> QED
    BY <2>1 DEF StoreInv, WriterInv, ReaderInv, Writing, Loaded
<1> QED
  BY <1>3, <1>4 DEF CacheInv

(* The ranks and stores do not change.                                     *)
LEMMA SetupFixed ==
  ASSUME setup' = setup, NEW r \in Ranks
  PROVE  /\ CachingAllowed(r)' <=> CachingAllowed(r)
         /\ Store(r)' = Store(r) /\ WriterOf(r)' = WriterOf(r)
BY DEF CachingAllowed, Store, WriterOf

LEMMA SetupKept == ASSUME [Next]_vars PROVE setup' = setup
<1>1. CASE Next
  BY <1>1 DEF Next, FindCache, OpenFile, CloseFile, LoadIndices, StartIterating, Fetch, AskBatch,
             HandOver, EndEpoch, Barrier, SaveState, RestartJob
<1>2. CASE UNCHANGED vars
  BY <1>2 DEF vars
<1> QED
  BY <1>1, <1>2

(* A step of one rank outside its writing moves that rank only, and the    *)
(* files stay.                                                             *)
LEMMA OneRankMoves ==
  ASSUME SizesOK, CacheInv, NEW q \in Ranks, NEW p,
         UNCHANGED <<setup, files, written, restarts>>,
         pc' = [pc EXCEPT ![q] = p],
         p \in {"write", "writing", "load", "failed", "barrier", "built", "training", "asking",
                "ended"},
         pc[q] # "writing",
         WriterInv(q)', ReaderInv(q)',
         pc[q] \in Loaded => p \in Loaded
  PROVE  CacheInv'
<1>1. CacheTypes /\ \A r \in Ranks : StoreInv(r) /\ WriterInv(r) /\ ReaderInv(r)
  BY DEF CacheInv
<1>2. CacheTypes'
  BY <1>1 DEF CacheTypes
<1>3. ASSUME NEW r \in Ranks PROVE StoreInv(r)' /\ WriterInv(r)' /\ ReaderInv(r)'
  <2>1. /\ CachingAllowed(r)' <=> CachingAllowed(r)
        /\ Store(r)' = Store(r) /\ WriterOf(r)' = WriterOf(r)
    BY SetupFixed
  <2>2. WriterOf(r) \in Ranks
    BY OneWriter
  <2>3. StoreInv(r)'
    BY <1>1, <2>1, <2>2 DEF StoreInv, CacheTypes
  <2>4. r # q => WriterInv(r)'
    BY <1>1, <2>1 DEF WriterInv, CacheTypes
  <2>5. r # q => ReaderInv(r)'
    BY <1>1, <2>1, <2>2 DEF ReaderInv, CacheTypes
  <2> QED
    BY <2>3, <2>4, <2>5
<1> QED
  BY <1>2, <1>3 DEF CacheInv

LEMMA CacheFind ==
  ASSUME SizesOK, CacheInv, NEW q \in Ranks, FindCache(q)
  PROVE  CacheInv'
<1> DEFINE p == IF ~CachingAllowed(q) THEN "barrier" ELSE IF CacheHit(q) THEN "load" ELSE "write"
<1>1. /\ pc[q] = "start" /\ pc' = [pc EXCEPT ![q] = p]
      /\ UNCHANGED <<setup, files, written, restarts>>
  BY DEF FindCache, cacheVars
<1>2. CacheTypes /\ StoreInv(q) /\ WriterInv(q) /\ ReaderInv(q)
  BY DEF CacheInv
<1>3. /\ CachingAllowed(q)' <=> CachingAllowed(q)
      /\ Store(q)' = Store(q) /\ WriterOf(q)' = WriterOf(q)
  BY <1>1, SetupFixed
<1>4. Store(q) \in Ranks
  BY OneWriter
<1>5. pc'[q] = p
  BY <1>1, <1>2 DEF CacheTypes
<1>6. p \in {"write", "load", "barrier"}
  OBVIOUS
<1>7. CachingAllowed(q) => p \in {"write", "load"}
  OBVIOUS
<1>8. p = "write" => CachingAllowed(q) /\ files[Store(q)][4] = "absent"
  <2>1. SUFFICES ASSUME p = "write", files[Store(q)][4] # "absent" PROVE FALSE
    OBVIOUS
  <2>2. CachingAllowed(q) /\ ~CacheHit(q)
    BY <2>1
  <2>3. \A f \in 1 .. 3 : files[Store(q)][f] = "whole"
    BY <1>2, <2>1 DEF StoreInv
  <2>4. \A f \in Files : f \in 1 .. 3 \/ f = 4
    BY DEF Files
  <2> QED
    BY <2>1, <2>2, <2>3, <2>4 DEF CacheHit
<1>9. p = "load" => CachingAllowed(q) /\ files[Store(q)][4] # "absent"
  BY DEF CacheHit, Files
<1>10. p = "barrier" => ~CachingAllowed(q)
  OBVIOUS
<1> HIDE DEF p
<1>11. written[q] = 0
  BY <1>1, <1>2 DEF WriterInv
<1>12. WriterInv(q)'
  BY <1>1, <1>3, <1>5, <1>6, <1>7, <1>8, <1>9, <1>10, <1>11 DEF WriterInv, Writing, Loaded
<1>13. ReaderInv(q)'
  BY <1>1, <1>3, <1>5, <1>6, <1>9 DEF ReaderInv, Loaded
<1>14. pc[q] # "writing" /\ pc[q] \notin Loaded
  BY <1>1 DEF Loaded
<1>15. p \in {"write", "writing", "load", "failed", "barrier", "built", "training", "asking",
              "ended"}
  BY <1>6
<1> QED
  BY <1>1, <1>12, <1>13, <1>14, <1>15, OneRankMoves

(* A step of the writer on its store.                                      *)
LEMMA WriterMoves ==
  ASSUME SizesOK, CacheInv, NEW q \in Ranks, CachingAllowed(q),
         pc[q] \in Writing, pc'[q] \in Writing \cup {"load"},
         UNCHANGED <<setup, restarts>>,
         CacheTypes',
         \A r \in Ranks : r # q => pc'[r] = pc[r] /\ written'[r] = written[r],
         \A s \in Ranks : s # Store(q) => files'[s] = files[s],
         StoreInv(q)', WriterInv(q)'
  PROVE  CacheInv'
<1>1. CacheTypes /\ \A r \in Ranks : StoreInv(r) /\ WriterInv(r) /\ ReaderInv(r)
  BY DEF CacheInv
<1>2. ASSUME NEW r \in Ranks PROVE StoreInv(r)' /\ WriterInv(r)' /\ ReaderInv(r)'
  <2>1. /\ CachingAllowed(r)' <=> CachingAllowed(r)
        /\ Store(r)' = Store(r) /\ WriterOf(r)' = WriterOf(r)
        /\ CachingAllowed(q)' <=> CachingAllowed(q)
        /\ Store(q)' = Store(q) /\ WriterOf(q)' = WriterOf(q)
    BY SetupFixed
  <2>2. Store(r) \in Ranks /\ WriterOf(r) \in Ranks /\ WriterOf(q) = q
        /\ (Store(q) = Store(r) => WriterOf(r) = q)
        /\ (CachingAllowed(r) => WriterOf(r) = r)
        /\ Store(WriterOf(r)) = Store(r)
    BY OneWriter
  <2>3. CASE Store(r) # Store(q)
    <3>1. files'[Store(r)] = files[Store(r)] /\ r # q /\ WriterOf(r) # q
      BY <2>2, <2>3
    <3>2. /\ pc'[r] = pc[r] /\ written'[r] = written[r]
          /\ pc'[WriterOf(r)] = pc[WriterOf(r)] /\ written'[WriterOf(r)] = written[WriterOf(r)]
      BY <2>2, <3>1
    <3>3. StoreInv(r)'
      BY <1>1, <2>1, <3>1, <3>2 DEF StoreInv
    <3>4. WriterInv(r)'
      BY <1>1, <2>1, <3>1, <3>2 DEF WriterInv
    <3>5. ReaderInv(r)'
      BY <1>1, <2>1, <3>1, <3>2 DEF ReaderInv
    <3> QED
      BY <3>3, <3>4, <3>5
  <2>4. CASE Store(r) = Store(q) /\ r # q
    <3>1. ~CachingAllowed(r) /\ WriterOf(r) = q
      BY <2>2, <2>4
    <3>2. pc'[r] = pc[r] /\ written'[r] = written[r]
      BY <2>4
    <3>3. pc[r] \notin Writing \cup {"load", "failed"} \cup Loaded
      BY <1>1, <3>1 DEF ReaderInv, WriterInv, Loaded, Writing
    <3>4. StoreInv(r)'
      BY <2>1, <2>2, <2>4, <3>1 DEF StoreInv
    <3>5. WriterInv(r)'
      BY <1>1, <2>1, <3>1, <3>2, <3>3 DEF WriterInv, Writing, Loaded
    <3>6. ReaderInv(r)'
      BY <1>1, <2>1, <3>1, <3>2, <3>3 DEF ReaderInv, Loaded
    <3> QED
      BY <3>4, <3>5, <3>6
  <2>5. CASE r = q
    <3>1. ReaderInv(q)'
      BY <2>1 DEF ReaderInv, Writing, Loaded
    <3> QED
      BY <2>5, <3>1
  <2> QED
    BY <2>3, <2>4, <2>5
<1> QED
  BY <1>2 DEF CacheInv

LEMMA CacheOpen ==
  ASSUME SizesOK, CacheInv, NEW q \in Ranks, OpenFile(q)
  PROVE  CacheInv'
<1>1. /\ pc[q] = "write" /\ pc' = [pc EXCEPT ![q] = "writing"]
      /\ files' = [files EXCEPT ![Store(q)][written[q] + 1] = "torn"]
      /\ UNCHANGED <<setup, written, restarts>>
  BY DEF OpenFile
<1>2. CacheTypes /\ StoreInv(q) /\ WriterInv(q)
  BY DEF CacheInv
<1>3. /\ CachingAllowed(q)' <=> CachingAllowed(q)
      /\ Store(q)' = Store(q) /\ WriterOf(q)' = WriterOf(q)
  BY <1>1, SetupFixed
<1>4. Store(q) \in Ranks /\ CachingAllowed(q) /\ WriterOf(q) = q
  BY <1>1, <1>2, OneWriter DEF WriterInv, Writing
<1>5. /\ written[q] \in 0 .. 3 /\ files[Store(q)][4] = "absent"
      /\ \A f \in 1 .. written[q] : files[Store(q)][f] = "whole"
  BY <1>1, <1>2 DEF WriterInv, Writing
<1>6. /\ pc'[q] = "writing"
      /\ files'[Store(q)] = [files[Store(q)] EXCEPT ![written[q] + 1] = "torn"]
      /\ \A s \in Ranks : s # Store(q) => files'[s] = files[s]
  BY <1>1, <1>2, <1>4 DEF CacheTypes
<1>7. \A f \in Files : files'[Store(q)][f] = IF f = written[q] + 1 THEN "torn" ELSE files[Store(q)][f]
  BY <1>2, <1>4, <1>6 DEF CacheTypes
<1>8. CacheTypes'
  <2>1. written[q] + 1 \in Files
    BY <1>5 DEF Files
  <2> QED
    BY <1>1, <1>2, <1>4, <2>1 DEF CacheTypes, FileStates
<1>9. StoreInv(q)'
  BY <1>1, <1>3, <1>4, <1>5, <1>6, <1>7 DEF StoreInv, Files
<1>10. WriterInv(q)'
  BY <1>1, <1>3, <1>4, <1>5, <1>6, <1>7 DEF WriterInv, Files, Writing, Loaded
<1>11. \A r \in Ranks : r # q => pc'[r] = pc[r] /\ written'[r] = written[r]
  BY <1>1, <1>2 DEF CacheTypes
<1> QED
  BY <1>1, <1>4, <1>6, <1>8, <1>9, <1>10, <1>11, WriterMoves DEF Writing

LEMMA CacheClose ==
  ASSUME SizesOK, CacheInv, NEW q \in Ranks, CloseFile(q)
  PROVE  CacheInv'
<1>1. /\ pc[q] = "writing"
      /\ pc' = [pc EXCEPT ![q] = IF written[q] + 1 = 4 THEN "load" ELSE "write"]
      /\ files' = [files EXCEPT ![Store(q)][written[q] + 1] = "whole"]
      /\ written' = [written EXCEPT ![q] = @ + 1]
      /\ UNCHANGED <<setup, restarts>>
  BY DEF CloseFile
<1>2. CacheTypes /\ StoreInv(q) /\ WriterInv(q)
  BY DEF CacheInv
<1>3. /\ CachingAllowed(q)' <=> CachingAllowed(q)
      /\ Store(q)' = Store(q) /\ WriterOf(q)' = WriterOf(q)
  BY <1>1, SetupFixed
<1>4. Store(q) \in Ranks /\ CachingAllowed(q) /\ WriterOf(q) = q
  BY <1>1, <1>2, OneWriter DEF WriterInv, Writing
<1>5. /\ written[q] \in 0 .. 3 /\ (written[q] < 3 => files[Store(q)][4] = "absent")
      /\ \A f \in 1 .. written[q] : files[Store(q)][f] = "whole"
  BY <1>1, <1>2 DEF WriterInv, Writing
<1>6. /\ pc'[q] = IF written[q] = 3 THEN "load" ELSE "write"
      /\ written'[q] = written[q] + 1
      /\ files'[Store(q)] = [files[Store(q)] EXCEPT ![written[q] + 1] = "whole"]
      /\ \A s \in Ranks : s # Store(q) => files'[s] = files[s]
  <2>1. written[q] + 1 = 4 <=> written[q] = 3
    BY <1>5
  <2> QED
    BY <1>1, <1>2, <1>4, <2>1 DEF CacheTypes
<1>7. \A f \in Files : files'[Store(q)][f] = IF f = written[q] + 1 THEN "whole" ELSE files[Store(q)][f]
  BY <1>2, <1>4, <1>6 DEF CacheTypes
<1>8. CacheTypes'
  <2>1. written[q] + 1 \in Files /\ written[q] + 1 \in 0 .. 4
    BY <1>5 DEF Files
  <2> QED
    BY <1>1, <1>2, <1>4, <2>1 DEF CacheTypes, FileStates
<1>9. StoreInv(q)'
  BY <1>1, <1>3, <1>4, <1>5, <1>6, <1>7 DEF StoreInv, Files
<1>10. WriterInv(q)'
  BY <1>1, <1>3, <1>4, <1>5, <1>6, <1>7 DEF WriterInv, Files, Writing, Loaded
<1>11. \A r \in Ranks : r # q => pc'[r] = pc[r] /\ written'[r] = written[r]
  BY <1>1, <1>2 DEF CacheTypes
<1>12. pc'[q] \in Writing \cup {"load"}
  BY <1>6 DEF Writing
<1> QED
  BY <1>1, <1>4, <1>6, <1>8, <1>9, <1>10, <1>11, <1>12, WriterMoves DEF Writing

LEMMA CacheLoad ==
  ASSUME SizesOK, CacheInv, NEW q \in Ranks, LoadIndices(q)
  PROVE  CacheInv'
<1> DEFINE bad == \E f \in Files \ {1} : files[Store(q)][f] # "whole"
           p == IF bad THEN "failed" ELSE IF CachingAllowed(q) THEN "barrier" ELSE "built"
<1>1. /\ pc[q] = "load" /\ pc' = [pc EXCEPT ![q] = p]
      /\ UNCHANGED <<setup, files, written, restarts>>
  BY DEF LoadIndices, cacheVars
<1>2. CacheTypes /\ \A r \in Ranks : StoreInv(r) /\ WriterInv(r) /\ ReaderInv(r)
  BY DEF CacheInv
<1>3. /\ CachingAllowed(q)' <=> CachingAllowed(q)
      /\ Store(q)' = Store(q) /\ WriterOf(q)' = WriterOf(q)
  BY <1>1, SetupFixed
<1>4. /\ Store(q) \in Ranks /\ WriterOf(q) \in Ranks /\ Store(WriterOf(q)) = Store(q)
      /\ CachingAllowed(WriterOf(q))
  BY OneWriter
<1>5. \A f \in Files : f \in 1 .. 3 \/ f = 4
  BY DEF Files
<1>6. files[Store(q)][4] \in FileStates
  BY <1>2, <1>4 DEF CacheTypes, Files
<1>7. ~CachingAllowed(q) => Whole(files[Store(q)]) /\ pc[WriterOf(q)] \in Loaded
  <2>1. SUFFICES ASSUME ~CachingAllowed(q)
                 PROVE  Whole(files[Store(q)]) /\ pc[WriterOf(q)] \in Loaded
    OBVIOUS
  <2>2. pc[WriterOf(q)] \in Loaded
    BY <1>1, <1>2, <2>1 DEF ReaderInv
  <2> QED
    BY <1>2, <1>4, <2>2 DEF WriterInv
<1>8. CachingAllowed(q) => files[Store(q)][4] # "absent" /\ \A f \in 1 .. 3 : files[Store(q)][f] = "whole"
  BY <1>1, <1>2 DEF WriterInv, StoreInv
<1>9. ~bad => Whole(files[Store(q)])
  BY <1>5, <1>7, <1>8 DEF Whole, Files
<1>10. bad => CachingAllowed(q) /\ files[Store(q)][4] = "torn"
  BY <1>5, <1>6, <1>7, <1>8 DEF Whole, FileStates
<1> HIDE DEF bad
<1>11. pc'[q] = p
  BY <1>1, <1>2 DEF CacheTypes
<1>12. WriterInv(q)'
  BY <1>1, <1>3, <1>9, <1>11 DEF WriterInv, Writing, Loaded, Whole
<1>13. ReaderInv(q)'
  <2>1. pc'[WriterOf(q)] = pc[WriterOf(q)] \/ CachingAllowed(q)
    BY <1>1, <1>2, <1>4 DEF CacheTypes
  <2> QED
    BY <1>1, <1>3, <1>7, <1>10, <1>11, <2>1 DEF ReaderInv, Loaded
<1>14. pc[q] # "writing" /\ pc[q] \notin Loaded
  BY <1>1 DEF Loaded
<1>15. p \in {"write", "writing", "load", "failed", "barrier", "built", "training", "asking",
              "ended"}
  OBVIOUS
<1> QED
  BY <1>1, <1>12, <1>13, <1>14, <1>15, OneRankMoves

(* The steps of sampling, from one loaded position to another.             *)
LEMMA CacheSample ==
  ASSUME SizesOK, CacheInv, NEW q \in Ranks, NEW p, p \in Loaded,
         UNCHANGED <<setup, files, written, restarts>>,
         pc[q] \in Loaded, pc' = [pc EXCEPT ![q] = p]
  PROVE  CacheInv'
<1>2. CacheTypes /\ \A r \in Ranks : StoreInv(r) /\ WriterInv(r) /\ ReaderInv(r)
  BY DEF CacheInv
<1>3. /\ CachingAllowed(q)' <=> CachingAllowed(q)
      /\ Store(q)' = Store(q) /\ WriterOf(q)' = WriterOf(q)
  BY SetupFixed
<1>4. WriterOf(q) \in Ranks
  BY OneWriter
<1>5. pc'[q] = p
  BY <1>2 DEF CacheTypes
<1>6. WriterInv(q)'
  BY <1>2, <1>3, <1>5 DEF WriterInv, Writing, Loaded
<1>7. ReaderInv(q)'
  <2>1. pc'[WriterOf(q)] \in {pc[WriterOf(q)], p}
    BY <1>2, <1>4 DEF CacheTypes
  <2> QED
    BY <1>2, <1>3, <1>5, <2>1 DEF ReaderInv, Loaded
<1>8. pc[q] # "writing" /\ (pc[q] \in Loaded => p \in Loaded)
  BY DEF Loaded
<1>9. p \in {"write", "writing", "load", "failed", "barrier", "built", "training", "asking",
             "ended"}
  BY DEF Loaded
<1> QED
  BY <1>6, <1>7, <1>8, <1>9, OneRankMoves

LEMMA CacheUnchanged ==
  ASSUME CacheInv, UNCHANGED <<setup, files, written, restarts, pc>>
  PROVE  CacheInv'
BY DEF CacheInv, CacheTypes, StoreInv, WriterInv, ReaderInv, Store, WriterOf, CachingAllowed

LEMMA CacheBarrier ==
  ASSUME SizesOK, CacheInv, Barrier
  PROVE  CacheInv'
<1>1. /\ \A r \in Ranks : pc[r] = "barrier"
      /\ \A r \in Ranks : pc'[r] = IF CachingAllowed(r) THEN "built" ELSE "load"
      /\ pc' \in [Ranks -> {"built", "load"}]
      /\ UNCHANGED <<setup, files, written, restarts>>
  BY DEF Barrier, cacheVars
<1>2. CacheTypes /\ \A r \in Ranks : StoreInv(r) /\ WriterInv(r) /\ ReaderInv(r)
  BY DEF CacheInv
<1>3. CacheTypes'
  BY <1>1, <1>2 DEF CacheTypes
<1>4. ASSUME NEW r \in Ranks PROVE StoreInv(r)' /\ WriterInv(r)' /\ ReaderInv(r)'
  <2>1. /\ CachingAllowed(r)' <=> CachingAllowed(r)
        /\ Store(r)' = Store(r) /\ WriterOf(r)' = WriterOf(r)
    BY <1>1, SetupFixed
  <2>2. WriterOf(r) \in Ranks /\ CachingAllowed(WriterOf(r))
    BY OneWriter
  <2>3. pc[WriterOf(r)] = "barrier" /\ pc[r] = "barrier" /\ pc'[WriterOf(r)] = "built"
        /\ pc'[r] = IF CachingAllowed(r) THEN "built" ELSE "load"
    BY <1>1, <2>2
  <2>4. StoreInv(r)'
    BY <1>1, <1>2, <2>1, <2>3 DEF StoreInv
  <2>5. WriterInv(r)'
    BY <1>1, <1>2, <2>1, <2>3 DEF WriterInv, Writing, Loaded
  <2>6. ReaderInv(r)'
    BY <2>1, <2>3 DEF ReaderInv, Loaded
  <2> QED
    BY <2>4, <2>5, <2>6
<1> QED
  BY <1>3, <1>4 DEF CacheInv

LEMMA CacheRestart ==
  ASSUME SizesOK, CacheInv, RestartJob
  PROVE  CacheInv'
<1>1. /\ pc' = [r \in Ranks |-> "start"] /\ written' = [r \in Ranks |-> 0]
      /\ restarts < MaxCrashes /\ restarts' = restarts + 1
      /\ UNCHANGED <<setup, files>>
  BY DEF RestartJob
<1>2. CacheTypes /\ \A r \in Ranks : StoreInv(r) /\ WriterInv(r) /\ ReaderInv(r)
  BY DEF CacheInv
<1>3. MaxCrashes \in Nat
  BY Sizes
<1>4. CacheTypes'
  BY <1>1, <1>2, <1>3 DEF CacheTypes
<1>5. ASSUME NEW r \in Ranks PROVE StoreInv(r)' /\ WriterInv(r)' /\ ReaderInv(r)'
  <2>1. Store(r)' = Store(r)
    BY <1>1, SetupFixed
  <2>2. restarts' > 0 /\ pc'[r] = "start" /\ written'[r] = 0
    BY <1>1, <1>2 DEF CacheTypes
  <2>3. StoreInv(r)'
    BY <1>1, <1>2, <2>1, <2>2 DEF StoreInv
  <2> QED
    BY <2>2, <2>3 DEF WriterInv, ReaderInv, Writing, Loaded
<1> QED
  BY <1>4, <1>5 DEF CacheInv

LEMMA CacheStep ==
  ASSUME SizesOK, CacheInv, [Next]_vars
  PROVE  CacheInv'
<1>1. CASE UNCHANGED vars
  BY <1>1, CacheUnchanged DEF vars, cacheVars
<1>2. ASSUME NEW q \in Ranks,
             FindCache(q) \/ OpenFile(q) \/ CloseFile(q) \/ LoadIndices(q)
      PROVE  CacheInv'
  BY <1>2, CacheFind, CacheOpen, CacheClose, CacheLoad
<1>3. ASSUME NEW q \in Ranks, Fetch(q) PROVE CacheInv'
  BY <1>3, CacheUnchanged DEF Fetch, cacheVars
<1>4. ASSUME NEW q \in Ranks, StartIterating(q) PROVE CacheInv'
  <2>1. PICK p \in {"ended", "training"} : pc' = [pc EXCEPT ![q] = p]
    BY <1>4 DEF StartIterating
  <2> QED
    BY <1>4, <2>1, CacheSample DEF StartIterating, cacheVars, Loaded
<1>5. ASSUME NEW q \in Ranks, AskBatch(q) PROVE CacheInv'
  BY <1>5, CacheSample DEF AskBatch, cacheVars, Loaded
<1>6. ASSUME NEW q \in Ranks, HandOver(q) PROVE CacheInv'
  BY <1>6, CacheSample DEF HandOver, cacheVars, Loaded
<1>7. ASSUME NEW q \in Ranks, EndEpoch(q) PROVE CacheInv'
  <2>1. CASE setup.repeat
    BY <1>7, <2>1, CacheUnchanged DEF EndEpoch, cacheVars
  <2>2. CASE ~setup.repeat
    BY <1>7, <2>2, CacheSample DEF EndEpoch, cacheVars, Loaded
  <2> QED
    BY <2>1, <2>2
<1>8. CASE Barrier
  BY <1>8, CacheBarrier
<1>9. CASE SaveState
  BY <1>9, CacheUnchanged DEF SaveState, cacheVars
<1>10. CASE RestartJob
  BY <1>10, CacheRestart
<1> QED
  BY <1>1, <1>2, <1>3, <1>4, <1>5, <1>6, <1>7, <1>8, <1>9, <1>10 DEF Next

(* A rank that fails to load has found the last file torn.                 *)
LEMMA CacheImplies ==
  ASSUME SizesOK, CacheInv
  PROVE  FailsOnlyAfterTear
<1>1. SUFFICES ASSUME NEW r \in Ranks, pc[r] = "failed"
               PROVE  /\ restarts > 0
                      /\ files[Store(r)] = [f \in Files |-> IF f = 4 THEN "torn" ELSE "whole"]
  BY DEF FailsOnlyAfterTear
<1>2. CacheTypes /\ StoreInv(r) /\ ReaderInv(r)
  BY DEF CacheInv
<1>3. CachingAllowed(r) /\ files[Store(r)][4] = "torn"
  BY <1>1, <1>2 DEF ReaderInv
<1>4. WriterOf(r) = r /\ Store(r) \in Ranks
  BY <1>3, OneWriter
<1>5. restarts > 0 /\ \A f \in 1 .. 3 : files[Store(r)][f] = "whole"
  BY <1>1, <1>2, <1>3, <1>4 DEF StoreInv
<1>6. files[Store(r)] \in [Files -> FileStates]
  BY <1>2, <1>4 DEF CacheTypes
<1>7. \A f \in Files : f \in 1 .. 3 \/ f = 4
  BY DEF Files
<1>8. \A f \in Files : files[Store(r)][f] = IF f = 4 THEN "torn" ELSE "whole"
  BY <1>3, <1>5, <1>7
<1> QED
  BY <1>5, <1>6, <1>8

-------------------------------------------------------------------------------
(* The batches of every rank are the ones that are due.                    *)

LEMMA BatchInit == ASSUME SizesOK, Init PROVE BatchInv
<1>1. Usable \in Nat /\ MaxSteps \in Nat /\ StepsPerEpoch \in Nat \ {0} /\ GlobalBatch \in Nat
  BY Sizes
<1>2. StartOf(0) = 0
  <2>1. (StepsPerEpoch * 0 + 0) % StepsPerEpoch = 0
    BY <1>1, RemainderIs
  <2>2. 0 % StepsPerEpoch = 0
    BY <1>1, <2>1
  <2> QED
    BY <1>1, <2>2 DEF StartOf
<1>3. BatchTypes
  BY <1>1 DEF Init, BatchTypes
<1>4. ASSUME NEW r \in Ranks PROVE HandedInv(r) /\ CountInv(r)
  BY <1>1, <1>2 DEF Init, HandedInv, CountInv, AtStep
<1> QED
  BY <1>3, <1>4 DEF BatchInv

(* The steps that build the dataset.                                       *)
LEMMA BatchBuild ==
  ASSUME BatchInv, UNCHANGED <<consumed, drawn, fetched, handed, checkpoint>>,
         \A r \in Ranks : \/ pc'[r] = pc[r]
                          \/ /\ pc[r] \notin {"training", "asking", "ended"}
                             /\ pc'[r] \notin {"training", "asking", "ended"}
  PROVE  BatchInv'
<1>1. BatchTypes'
  BY DEF BatchInv, BatchTypes
<1>2. ASSUME NEW r \in Ranks PROVE HandedInv(r)' /\ CountInv(r)'
  <2>1. HandedInv(r) /\ CountInv(r)
    BY DEF BatchInv
  <2>2. HandedInv(r)'
    BY <2>1 DEF HandedInv
  <2>3. CountInv(r)'
    <3>1. CASE pc'[r] = pc[r]
      BY <2>1, <3>1 DEF CountInv
    <3>2. CASE /\ pc[r] \notin {"training", "asking", "ended"}
               /\ pc'[r] \notin {"training", "asking", "ended"}
      BY <2>1, <3>2 DEF CountInv
    <3> QED
      BY <3>1, <3>2
  <2> QED
    BY <2>2, <2>3
<1> QED
  BY <1>1, <1>2 DEF BatchInv

(* A step of one rank: the others keep what they have.                     *)
LEMMA OneRankSamples ==
  ASSUME CacheTypes, BatchInv, NEW q \in Ranks, BatchTypes', HandedInv(q)', CountInv(q)',
         checkpoint' = checkpoint,
         \A r \in Ranks : r # q => /\ pc'[r] = pc[r] /\ consumed'[r] = consumed[r]
                                   /\ drawn'[r] = drawn[r] /\ fetched'[r] = fetched[r]
                                   /\ handed'[r] = handed[r]
  PROVE  BatchInv'
<1>1. ASSUME NEW r \in Ranks, r # q PROVE HandedInv(r)' /\ CountInv(r)'
  <2>1. HandedInv(r) /\ CountInv(r)
    BY DEF BatchInv
  <2>2. HandedInv(r)'
    BY <1>1, <2>1 DEF HandedInv
  <2>3. CountInv(r)'
    BY <1>1, <2>1 DEF CountInv
  <2> QED
    BY <2>2, <2>3
<1> QED
  BY <1>1 DEF BatchInv

LEMMA BatchStart ==
  ASSUME SizesOK, CacheTypes, BatchInv, NEW q \in Ranks, StartIterating(q)
  PROVE  BatchInv'
<1> DEFINE c == checkpoint.consumed[q]
           n == checkpoint.steps
           from == IF c >= Usable /\ setup.repeat THEN 0 ELSE c
           p == IF from >= Usable THEN "ended" ELSE "training"
<1>1. /\ pc[q] = "built"
      /\ consumed' = [consumed EXCEPT ![q] = from]
      /\ drawn' = [drawn EXCEPT ![q] = from]
      /\ pc' = [pc EXCEPT ![q] = p]
      /\ UNCHANGED <<fetched, handed, checkpoint>>
  BY DEF StartIterating
<1>2. BatchTypes /\ HandedInv(q) /\ CountInv(q)
  BY DEF BatchInv
<1>3. Usable \in Nat /\ GlobalBatch \in Nat \ {0} /\ StepsPerEpoch \in Nat \ {0}
  BY Sizes
<1>4. AtStep(c, n) /\ n \in Nat /\ c \in 0 .. Usable /\ Len(handed[q]) = n /\ fetched[q] = << >>
  BY <1>1, <1>2 DEF CountInv, BatchTypes
<1> HIDE DEF c, n
<1>5. c >= Usable => n % StepsPerEpoch = 0
  <2>1. StartOf(n) + GlobalBatch <= Usable /\ StartOf(n) \in Nat
    BY <1>4, StartType
  <2> QED
    BY <1>3, <1>4, <2>1 DEF AtStep
<1>6. AtStep(from, n) /\ from \in 0 .. Usable
  <2>1. CASE c >= Usable
    <3>1. StartOf(n) = 0
      BY <1>3, <1>5, <2>1 DEF StartOf
    <3> QED
      BY <1>3, <1>4, <3>1 DEF AtStep
  <2>2. CASE ~(c >= Usable)
    BY <1>4, <2>2
  <2> QED
    BY <2>1, <2>2
<1> HIDE DEF from
<1>7. /\ pc'[q] = p /\ consumed'[q] = from /\ drawn'[q] = from
      /\ fetched'[q] = << >> /\ handed'[q] = handed[q] /\ checkpoint' = checkpoint
  BY <1>1, <1>2, <1>4 DEF BatchTypes, CacheTypes
<1>8. BatchTypes'
  BY <1>1, <1>2, <1>6 DEF BatchTypes
<1>9. HandedInv(q)'
  BY <1>2, <1>7 DEF HandedInv
<1>10. CountInv(q)'
  <2>1. from = from + 0 * GlobalBatch
    BY <1>3, <1>6
  <2>2. Len(fetched'[q]) = 0
    BY <1>7
  <2>3. AtStep(checkpoint.consumed[q], checkpoint.steps)'
    BY <1>2, <1>7 DEF CountInv
  <2> QED
    BY <1>4, <1>6, <1>7, <2>1, <2>2, <2>3 DEF CountInv
<1>11. \A r \in Ranks : r # q => /\ pc'[r] = pc[r] /\ consumed'[r] = consumed[r]
                                 /\ drawn'[r] = drawn[r] /\ fetched'[r] = fetched[r]
                                 /\ handed'[r] = handed[r]
  BY <1>1, <1>2 DEF BatchTypes, CacheTypes
<1> QED
  BY <1>7, <1>8, <1>9, <1>10, <1>11, OneRankSamples

(* What is drawn is a whole number of batches, inside the usable samples.  *)
LEMMA DrawnInside ==
  ASSUME SizesOK, NEW n \in Nat, NEW c, AtStep(c, n), NEW l \in Nat,
         c + l * GlobalBatch + GlobalBatch <= Samples
  PROVE  c + l * GlobalBatch + GlobalBatch <= Usable
<1>1. GlobalBatch \in Nat /\ StepsPerEpoch \in Nat
  BY Sizes
<1>2. PICK m \in 0 .. StepsPerEpoch : c = m * GlobalBatch
  BY StepCount
<1>3. m \in Nat /\ m + l \in Nat
  BY <1>1
<1>4. c + l * GlobalBatch = (m + l) * GlobalBatch
  BY <1>1, <1>2, <1>3
<1> QED
  BY <1>3, <1>4, WholeBatchFits

LEMMA BatchFetch ==
  ASSUME SizesOK, CacheTypes, BatchInv, NEW q \in Ranks, Fetch(q)
  PROVE  BatchInv'
<1>1. /\ pc[q] \in {"training", "asking"}
      /\ drawn[q] + GlobalBatch <= Samples
      /\ fetched' = [fetched EXCEPT ![q] = Append(@, Slice(q, drawn[q]))]
      /\ drawn' = [drawn EXCEPT ![q] = @ + GlobalBatch]
      /\ UNCHANGED <<pc, consumed, handed, checkpoint>>
  BY DEF Fetch
<1>2. BatchTypes /\ HandedInv(q) /\ CountInv(q)
  BY DEF BatchInv
<1>3. Usable \in Nat /\ GlobalBatch \in Nat \ {0}
  BY Sizes
<1> DEFINE l == Len(fetched[q])
<1>4. /\ AtStep(consumed[q], Len(handed[q])) /\ Len(handed[q]) \in Nat
      /\ drawn[q] = consumed[q] + l * GlobalBatch
      /\ \A k \in 1 .. l : fetched[q][k] = Slice(q, consumed[q] + (k - 1) * GlobalBatch)
      /\ l \in Nat /\ drawn[q] \in 0 .. Usable /\ consumed[q] \in 0 .. Usable
      /\ fetched[q] \in Seq(SUBSET (0 .. Samples - 1))
  BY <1>1, <1>2 DEF CountInv, BatchTypes
<1>5. drawn[q] + GlobalBatch <= Usable
  BY <1>1, <1>4, DrawnInside
<1>6. Slice(q, drawn[q]) \in SUBSET (0 .. Samples - 1)
  BY <1>3, <1>4, <1>5, SliceInside
<1>7. /\ fetched'[q] = Append(fetched[q], Slice(q, drawn[q]))
      /\ drawn'[q] = drawn[q] + GlobalBatch /\ pc'[q] = pc[q]
      /\ consumed'[q] = consumed[q] /\ handed'[q] = handed[q]
  BY <1>1, <1>2 DEF BatchTypes
<1>8. BatchTypes'
  <2>1. drawn[q] + GlobalBatch \in 0 .. Usable
    BY <1>3, <1>4, <1>5
  <2>2. Append(fetched[q], Slice(q, drawn[q])) \in Seq(SUBSET (0 .. Samples - 1))
    BY <1>4, <1>6, AppendProperties
  <2> QED
    BY <1>1, <1>2, <2>1, <2>2 DEF BatchTypes
<1>9. HandedInv(q)'
  BY <1>1, <1>2, <1>7 DEF HandedInv
<1>10. CountInv(q)'
  <2>1. /\ Len(fetched'[q]) = l + 1
        /\ \A k \in 1 .. l : fetched'[q][k] = fetched[q][k]
        /\ fetched'[q][l + 1] = Slice(q, drawn[q])
    BY <1>4, <1>6, <1>7, AppendProperties
  <2> HIDE DEF l
  <2>2. drawn'[q] = consumed'[q] + Len(fetched'[q]) * GlobalBatch
    <3>1. (l + 1) * GlobalBatch = l * GlobalBatch + GlobalBatch /\ l * GlobalBatch \in Nat
      BY <1>3, <1>4
    <3>2. drawn'[q] = consumed[q] + (l * GlobalBatch + GlobalBatch)
      BY <1>3, <1>4, <1>7, <3>1
    <3> QED
      BY <1>7, <2>1, <3>1, <3>2
  <2>3. ASSUME NEW k \in 1 .. Len(fetched'[q])
        PROVE  fetched'[q][k] = Slice(q, consumed'[q] + (k - 1) * GlobalBatch)
    <3>1. CASE k = l + 1
      <4>1. k - 1 = l
        BY <1>4, <3>1
      <4> QED
        BY <1>4, <1>7, <2>1, <3>1, <4>1
    <3>2. CASE k # l + 1
      <4>1. k \in 1 .. l
        BY <1>4, <2>1, <3>2
      <4> QED
        BY <1>4, <1>7, <2>1, <4>1
    <3> QED
      BY <3>1, <3>2
  <2>4. AtStep(checkpoint.consumed[q], checkpoint.steps)' /\ (pc[q] = "asking" => Len(handed[q]) < MaxSteps)
    BY <1>1, <1>2 DEF CountInv
  <2> QED
    BY <1>1, <1>4, <1>7, <2>2, <2>3, <2>4 DEF CountInv
<1>11. \A r \in Ranks : r # q => /\ pc'[r] = pc[r] /\ consumed'[r] = consumed[r]
                                 /\ drawn'[r] = drawn[r] /\ fetched'[r] = fetched[r]
                                 /\ handed'[r] = handed[r]
  BY <1>1, <1>2 DEF BatchTypes
<1> QED
  BY <1>1, <1>8, <1>9, <1>10, <1>11, OneRankSamples

LEMMA BatchAsk ==
  ASSUME SizesOK, CacheTypes, BatchInv, NEW q \in Ranks, AskBatch(q)
  PROVE  BatchInv'
<1>1. /\ pc[q] = "training" /\ Len(handed[q]) < MaxSteps
      /\ pc' = [pc EXCEPT ![q] = "asking"]
      /\ UNCHANGED <<consumed, drawn, fetched, handed, checkpoint>>
  BY DEF AskBatch
<1>2. BatchTypes /\ HandedInv(q) /\ CountInv(q)
  BY DEF BatchInv
<1>3. pc'[q] = "asking" /\ \A r \in Ranks : r # q => pc'[r] = pc[r]
  BY <1>1 DEF CacheTypes
<1>4. BatchTypes'
  BY <1>1, <1>2 DEF BatchTypes
<1>5. HandedInv(q)'
  BY <1>1, <1>2 DEF HandedInv
<1>6. CountInv(q)'
  BY <1>1, <1>2, <1>3 DEF CountInv
<1> QED
  BY <1>1, <1>3, <1>4, <1>5, <1>6, OneRankSamples

(* The batch at the head of the queue is the one that is due.              *)
LEMMA HeadIsDue ==
  ASSUME SizesOK, BatchInv, NEW q \in Ranks, pc[q] = "asking", fetched[q] # << >>
  PROVE  /\ Head(fetched[q]) = BatchAt(q, Len(handed[q]))
         /\ consumed[q] + GlobalBatch <= Usable
         /\ AtStep(consumed[q] + GlobalBatch, Len(handed[q]) + 1)
<1>1. BatchTypes /\ CountInv(q)
  BY DEF BatchInv
<1>2. Usable \in Nat /\ GlobalBatch \in Nat \ {0}
  BY Sizes
<1> DEFINE l == Len(fetched[q])
<1>3. /\ AtStep(consumed[q], Len(handed[q])) /\ Len(handed[q]) \in Nat
      /\ drawn[q] = consumed[q] + l * GlobalBatch
      /\ \A k \in 1 .. l : fetched[q][k] = Slice(q, consumed[q] + (k - 1) * GlobalBatch)
      /\ l \in Nat \ {0} /\ drawn[q] \in 0 .. Usable /\ consumed[q] \in 0 .. Usable
      /\ Head(fetched[q]) = fetched[q][1]
  BY <1>1 DEF CountInv, BatchTypes
<1> HIDE DEF l
<1>4. consumed[q] + GlobalBatch <= Usable
  <2>1. PICK k \in Nat : l = k + 1
    BY <1>3
  <2>2. l * GlobalBatch = k * GlobalBatch + GlobalBatch /\ k * GlobalBatch \in Nat
    BY <1>2, <2>1
  <2>3. drawn[q] = consumed[q] + (k * GlobalBatch + GlobalBatch)
    BY <1>3, <2>2
  <2>4. drawn[q] \in 0 .. Usable /\ consumed[q] \in 0 .. Usable
    BY <1>3
  <2> QED
    BY <1>2, <2>2, <2>3, <2>4
<1>5. consumed[q] = StartOf(Len(handed[q])) /\ AtStep(consumed[q] + GlobalBatch, Len(handed[q]) + 1)
  BY <1>3, <1>4, NextStep
<1>6. Head(fetched[q]) = Slice(q, consumed[q])
  <2>1. consumed[q] + (1 - 1) * GlobalBatch = consumed[q]
    BY <1>2, <1>3
  <2> QED
    BY <1>3, <2>1
<1> QED
  BY <1>4, <1>5, <1>6 DEF BatchAt

LEMMA BatchHandOver ==
  ASSUME SizesOK, CacheTypes, BatchInv, NEW q \in Ranks, HandOver(q)
  PROVE  BatchInv'
<1>1. /\ pc[q] = "asking" /\ fetched[q] # << >>
      /\ pc' = [pc EXCEPT ![q] = "training"]
      /\ handed' = [handed EXCEPT ![q] = Append(@, Head(fetched[q]))]
      /\ fetched' = [fetched EXCEPT ![q] = Tail(@)]
      /\ consumed' = [consumed EXCEPT ![q] = @ + GlobalBatch]
      /\ UNCHANGED <<drawn, checkpoint>>
  BY DEF HandOver
<1>2. BatchTypes /\ HandedInv(q) /\ CountInv(q)
  BY DEF BatchInv
<1>3. Usable \in Nat /\ GlobalBatch \in Nat \ {0} /\ MaxSteps \in Nat
  BY Sizes
<1> DEFINE l == Len(fetched[q])
           n == Len(handed[q])
<1>4. /\ AtStep(consumed[q], n) /\ n \in Nat /\ n < MaxSteps
      /\ drawn[q] = consumed[q] + l * GlobalBatch
      /\ \A k \in 1 .. l : fetched[q][k] = Slice(q, consumed[q] + (k - 1) * GlobalBatch)
      /\ l \in Nat \ {0} /\ drawn[q] \in 0 .. Usable /\ consumed[q] \in 0 .. Usable
      /\ fetched[q] \in Seq(SUBSET (0 .. Samples - 1))
      /\ handed[q] \in Seq(SUBSET (0 .. Samples - 1))
  BY <1>1, <1>2 DEF CountInv, BatchTypes
<1>5. /\ Head(fetched[q]) = BatchAt(q, n)
      /\ consumed[q] + GlobalBatch <= Usable
      /\ AtStep(consumed[q] + GlobalBatch, n + 1)
  BY <1>1, HeadIsDue
<1>6. /\ pc'[q] = "training" /\ handed'[q] = Append(handed[q], Head(fetched[q]))
      /\ fetched'[q] = Tail(fetched[q]) /\ consumed'[q] = consumed[q] + GlobalBatch
      /\ drawn'[q] = drawn[q]
  BY <1>1, <1>2 DEF BatchTypes, CacheTypes
<1>7. /\ Head(fetched[q]) \in SUBSET (0 .. Samples - 1)
      /\ Tail(fetched[q]) \in Seq(SUBSET (0 .. Samples - 1))
      /\ Len(Tail(fetched[q])) = l - 1
      /\ \A k \in 1 .. l - 1 : Tail(fetched[q])[k] = fetched[q][k + 1]
  BY <1>1, <1>4, HeadTailProperties
<1>8. /\ handed'[q] \in Seq(SUBSET (0 .. Samples - 1))
      /\ Len(handed'[q]) = n + 1
      /\ \A k \in 1 .. n : handed'[q][k] = handed[q][k]
      /\ handed'[q][n + 1] = Head(fetched[q])
  BY <1>4, <1>6, <1>7, AppendProperties
<1> HIDE DEF l, n
<1>9. BatchTypes'
  <2>1. consumed[q] + GlobalBatch \in 0 .. Usable
    BY <1>3, <1>4, <1>5
  <2>2. Append(handed[q], Head(fetched[q])) \in Seq(SUBSET (0 .. Samples - 1))
    BY <1>6, <1>8
  <2> QED
    BY <1>1, <1>2, <1>7, <2>1, <2>2 DEF BatchTypes
<1>10. HandedInv(q)'
  <2>1. checkpoint.steps <= n /\ checkpoint.steps \in Nat
    BY <1>2 DEF HandedInv, BatchTypes, n
  <2>2. ASSUME NEW i \in 1 .. n + 1 PROVE handed'[q][i] = BatchAt(q, i - 1)
    <3>1. CASE i = n + 1
      <4>1. i - 1 = n
        BY <1>4, <3>1
      <4> QED
        BY <1>5, <1>8, <3>1, <4>1
    <3>2. CASE i # n + 1
      <4>1. i \in 1 .. n
        BY <1>4, <3>2
      <4> QED
        BY <1>2, <1>8, <4>1 DEF HandedInv, n
    <3> QED
      BY <3>1, <3>2
  <2>3. checkpoint'.steps = checkpoint.steps /\ checkpoint.steps <= n + 1 /\ n + 1 <= MaxSteps
    BY <1>1, <1>3, <1>4, <2>1
  <2> QED
    BY <1>8, <2>2, <2>3 DEF HandedInv
<1>11. CountInv(q)'
  <2>1. Len(fetched'[q]) = l - 1
    BY <1>6, <1>7
  <2>2. drawn'[q] = consumed'[q] + Len(fetched'[q]) * GlobalBatch
    <3>1. PICK k \in Nat : l = k + 1
      BY <1>4
    <3>2. l * GlobalBatch = k * GlobalBatch + GlobalBatch /\ k * GlobalBatch \in Nat /\ l - 1 = k
      BY <1>3, <3>1
    <3>3. drawn'[q] = consumed[q] + (k * GlobalBatch + GlobalBatch)
      BY <1>4, <1>6, <3>2
    <3>4. drawn'[q] = (consumed[q] + GlobalBatch) + k * GlobalBatch
      BY <1>3, <1>4, <3>2, <3>3
    <3> QED
      BY <1>6, <2>1, <3>2, <3>4
  <2>3. ASSUME NEW k \in 1 .. Len(fetched'[q])
        PROVE  fetched'[q][k] = Slice(q, consumed'[q] + (k - 1) * GlobalBatch)
    <3>1. k \in 1 .. l - 1 /\ k + 1 \in 1 .. l /\ k + 1 - 1 = k
      BY <1>4, <2>1
    <3>2. fetched'[q][k] = Slice(q, consumed[q] + k * GlobalBatch)
      BY <1>4, <1>6, <1>7, <3>1
    <3>3. k * GlobalBatch = (k - 1) * GlobalBatch + GlobalBatch /\ (k - 1) * GlobalBatch \in Nat
      BY <1>3
    <3>4. consumed[q] + k * GlobalBatch = consumed'[q] + (k - 1) * GlobalBatch
      <4>1. consumed'[q] = consumed[q] + GlobalBatch
        BY <1>6
      <4>2. consumed[q] \in Nat
        BY <1>3, <1>4
      <4> QED
        BY <1>3, <3>3, <4>1, <4>2
    <3> QED
      BY <3>2, <3>4
  <2>4. AtStep(checkpoint.consumed[q], checkpoint.steps)'
    BY <1>1, <1>2 DEF CountInv
  <2> QED
    BY <1>4, <1>5, <1>6, <1>8, <2>2, <2>3, <2>4 DEF CountInv
<1>12. \A r \in Ranks : r # q => /\ pc'[r] = pc[r] /\ consumed'[r] = consumed[r]
                                 /\ drawn'[r] = drawn[r] /\ fetched'[r] = fetched[r]
                                 /\ handed'[r] = handed[r]
  BY <1>1, <1>2 DEF BatchTypes, CacheTypes
<1> QED
  BY <1>1, <1>9, <1>10, <1>11, <1>12, OneRankSamples

LEMMA BatchEndEpoch ==
  ASSUME SizesOK, CacheTypes, BatchInv, NEW q \in Ranks, EndEpoch(q)
  PROVE  BatchInv'
<1>1. /\ pc[q] = "asking" /\ fetched[q] = << >>
      /\ drawn[q] + GlobalBatch > Samples
      /\ UNCHANGED <<fetched, handed, checkpoint>>
  BY DEF EndEpoch
<1>2. BatchTypes /\ HandedInv(q) /\ CountInv(q)
  BY DEF BatchInv
<1>3. Usable \in Nat /\ GlobalBatch \in Nat \ {0}
  BY Sizes
<1>4. /\ AtStep(consumed[q], Len(handed[q])) /\ Len(handed[q]) \in Nat
      /\ drawn[q] = consumed[q] /\ consumed[q] \in 0 .. Usable
      /\ Len(fetched[q]) = 0 /\ Len(handed[q]) < MaxSteps
  <2>1. Len(fetched[q]) = 0
    BY <1>1
  <2>2. drawn[q] = consumed[q] + 0 * GlobalBatch /\ consumed[q] \in 0 .. Usable
    BY <1>1, <1>2, <2>1 DEF CountInv, BatchTypes
  <2>3. drawn[q] = consumed[q]
    BY <1>3, <2>2
  <2>4. handed[q] \in Seq(SUBSET (0 .. Samples - 1))
    BY <1>2 DEF BatchTypes
  <2> QED
    BY <1>1, <1>2, <2>1, <2>2, <2>3, <2>4 DEF CountInv
<1>5. HandedInv(q)'
  BY <1>1, <1>2 DEF HandedInv
<1>6. AtStep(checkpoint.consumed[q], checkpoint.steps)'
  BY <1>1, <1>2 DEF CountInv
<1>7. CASE setup.repeat
  <2>1. consumed' = [consumed EXCEPT ![q] = 0] /\ drawn' = [drawn EXCEPT ![q] = 0] /\ pc' = pc
    BY <1>7 DEF EndEpoch
  <2>2. BatchTypes'
    <3>1. 0 \in 0 .. Usable
      BY <1>3
    <3> QED
      BY <1>1, <1>2, <2>1, <3>1 DEF BatchTypes
  <2>3. AtStep(0, Len(handed[q]))
    <3>1. Len(handed[q]) % StepsPerEpoch = 0
      BY <1>1, <1>4, EpochEnds
    <3> QED
      BY <1>3, <3>1 DEF AtStep, StartOf
  <2>4. consumed'[q] = 0 /\ drawn'[q] = 0
    BY <1>2, <2>1 DEF BatchTypes
  <2>5. CountInv(q)'
    <3>1. 0 = 0 + 0 * GlobalBatch
      BY <1>3
    <3> QED
      BY <1>1, <1>4, <1>6, <2>1, <2>3, <2>4, <3>1 DEF CountInv
  <2>6. \A r \in Ranks : r # q => /\ pc'[r] = pc[r] /\ consumed'[r] = consumed[r]
                                  /\ drawn'[r] = drawn[r] /\ fetched'[r] = fetched[r]
                                  /\ handed'[r] = handed[r]
    BY <1>1, <1>2, <2>1 DEF BatchTypes
  <2> QED
    BY <1>1, <1>5, <2>2, <2>5, <2>6, OneRankSamples
<1>8. CASE ~setup.repeat
  <2>1. pc' = [pc EXCEPT ![q] = "ended"] /\ UNCHANGED <<consumed, drawn>>
    BY <1>8 DEF EndEpoch
  <2>2. BatchTypes'
    BY <1>1, <1>2, <2>1 DEF BatchTypes
  <2>3. pc'[q] = "ended"
    BY <2>1 DEF CacheTypes
  <2>4. CountInv(q)'
    BY <1>6, <2>3 DEF CountInv
  <2>5. \A r \in Ranks : r # q => /\ pc'[r] = pc[r] /\ consumed'[r] = consumed[r]
                                  /\ drawn'[r] = drawn[r] /\ fetched'[r] = fetched[r]
                                  /\ handed'[r] = handed[r]
    BY <1>1, <2>1 DEF CacheTypes
  <2> QED
    BY <1>1, <1>5, <2>2, <2>4, <2>5, OneRankSamples
<1> QED
  BY <1>7, <1>8

LEMMA BatchSave ==
  ASSUME SizesOK, CacheTypes, BatchInv, SaveState
  PROVE  BatchInv'
<1>1. /\ \A r \in Ranks : pc[r] = "training" /\ Len(handed[r]) = Len(handed[0])
      /\ checkpoint' = [consumed |-> consumed, steps |-> Len(handed[0])]
      /\ UNCHANGED <<pc, consumed, drawn, fetched, handed>>
  BY DEF SaveState
<1>2. BatchTypes /\ \A r \in Ranks : HandedInv(r) /\ CountInv(r)
  BY DEF BatchInv
<1>3. 0 \in Ranks /\ MaxSteps \in Nat
  BY Sizes
<1>4. checkpoint'.consumed = consumed /\ checkpoint'.steps = Len(handed[0])
  BY <1>1
<1>5. Len(handed[0]) \in 0 .. MaxSteps
  BY <1>2, <1>3 DEF BatchTypes, HandedInv
<1>6. BatchTypes'
  BY <1>1, <1>2, <1>5 DEF BatchTypes
<1>7. ASSUME NEW r \in Ranks PROVE HandedInv(r)' /\ CountInv(r)'
  <2>1. pc[r] = "training" /\ Len(handed[r]) = Len(handed[0]) /\ HandedInv(r) /\ CountInv(r)
        /\ Len(handed[r]) \in Nat
    BY <1>1, <1>2 DEF BatchTypes
  <2>2. HandedInv(r)'
    BY <1>1, <1>4, <2>1 DEF HandedInv
  <2>3. CountInv(r)'
    BY <1>1, <1>4, <2>1 DEF CountInv
  <2> QED
    BY <2>2, <2>3
<1> QED
  BY <1>6, <1>7 DEF BatchInv

LEMMA BatchRestart ==
  ASSUME SizesOK, CacheTypes, BatchInv, RestartJob
  PROVE  BatchInv'
<1>1. /\ pc' = [r \in Ranks |-> "start"]
      /\ consumed' = [r \in Ranks |-> 0] /\ drawn' = [r \in Ranks |-> 0]
      /\ fetched' = [r \in Ranks |-> << >>]
      /\ handed' = [r \in Ranks |-> SubSeq(handed[r], 1, checkpoint.steps)]
      /\ checkpoint' = checkpoint
  BY DEF RestartJob
<1>2. BatchTypes /\ \A r \in Ranks : HandedInv(r) /\ CountInv(r)
  BY DEF BatchInv
<1>3. Usable \in Nat
  BY Sizes
<1>4. ASSUME NEW r \in Ranks
      PROVE  /\ handed'[r] \in Seq(SUBSET (0 .. Samples - 1))
             /\ Len(handed'[r]) = checkpoint.steps
             /\ \A i \in 1 .. checkpoint.steps : handed'[r][i] = handed[r][i]
  <2>1. /\ handed[r] \in Seq(SUBSET (0 .. Samples - 1)) /\ checkpoint.steps \in Nat
        /\ checkpoint.steps <= Len(handed[r])
    BY <1>2 DEF BatchTypes, HandedInv
  <2>2. handed'[r] = SubSeq(handed[r], 1, checkpoint.steps)
    BY <1>1
  <2>3. \A i \in 1 .. checkpoint.steps : handed[r][i] \in SUBSET (0 .. Samples - 1)
    BY <2>1, ElementOfSeq
  <2> QED
    BY <2>1, <2>2, <2>3
<1>5. BatchTypes'
  <2>1. handed' \in [Ranks -> Seq(SUBSET (0 .. Samples - 1))]
    <3>1. DOMAIN handed' = Ranks /\ handed' = [r \in Ranks |-> handed'[r]]
      BY <1>1
    <3> QED
      BY <1>4, <3>1
  <2> QED
    BY <1>1, <1>2, <1>3, <2>1 DEF BatchTypes
<1>6. ASSUME NEW r \in Ranks PROVE HandedInv(r)' /\ CountInv(r)'
  <2>1. HandedInv(r) /\ CountInv(r) /\ checkpoint.steps \in 0 .. MaxSteps /\ Len(handed[r]) \in Nat
    BY <1>2 DEF BatchTypes
  <2>2. HandedInv(r)'
    BY <1>1, <1>4, <2>1 DEF HandedInv
  <2>3. CountInv(r)'
    BY <1>1, <1>4, <2>1 DEF CountInv
  <2> QED
    BY <2>2, <2>3
<1> QED
  BY <1>5, <1>6 DEF BatchInv

LEMMA BatchStep ==
  ASSUME SizesOK, CacheTypes, BatchInv, [Next]_vars
  PROVE  BatchInv'
<1>1. CASE UNCHANGED vars
  BY <1>1, BatchBuild DEF vars
<1>2. ASSUME NEW q \in Ranks,
             FindCache(q) \/ OpenFile(q) \/ CloseFile(q) \/ LoadIndices(q)
      PROVE  BatchInv'
  <2>1. /\ UNCHANGED <<consumed, drawn, fetched, handed, checkpoint>>
        /\ pc[q] \in {"start", "write", "writing", "load"}
        /\ \E p \in {"barrier", "load", "write", "writing", "failed", "built"} :
             pc' = [pc EXCEPT ![q] = p]
    BY <1>2 DEF FindCache, OpenFile, CloseFile, LoadIndices
  <2>2. \A r \in Ranks : \/ pc'[r] = pc[r]
                         \/ /\ pc[r] \notin {"training", "asking", "ended"}
                            /\ pc'[r] \notin {"training", "asking", "ended"}
    BY <2>1 DEF CacheTypes
  <2> QED
    BY <2>1, <2>2, BatchBuild
<1>3. ASSUME NEW q \in Ranks,
             StartIterating(q) \/ Fetch(q) \/ AskBatch(q) \/ HandOver(q) \/ EndEpoch(q)
      PROVE  BatchInv'
  BY <1>3, BatchStart, BatchFetch, BatchAsk, BatchHandOver, BatchEndEpoch
<1>4. CASE Barrier
  <2>1. /\ UNCHANGED <<consumed, drawn, fetched, handed, checkpoint>>
        /\ \A r \in Ranks : pc[r] = "barrier" /\ pc'[r] \in {"built", "load"}
    BY <1>4 DEF Barrier
  <2> QED
    BY <2>1, BatchBuild
<1>5. CASE SaveState
  BY <1>5, BatchSave
<1>6. CASE RestartJob
  BY <1>6, BatchRestart
<1> QED
  BY <1>1, <1>2, <1>3, <1>4, <1>5, <1>6 DEF Next

-------------------------------------------------------------------------------
(* In every epoch each usable sample goes to one rank in one step.         *)

LEMMA BatchImplies ==
  ASSUME SizesOK, BatchInv
  PROVE  SamplesOnce
<1>1. GlobalBatch \in Nat \ {0} /\ StepsPerEpoch \in Nat \ {0}
  BY Sizes
<1>2. ASSUME NEW r \in Ranks, NEW i \in DOMAIN handed[r]
      PROVE  /\ i - 1 \in Nat
             /\ handed[r][i] = Slice(r, StartOf(i - 1))
             /\ Cardinality(handed[r][i]) = MicroBatch
             /\ handed[r][i] \subseteq 0 .. Usable - 1
  <2>1. i \in 1 .. Len(handed[r]) /\ Len(handed[r]) \in Nat
    BY DEF BatchInv, BatchTypes
  <2>2. i - 1 \in Nat /\ handed[r][i] = Slice(r, StartOf(i - 1))
    BY <2>1 DEF BatchInv, HandedInv, BatchAt
  <2>3. StartOf(i - 1) \in Nat /\ StartOf(i - 1) + GlobalBatch <= Usable
    BY <2>2, StartType
  <2> QED
    BY <2>2, <2>3, SliceInside
<1>3. ASSUME NEW r \in Ranks, NEW q \in Ranks, NEW i \in DOMAIN handed[r], NEW j \in DOMAIN handed[q],
             EpochOf(i) = EpochOf(j), <<r, i>> # <<q, j>>
      PROVE  handed[r][i] \cap handed[q][j] = {}
  <2> DEFINE k == (i - 1) % StepsPerEpoch
             l == (j - 1) % StepsPerEpoch
  <2>1. i - 1 \in Nat /\ j - 1 \in Nat
    BY <1>2
  <2>2. k \in Nat /\ l \in Nat
    BY <1>1, <2>1, Quotients
  <2>3. k # l \/ r # q
    <3>1. SUFFICES ASSUME k = l, r = q PROVE FALSE
      OBVIOUS
    <3>2. /\ i - 1 = StepsPerEpoch * ((i - 1) \div StepsPerEpoch) + k
          /\ j - 1 = StepsPerEpoch * ((j - 1) \div StepsPerEpoch) + l
      BY <1>1, <2>1, Quotients
    <3>3. (i - 1) \div StepsPerEpoch = (j - 1) \div StepsPerEpoch
      BY <1>3 DEF EpochOf
    <3>4. i - 1 = j - 1
      BY <3>1, <3>2, <3>3
    <3>5. i \in Int /\ j \in Int
      <4>1. i \in 1 .. Len(handed[r]) /\ j \in 1 .. Len(handed[q])
        BY DEF BatchInv, BatchTypes
      <4> QED
        BY <4>1
    <3> QED
      BY <1>3, <3>1, <3>4, <3>5
  <2> HIDE DEF k, l
  <2>4. Slice(r, k * GlobalBatch) \cap Slice(q, l * GlobalBatch) = {}
    BY <2>2, <2>3, SlicesDisjoint
  <2> QED
    BY <1>2, <2>4 DEF StartOf, k, l
<1> QED
  BY <1>2, <1>3 DEF SamplesOnce

-------------------------------------------------------------------------------
(* The global batches are one sequence, resumed after every restart.       *)

LEMMA ShortestIs ==
  ASSUME SizesOK, NEW h, \A r \in Ranks : Len(h[r]) \in Nat
  PROVE  /\ Shortest(h) \in Nat
         /\ \A r \in Ranks : Shortest(h) <= Len(h[r])
         /\ \E r \in Ranks : Shortest(h) = Len(h[r])
<1> DEFINE lengths == {Len(h[r]) : r \in Ranks}
<1>1. lengths \in SUBSET Nat /\ lengths # {}
  BY Sizes
<1>2. IsWellFoundedOn(OpToRel(<, Nat), Nat)
  BY NatLessThanWellFounded
<1> HIDE DEF lengths
<1>3. PICK x \in lengths : \A y \in lengths : ~ (<<y, x>> \in OpToRel(<, Nat))
  BY <1>1, <1>2, WFMin
<1>4. \A y \in lengths : x =< y
  <2>1. \A y \in lengths : ~ (y < x)
    BY <1>1, <1>3 DEF OpToRel
  <2> QED
    BY <1>1, <2>1
<1>5. Min(lengths) \in lengths /\ \A y \in lengths : Min(lengths) =< y
  BY <1>4 DEF Min
<1>6. Shortest(h) = Min(lengths)
  BY DEF Shortest, lengths
<1> QED
  BY <1>1, <1>5, <1>6 DEF lengths

LEMMA HandedLengths ==
  ASSUME BatchInv, NEW r \in Ranks
  PROVE  Len(handed[r]) \in Nat /\ checkpoint.steps \in Nat /\ checkpoint.steps <= Len(handed[r])
BY DEF BatchInv, BatchTypes, HandedInv

(* What every rank was handed are the first batches.                       *)
LEMMA BatchesInOrder ==
  ASSUME SizesOK, NEW h,
         \A r \in Ranks : Len(h[r]) \in Nat,
         \A r \in Ranks : \A i \in 1 .. Len(h[r]) : h[r][i] = BatchAt(r, i - 1)
  PROVE  /\ Shortest(h) \in Nat
         /\ GlobalBatches(h) = FirstBatches(Shortest(h))
<1>1. /\ Shortest(h) \in Nat /\ \A r \in Ranks : Shortest(h) <= Len(h[r])
  BY ShortestIs
<1>2. ASSUME NEW i \in 1 .. Shortest(h), NEW r \in Ranks
      PROVE  h[r][i] = BatchAt(r, i - 1)
  <2>1. i \in 1 .. Len(h[r])
    BY <1>1
  <2> QED
    BY <2>1
<1>3. GlobalBatches(h) = [i \in 1 .. Shortest(h) |-> [r \in Ranks |-> h[r][i]]]
  BY DEF GlobalBatches, Shortest
<1> QED
  BY <1>1, <1>2, <1>3 DEF FirstBatches

LEMMA HandedInOrder ==
  ASSUME SizesOK, BatchInv
  PROVE  /\ Shortest(handed) \in Nat
         /\ GlobalBatches(handed) = FirstBatches(Shortest(handed))
<1>1. \A r \in Ranks : \A i \in 1 .. Len(handed[r]) : handed[r][i] = BatchAt(r, i - 1)
  BY DEF BatchInv, HandedInv
<1> QED
  BY <1>1, HandedLengths, BatchesInOrder

LEMMA FirstBatchesOf ==
  ASSUME NEW n \in Nat, NEW m \in 0 .. n
  PROVE  Len(FirstBatches(n)) = n /\ SubSeq(FirstBatches(n), 1, m) = FirstBatches(m)
<1>1. Len(FirstBatches(n)) = n
  BY DEF FirstBatches
<1>2. \A i \in 1 .. m : FirstBatches(n)[i] = FirstBatches(m)[i]
  BY DEF FirstBatches
<1>3. SubSeq(FirstBatches(n), 1, m) = [i \in 1 .. m |-> FirstBatches(n)[i]]
  BY <1>1
<1>4. FirstBatches(m) = [i \in 1 .. m |-> FirstBatches(m)[i]]
  BY DEF FirstBatches
<1> QED
  BY <1>1, <1>2, <1>3, <1>4

LEMMA HistoryInit == ASSUME SizesOK, Init PROVE HistoryInv
<1>1. \A r \in Ranks : handed[r] = << >>
  BY DEF Init
<1>2. PICK r \in Ranks : Shortest(handed) = Len(handed[r])
  BY <1>1, ShortestIs
<1>3. Shortest(handed) = 0
  BY <1>1, <1>2
<1>4. history = << >> /\ Len(history) = 0
  BY DEF Init
<1>5. FirstBatches(0) = << >>
  BY DEF FirstBatches
<1> QED
  BY <1>3, <1>4, <1>5 DEF HistoryInv

(* The global batches grow by at most one when a rank is handed its own.   *)
LEMMA ShortestGrows ==
  ASSUME SizesOK, NEW h, NEW k, NEW q \in Ranks,
         \A r \in Ranks : Len(h[r]) \in Nat,
         \A r \in Ranks : Len(k[r]) = IF r = q THEN Len(h[r]) + 1 ELSE Len(h[r])
  PROVE  Shortest(k) \in {Shortest(h), Shortest(h) + 1}
<1>1. /\ Shortest(h) \in Nat
      /\ \A r \in Ranks : Shortest(h) <= Len(h[r])
      /\ \E r \in Ranks : Shortest(h) = Len(h[r])
  BY ShortestIs
<1>2. /\ Shortest(k) \in Nat
      /\ \A r \in Ranks : Shortest(k) <= Len(k[r])
      /\ \E r \in Ranks : Shortest(k) = Len(k[r])
  <2>1. \A r \in Ranks : Len(k[r]) \in Nat
    OBVIOUS
  <2> QED
    BY <2>1, ShortestIs
<1> QED
  BY <1>1, <1>2

Stream ==
  INSTANCE ResumableStream WITH
    out <- GlobalBatches(handed), seen <- history, saved <- checkpoint.steps

LEMMA StreamHandOver ==
  ASSUME SizesOK, CacheTypes, BatchInv, BatchInv', HistoryInv, NEW q \in Ranks, HandOver(q)
  PROVE  /\ HistoryInv'
         /\ Stream!Deliver \/ UNCHANGED <<GlobalBatches(handed), history, checkpoint.steps>>
<1> DEFINE n == Shortest(handed)
           m == Shortest(handed')
           l == Len(history)
<1>1. n \in Nat /\ GlobalBatches(handed) = FirstBatches(n)
  BY HandedInOrder
<1>2. \A r \in Ranks : Len(handed'[r]) = IF r = q THEN Len(handed[r]) + 1 ELSE Len(handed[r])
  BY AppendProperties DEF HandOver, BatchInv, BatchTypes
<1>3. m \in Nat /\ GlobalBatches(handed') = FirstBatches(m)
  <2>1. \A r \in Ranks : Len(handed'[r]) \in Nat
    BY <1>2, HandedLengths
  <2>2. \A r \in Ranks : \A i \in 1 .. Len(handed'[r]) : handed'[r][i] = BatchAt(r, i - 1)
    BY DEF BatchInv, HandedInv
  <2> QED
    BY <2>1, <2>2, BatchesInOrder
<1>4. m \in {n, n + 1}
  BY <1>2, HandedLengths, ShortestGrows
<1>5. l \in Nat /\ history = FirstBatches(l) /\ n <= l
  BY DEF HistoryInv
<1>6. history' = IF Len(FirstBatches(m)) > l THEN FirstBatches(m) ELSE history
  BY <1>3 DEF HandOver
<1>7. Len(FirstBatches(m)) = m /\ Len(FirstBatches(n)) = n
  BY <1>1, <1>3, FirstBatchesOf
<1>8. GlobalBatches(handed)' = FirstBatches(m) /\ Shortest(handed)' = m
  BY <1>3 DEF GlobalBatches, Shortest
<1> HIDE DEF n, m, l
<1>9. HistoryInv'
  <2>1. CASE m > l
    BY <1>3, <1>6, <1>7, <1>8, <2>1 DEF HistoryInv
  <2>2. CASE ~(m > l)
    <3>1. history' = history /\ m <= l
      BY <1>3, <1>5, <1>6, <1>7, <2>2
    <3> QED
      BY <1>5, <1>8, <3>1 DEF HistoryInv, l
  <2> QED
    BY <2>1, <2>2
<1>10. CASE m = n
  <2>1. history' = history
    BY <1>1, <1>5, <1>6, <1>7, <1>10
  <2>2. GlobalBatches(handed)' = GlobalBatches(handed)
    BY <1>1, <1>8, <1>10
  <2> QED
    BY <1>9, <2>1, <2>2 DEF HandOver
<1>11. CASE m = n + 1
  <2>1. SubSeq(FirstBatches(m), 1, n) = FirstBatches(n)
    BY <1>1, <1>3, <1>11, FirstBatchesOf
  <2>2. CASE n < l
    <3>1. history' = history /\ m \in 0 .. l
      BY <1>1, <1>3, <1>5, <1>6, <1>7, <1>11, <2>2
    <3>2. SubSeq(FirstBatches(l), 1, m) = FirstBatches(m)
      BY <1>5, <3>1, FirstBatchesOf
    <3>3. checkpoint' = checkpoint
      BY DEF HandOver
    <3>4. Len(history) = l
      BY DEF l
    <3> QED
      BY <1>1, <1>5, <1>7, <1>8, <1>9, <1>11, <2>1, <2>2, <3>1, <3>2, <3>3, <3>4 DEF Stream!Deliver
  <2>3. CASE ~(n < l)
    <3>1. history' = FirstBatches(m) /\ n = l
      BY <1>1, <1>3, <1>5, <1>6, <1>7, <1>11, <2>3
    <3>2. SubSeq(FirstBatches(m), 1, m) = FirstBatches(m)
      BY <1>3, FirstBatchesOf
    <3>3. checkpoint' = checkpoint
      BY DEF HandOver
    <3>4. Len(history) = l
      BY DEF l
    <3> QED
      BY <1>1, <1>5, <1>7, <1>8, <1>9, <1>11, <2>1, <2>3, <3>1, <3>2, <3>3, <3>4 DEF Stream!Deliver
  <2> QED
    BY <2>2, <2>3
<1> QED
  BY <1>4, <1>10, <1>11

LEMMA StreamSave ==
  ASSUME SizesOK, BatchInv, HistoryInv, SaveState
  PROVE  HistoryInv' /\ Stream!Save
<1>1. /\ \A r \in Ranks : Len(handed[r]) = Len(handed[0])
      /\ checkpoint' = [consumed |-> consumed, steps |-> Len(handed[0])]
      /\ UNCHANGED <<handed, history>>
  BY DEF SaveState
<1>2. Shortest(handed) \in Nat /\ GlobalBatches(handed) = FirstBatches(Shortest(handed))
  BY HandedInOrder
<1>3. PICK r \in Ranks : Shortest(handed) = Len(handed[r])
  BY HandedLengths, ShortestIs
<1>4. Len(GlobalBatches(handed)) = Len(handed[0])
  BY <1>1, <1>2, <1>3, FirstBatchesOf
<1>5. Shortest(handed)' = Shortest(handed) /\ GlobalBatches(handed)' = GlobalBatches(handed)
  BY <1>1 DEF Shortest, GlobalBatches
<1> QED
  BY <1>1, <1>4, <1>5 DEF HistoryInv, Stream!Save

LEMMA StreamRestart ==
  ASSUME SizesOK, BatchInv, HistoryInv, RestartJob
  PROVE  HistoryInv' /\ Stream!Restart
<1> DEFINE s == checkpoint.steps
           n == Shortest(handed)
<1>1. /\ handed' = [r \in Ranks |-> SubSeq(handed[r], 1, s)]
      /\ checkpoint' = checkpoint /\ history' = history
  BY DEF RestartJob
<1>2. n \in Nat /\ GlobalBatches(handed) = FirstBatches(n)
  BY HandedInOrder
<1>3. ASSUME NEW r \in Ranks
      PROVE  /\ Len(handed'[r]) = s
             /\ \A i \in 1 .. s : handed'[r][i] = BatchAt(r, i - 1)
  <2>1. /\ handed[r] \in Seq(SUBSET (0 .. Samples - 1)) /\ s \in Nat /\ s <= Len(handed[r])
        /\ \A i \in 1 .. Len(handed[r]) : handed[r][i] = BatchAt(r, i - 1)
    BY DEF BatchInv, BatchTypes, HandedInv
  <2>2. handed'[r] = SubSeq(handed[r], 1, s)
    BY <1>1
  <2> HIDE DEF s
  <2>3. Len(handed'[r]) = s /\ \A i \in 1 .. s : handed'[r][i] = handed[r][i]
    BY <2>1, <2>2
  <2> QED
    BY <2>1, <2>3
<1>4. s \in Nat /\ s <= n
  <2>1. PICK r \in Ranks : n = Len(handed[r])
    BY HandedLengths, ShortestIs
  <2> QED
    BY <2>1, HandedLengths
<1> HIDE DEF s, n
<1>5. Shortest(handed') = s /\ GlobalBatches(handed') = FirstBatches(s)
  <2>1. Shortest(handed') = s
    BY <1>3, <1>4, ShortestIs
  <2> QED
    BY <1>3, <1>4, <2>1, BatchesInOrder
<1>6. SubSeq(FirstBatches(n), 1, s) = FirstBatches(s)
  BY <1>2, <1>4, FirstBatchesOf
<1>7. Shortest(handed)' = s /\ GlobalBatches(handed)' = FirstBatches(s)
  BY <1>5 DEF Shortest, GlobalBatches
<1>8. HistoryInv'
  BY <1>1, <1>2, <1>4, <1>7 DEF HistoryInv, n
<1> QED
  BY <1>1, <1>2, <1>6, <1>7, <1>8 DEF Stream!Restart, s

LEMMA StreamStep ==
  ASSUME SizesOK, CacheTypes, BatchInv, BatchInv', HistoryInv, [Next]_vars
  PROVE  HistoryInv' /\ [Stream!Next]_(Stream!vars)
<1>1. ASSUME UNCHANGED <<handed, history, checkpoint>>
      PROVE  HistoryInv' /\ UNCHANGED (Stream!vars)
  <2>1. Shortest(handed)' = Shortest(handed) /\ GlobalBatches(handed)' = GlobalBatches(handed)
    BY <1>1 DEF Shortest, GlobalBatches
  <2> QED
    BY <1>1, <2>1 DEF HistoryInv, Stream!vars
<1>2. CASE UNCHANGED vars
  BY <1>1, <1>2 DEF vars
<1>3. ASSUME NEW q \in Ranks,
             \/ FindCache(q) \/ OpenFile(q) \/ CloseFile(q) \/ LoadIndices(q)
             \/ StartIterating(q) \/ Fetch(q) \/ AskBatch(q) \/ EndEpoch(q)
      PROVE  UNCHANGED <<handed, history, checkpoint>>
  BY <1>3 DEF FindCache, OpenFile, CloseFile, LoadIndices, StartIterating, Fetch, AskBatch, EndEpoch
<1>4. CASE Barrier
  BY <1>1, <1>4 DEF Barrier
<1>5. ASSUME NEW q \in Ranks, HandOver(q)
      PROVE  HistoryInv' /\ [Stream!Next]_(Stream!vars)
  BY <1>5, StreamHandOver DEF Stream!Next, Stream!vars
<1>6. CASE SaveState
  BY <1>6, StreamSave DEF Stream!Next
<1>7. CASE RestartJob
  BY <1>7, StreamRestart DEF Stream!Next
<1> QED
  BY <1>1, <1>2, <1>3, <1>4, <1>5, <1>6, <1>7 DEF Next

-------------------------------------------------------------------------------
(* The theorems.                                                           *)

LoaderInv == CacheInv /\ BatchInv /\ HistoryInv

LEMMA LoaderInvInit == ASSUME SizesOK, Init PROVE LoaderInv
BY CacheInit, BatchInit, HistoryInit DEF LoaderInv

LEMMA LoaderInvStep ==
  ASSUME SizesOK, LoaderInv, [Next]_vars
  PROVE  LoaderInv' /\ [Stream!Next]_(Stream!vars)
<1>1. CacheTypes /\ CacheInv /\ BatchInv /\ HistoryInv
  BY DEF LoaderInv, CacheInv
<1>2. CacheInv'
  BY <1>1, CacheStep
<1>3. BatchInv'
  BY <1>1, BatchStep
<1>4. HistoryInv' /\ [Stream!Next]_(Stream!vars)
  BY <1>1, <1>3, StreamStep
<1> QED
  BY <1>2, <1>3, <1>4 DEF LoaderInv

LEMMA LoaderInvImplies ==
  ASSUME SizesOK, LoaderInv
  PROVE  TypeOK /\ SamplesOnce /\ FailsOnlyAfterTear
<1>1. TypeOK
  BY DEF LoaderInv, CacheInv, CacheTypes, BatchInv, BatchTypes, TypeOK
<1> QED
  BY <1>1, BatchImplies, CacheImplies DEF LoaderInv

LEMMA StreamInit ==
  ASSUME SizesOK, Init
  PROVE  Stream!Init
<1>1. BatchInv /\ HistoryInv /\ Len(history) = 0 /\ history = << >> /\ checkpoint.steps = 0
  BY BatchInit, HistoryInit DEF Init
<1>2. Shortest(handed) = 0
  BY <1>1, HandedInOrder DEF HistoryInv
<1>3. GlobalBatches(handed) = << >>
  BY <1>1, <1>2, HandedInOrder DEF FirstBatches
<1> QED
  BY <1>1, <1>3 DEF Stream!Init

LEMMA LoaderInvariant ==
  ASSUME SizesOK
  PROVE  Spec => []LoaderInv
<1>1. Init => LoaderInv
  BY LoaderInvInit
<1>2. LoaderInv /\ [Next]_vars => LoaderInv'
  BY LoaderInvStep
<1> QED
  BY <1>1, <1>2, PTL DEF Spec

(* Type correctness; in particular the counts stay inside the data, and no *)
(* rank is handed a sample that does not exist.                            *)
THEOREM TypeCorrect ==
  ASSUME SizesOK
  PROVE  Spec => []TypeOK
<1>1. LoaderInv => TypeOK
  BY LoaderInvImplies
<1> QED
  BY <1>1, LoaderInvariant, PTL

(* In every epoch each usable sample goes to one rank in one step, over any *)
(* number of restarts.                                                     *)
THEOREM SampledOnce ==
  ASSUME SizesOK
  PROVE  Spec => []SamplesOnce
<1>1. LoaderInv => SamplesOnce
  BY LoaderInvImplies
<1> QED
  BY <1>1, LoaderInvariant, PTL

(* A rank fails to load the indices only if an earlier job died while it   *)
(* wrote the last of them.                                                 *)
THEOREM FailuresAreTears ==
  ASSUME SizesOK
  PROVE  Spec => []FailsOnlyAfterTear
<1>1. LoaderInv => FailsOnlyAfterTear
  BY LoaderInvImplies
<1> QED
  BY <1>1, LoaderInvariant, PTL

(* The global batches are one fixed sequence, which every restart resumes  *)
(* after the last checkpoint: MegatronLoader implements ResumableStream.   *)
THEOREM StreamImplemented ==
  ASSUME SizesOK
  PROVE  Spec => Stream!Spec
<1>1. Init => Stream!Init
  BY StreamInit
<1>2. LoaderInv /\ [Next]_vars => [Stream!Next]_(Stream!vars)
  BY LoaderInvStep
<1> QED
  BY <1>1, <1>2, LoaderInvariant, PTL DEF Spec, Stream!Spec
===============================================================================
