-------------------------- MODULE PackedStreamProofs --------------------------
(***************************************************************************)
(* Proofs about PackedStream, for any documents, orders and configurations *)
(* and any limits of a row.                                                *)
(*                                                                         *)
(* The argument: a state of the packing iterator stands for a point of the *)
(* stream, the token that is delivered next.  get_state and set_state keep *)
(* the point, reading and cutting documents moves it over no token, and a  *)
(* row leads from the point of the state before it to that of the state    *)
(* after it.  So the rows delivered, queued and in the making form a chain *)
(* of points, and a restart goes back to a point on that chain.  Only one  *)
(* row can follow a point, so the rows after a restart are the rows that   *)
(* were delivered before it: they are one fixed sequence.                  *)
(***************************************************************************)
EXTENDS PackedStream, TLAPS, SequenceTheorems, WellFoundedInduction

-------------------------------------------------------------------------------
(* The slices of the ranks partition the dataset and differ in size by at  *)
(* most one row, for any number of rows and ranks.                         *)

(* divmod.                                                                 *)
LEMMA Division ==
  ASSUME NEW rows \in Nat, NEW world \in Nat \ {0}
  PROVE  /\ BaseSize(rows, world) \in Nat
         /\ Remainder(rows, world) \in 0 .. world - 1
         /\ rows = world * BaseSize(rows, world) + Remainder(rows, world)
BY DEF BaseSize, Remainder

LEMMA MultiplesApart ==
  ASSUME NEW a \in Nat, NEW b \in Nat, NEW s \in Nat, a < b
  PROVE  a * s + s <= b * s
<1>1. PICK k \in Nat : b = a + 1 + k
  OBVIOUS
<1>2. b * s = a * s + s + k * s
  BY <1>1
<1>3. k * s >= 0
  OBVIOUS
<1> QED
  BY <1>2, <1>3

LEMMA Quotient ==
  ASSUME NEW i \in Nat, NEW s \in Nat \ {0}
  PROVE  i \div s \in Nat /\ (i \div s) * s <= i /\ i < (i \div s) * s + s
OBVIOUS

LEMMA QuotientLess ==
  ASSUME NEW q \in Nat, NEW n \in Nat, NEW s \in Nat, q * s < n * s
  PROVE  q < n
OBVIOUS

(* The slices follow each other.                                           *)
LEMMA ShardsInOrder ==
  ASSUME NEW rows \in Nat, NEW world \in Nat \ {0},
         NEW r \in 0 .. world - 1, NEW q \in 0 .. world - 1, r < q
  PROVE  ShardStop(rows, world, r) <= ShardStart(rows, world, q)
<1> DEFINE s == BaseSize(rows, world)
           m == Remainder(rows, world)
<1>1. s \in Nat /\ m \in Nat
  BY Division
<1>2. r * s + s <= q * s
  BY <1>1, MultiplesApart
<1>3. r * s \in Nat /\ q * s \in Nat
  BY <1>1
<1> HIDE DEF s, m
<1>4. SmallerOf(r, m) + (IF r < m THEN 1 ELSE 0) <= SmallerOf(q, m)
  BY <1>1 DEF SmallerOf
<1>5. /\ ShardStop(rows, world, r) = r * s + SmallerOf(r, m) + s + (IF r < m THEN 1 ELSE 0)
      /\ ShardStart(rows, world, q) = q * s + SmallerOf(q, m)
  BY DEF ShardStop, ShardStart, s, m
<1>6. SmallerOf(r, m) \in Nat /\ SmallerOf(q, m) \in Nat
  BY <1>1 DEF SmallerOf
<1> QED
  BY <1>1, <1>2, <1>3, <1>4, <1>5, <1>6

(* Every rank has as many rows as the others, or one more; at least one when *)
(* the build does not refuse the dataset.                                  *)
THEOREM ShardsBalanced ==
  ASSUME NEW rows \in Nat, NEW world \in Nat \ {0}, NEW r \in 0 .. world - 1
  PROVE  /\ ShardStart(rows, world, r) \in Nat
         /\ ShardStop(rows, world, r) - ShardStart(rows, world, r)
              \in {BaseSize(rows, world), BaseSize(rows, world) + 1}
         /\ world <= rows => BaseSize(rows, world) >= 1
<1> DEFINE s == BaseSize(rows, world)
           m == Remainder(rows, world)
<1>1. s \in Nat /\ m \in 0 .. world - 1 /\ rows = world * s + m
  BY Division
<1> HIDE DEF s, m
<1>2. SmallerOf(r, m) \in Nat /\ r * s \in Nat
  BY <1>1 DEF SmallerOf
<1>3. /\ ShardStop(rows, world, r)
           = r * s + SmallerOf(r, m) + s + (IF r < m THEN 1 ELSE 0)
      /\ ShardStart(rows, world, r) = r * s + SmallerOf(r, m)
  BY DEF ShardStop, ShardStart, s, m
<1>4. world <= rows => s >= 1
  <2>1. s = 0 => rows = m
    BY <1>1
  <2> QED
    BY <1>1, <2>1
<1> QED
  BY <1>1, <1>2, <1>3, <1>4 DEF s

(* The slices of the ranks are disjoint and make up the dataset: in an epoch *)
(* every row is read by exactly one rank.                                  *)
THEOREM ShardsPartition ==
  ASSUME NEW rows \in Nat, NEW world \in Nat \ {0}
  PROVE  /\ \A r, q \in 0 .. world - 1 :
              r # q => Shard(rows, world, r) \cap Shard(rows, world, q) = {}
         /\ UNION {Shard(rows, world, r) : r \in 0 .. world - 1} = 0 .. rows - 1
<1> DEFINE s == BaseSize(rows, world)
           m == Remainder(rows, world)
<1>1. s \in Nat /\ m \in 0 .. world - 1 /\ rows = world * s + m
  BY Division
<1> HIDE DEF s, m
<1>2. \A r \in 0 .. world - 1 :
        /\ ShardStart(rows, world, r) = r * s + SmallerOf(r, m)
        /\ ShardStop(rows, world, r)
             = r * s + SmallerOf(r, m) + s + (IF r < m THEN 1 ELSE 0)
        /\ r * s \in Nat /\ SmallerOf(r, m) \in Nat
  BY <1>1 DEF ShardStop, ShardStart, s, m, SmallerOf
<1>3. \A r, q \in 0 .. world - 1 :
        r # q => Shard(rows, world, r) \cap Shard(rows, world, q) = {}
  <2> SUFFICES ASSUME NEW r \in 0 .. world - 1, NEW q \in 0 .. world - 1, r < q
               PROVE  Shard(rows, world, r) \cap Shard(rows, world, q) = {}
    OBVIOUS
  <2>1. ShardStop(rows, world, r) <= ShardStart(rows, world, q)
    BY ShardsInOrder
  <2> QED
    BY <1>1, <1>2, <2>1 DEF Shard
<1>4. \A r \in 0 .. world - 1 : Shard(rows, world, r) \subseteq 0 .. rows - 1
  <2> SUFFICES ASSUME NEW r \in 0 .. world - 1
               PROVE  0 <= ShardStart(rows, world, r) /\ ShardStop(rows, world, r) <= rows
    BY <1>1, <1>2 DEF Shard
  <2>1. r * s + s <= world * s /\ world * s \in Nat
    BY <1>1, MultiplesApart
  <2>2. SmallerOf(r, m) + (IF r < m THEN 1 ELSE 0) <= m
    BY <1>1 DEF SmallerOf
  <2> QED
    BY <1>1, <1>2, <2>1, <2>2
<1>5. ASSUME NEW i \in 0 .. rows - 1
      PROVE  \E r \in 0 .. world - 1 : i \in Shard(rows, world, r)
  <2>1. m * (s + 1) = m * s + m /\ m * s \in Nat
    BY <1>1
  <2>2. CASE i < m * (s + 1)
    <3> DEFINE r == i \div (s + 1)
    <3>1. r \in Nat /\ r * (s + 1) <= i /\ i < r * (s + 1) + (s + 1)
      <4>1. s + 1 \in Nat \ {0} /\ i \in Nat
        BY <1>1
      <4> QED
        BY <4>1, Quotient
    <3> HIDE DEF r
    <3>2. r < m
      BY <1>1, <2>2, <3>1, QuotientLess
    <3>3. r \in 0 .. world - 1 /\ SmallerOf(r, m) = r /\ r * (s + 1) = r * s + r
      BY <1>1, <3>1, <3>2 DEF SmallerOf
    <3>4. i \in Shard(rows, world, r)
      BY <1>1, <1>2, <3>1, <3>2, <3>3 DEF Shard
    <3> QED
      BY <3>3, <3>4
  <2>3. CASE i >= m * (s + 1)
    <3> DEFINE j == i - m * (s + 1)
               k == j \div s
               r == m + k
    <3>1. j \in Nat /\ j < world * s - m * s
      BY <1>1, <2>1, <2>3
    <3>2. world * s - m * s = (world - m) * s /\ world - m \in Nat
      BY <1>1
    <3>3. s # 0
      BY <1>1, <3>1, <3>2
    <3> HIDE DEF j
    <3>4. k \in Nat /\ k * s <= j /\ j < k * s + s
      BY <1>1, <3>1, <3>3, Quotient
    <3> HIDE DEF k
    <3>5. k < world - m
      <4>1. k * s < (world - m) * s
        BY <1>1, <3>1, <3>2, <3>4
      <4> QED
        BY <1>1, <3>2, <3>4, <4>1, QuotientLess
    <3>6. r \in 0 .. world - 1 /\ ~(r < m) /\ SmallerOf(r, m) = m /\ r * s = m * s + k * s
      BY <1>1, <3>4, <3>5 DEF SmallerOf
    <3>7. i = m * s + m + j
      BY <1>1, <2>1 DEF j
    <3> HIDE DEF r
    <3>8. /\ ShardStart(rows, world, r) = m * s + k * s + m
          /\ ShardStop(rows, world, r) = m * s + k * s + m + s
      BY <1>1, <1>2, <3>4, <3>6
    <3>9. i \in Shard(rows, world, r)
      BY <1>1, <2>1, <3>1, <3>4, <3>7, <3>8 DEF Shard
    <3> QED
      BY <3>6, <3>9
  <2> QED
    BY <1>1, <2>1, <2>2, <2>3
<1> QED
  BY <1>3, <1>4, <1>5

-----------------------------------------------------------------------------
(* The source.                                                             *)

-------------------------------------------------------------------------------
(* The packed stream of one rank.  First, what a configuration is.         *)
LEMMA ConfigType ==
  ASSUME config \in Configs
  PROVE  /\ Len(Documents) \in Nat
         /\ config.world \in Nat \ {0} /\ config.rank \in 0 .. config.world - 1
         /\ config.world <= Len(Documents)
<1>1. Len(Documents) \in Nat
  BY PackedStreamAssumption
<1>2. config \in [streaming : BOOLEAN, repeat : BOOLEAN, world : Nat, rank : Nat]
  BY PackedStreamAssumption
<1>3. config.rank < config.world /\ config.world <= Len(Documents)
  BY PackedStreamAssumption
<1> QED
  BY <1>1, <1>2, <1>3

(* A rank has at least one row.                                            *)
LEMMA RankHasRows ==
  ASSUME config \in Configs
  PROVE  RankSize \in Nat \ {0}
<1>1. CASE config.streaming
  <2> DEFINE n == Len(Documents) - config.rank + config.world - 1
  <2>1. n \in Nat /\ n >= config.world
    BY ConfigType
  <2>2. n \div config.world \in Nat
        /\ n < (n \div config.world) * config.world + config.world
    BY <2>1, ConfigType, Quotient
  <2>3. n \div config.world # 0
    BY <2>1, <2>2, ConfigType
  <2> QED
    BY <1>1, <2>2, <2>3 DEF RankSize
<1>2. CASE ~config.streaming
  <2>1. BaseSize(Len(Documents), config.world) \in Nat
    BY ConfigType, Division
  <2>2. /\ ShardStop(Len(Documents), config.world, config.rank)
             - ShardStart(Len(Documents), config.world, config.rank)
             \in {BaseSize(Len(Documents), config.world),
                  BaseSize(Len(Documents), config.world) + 1}
        /\ BaseSize(Len(Documents), config.world) >= 1
    BY ConfigType, ShardsBalanced
  <2> QED
    BY <1>2, <2>1, <2>2 DEF RankSize
<1> QED
  BY <1>1, <1>2

LEMMA StripeInside ==
  ASSUME NEW rows \in Nat, NEW w \in Nat \ {0}, NEW k \in 0 .. w - 1, w <= rows,
         NEW n \in 0 .. ((rows - k + w - 1) \div w) - 1
  PROVE  k + n * w \in 0 .. rows - 1
<1> DEFINE m == rows - k + w - 1
<1>1. m \in Nat
  OBVIOUS
<1>2. m \div w \in Nat /\ (m \div w) * w <= m
  BY <1>1, Quotient
<1>3. n * w + w <= (m \div w) * w
  BY <1>1, <1>2, MultiplesApart
<1>4. n * w \in Nat /\ (m \div w) * w \in Nat
  BY <1>2
<1> QED
  BY <1>2, <1>3, <1>4

LEMMA SliceInside ==
  ASSUME NEW rows \in Nat, NEW w \in Nat \ {0}, NEW k \in 0 .. w - 1,
         NEW n \in 0 .. ShardStop(rows, w, k) - ShardStart(rows, w, k) - 1
  PROVE  ShardStart(rows, w, k) + n \in 0 .. rows - 1
<1>1. ShardStart(rows, w, k) \in Nat /\ BaseSize(rows, w) \in Nat
  BY ShardsBalanced, Division
<1>2. ShardStop(rows, w, k) \in Int
  BY <1>1 DEF ShardStop
<1>3. ShardStart(rows, w, k) + n \in Shard(rows, w, k)
  BY <1>1, <1>2 DEF Shard
<1>4. Shard(rows, w, k) \subseteq 0 .. rows - 1
  BY ShardsPartition
<1> QED
  BY <1>3, <1>4

LEMMA DocumentType ==
  ASSUME config \in Configs, NEW p \in Places
  PROVE  DocumentAt(p) \in [len : Nat, starts : SUBSET Nat]
<1>1. p.epoch \in Nat /\ p.next \in 0 .. RankSize - 1
  BY DEF Places
<1>2. RowIndex(p.next) \in 0 .. Len(Documents) - 1
  <2>1. CASE config.streaming
    BY <1>1, <2>1, ConfigType, StripeInside DEF RankSize, RowIndex
  <2>2. CASE ~config.streaming
    BY <1>1, <2>2, ConfigType, SliceInside DEF RankSize, RowIndex
  <2> QED
    BY <2>1, <2>2
<1>3. RowIndex(p.next) + 1 \in Indices
  BY <1>2, ConfigType DEF Indices
<1>4. Order(p.epoch) \in [Indices -> Indices]
  <2>1. Orders \in Seq([Indices -> Indices]) /\ Orders # << >>
    BY PackedStreamAssumption
  <2>2. Len(Orders) \in Nat \ {0}
    BY <2>1, EmptySeq
  <2>3. (p.epoch % Len(Orders)) + 1 \in 1 .. Len(Orders)
    BY <1>1, <2>2
  <2> QED
    BY <2>1, <2>3, ElementOfSeq DEF Order
<1>5. \A i \in Indices : Documents[i] \in [len : Nat, starts : SUBSET Nat]
  BY PackedStreamAssumption, ElementOfSeq DEF Indices
<1>6. DocumentAt(p) \in [len : Nat, starts : SUBSET Nat]
  <2>1. CASE config.streaming
    BY <1>3, <1>5, <2>1 DEF DocumentAt
  <2>2. CASE ~config.streaming
    BY <1>3, <1>4, <1>5, <2>2 DEF DocumentAt
  <2> QED
    BY <2>1, <2>2
<1> QED
  BY <1>6

(* Without repetition the source stays in its first epoch.                 *)
CursorOK(c) == c \in Cursors /\ (~config.repeat => c.epoch = 0)

(* The next place to read, and the cursor after it.                        *)
LEMMA SourceSteps ==
  ASSUME config \in Configs
  PROVE  /\ FirstPlace \in Places /\ CursorOK(FirstPlace) /\ Rolled(FirstPlace) = FirstPlace
         /\ \A c \in Cursors : Rolled(c) \in Places
         /\ \A c : CursorOK(c) /\ ~SourceEnded(c) => CursorOK(CursorAfter(Rolled(c)))
         /\ \A p \in Places :
              /\ Rolled(CursorAfter(p)) \in Places
              /\ Before(p, Rolled(CursorAfter(p)))
              /\ \A d \in Places : ~(Before(p, d) /\ Before(d, Rolled(CursorAfter(p))))
<1>1. RankSize \in Nat \ {0}
  BY RankHasRows
<1> HIDE DEF RankSize
<1>2. FirstPlace \in Places /\ CursorOK(FirstPlace) /\ Rolled(FirstPlace) = FirstPlace
  BY <1>1 DEF FirstPlace, Places, CursorOK, Cursors, Rolled
<1>3. \A c \in Cursors : Rolled(c) \in Places
  BY <1>1 DEF Cursors, Places, Rolled
<1>4. ASSUME NEW c, CursorOK(c), ~SourceEnded(c)
      PROVE  CursorOK(CursorAfter(Rolled(c)))
  <2>1. /\ c \in [epoch : Nat, next : 0 .. RankSize]
        /\ ~config.repeat => c.epoch = 0 /\ c.next # RankSize
    BY <1>4 DEF CursorOK, Cursors, SourceEnded
  <2> QED
    BY <1>1, <2>1 DEF CursorOK, Cursors, CursorAfter, Rolled
<1>5. ASSUME NEW p \in Places
      PROVE  /\ Rolled(CursorAfter(p)) \in Places
             /\ Before(p, Rolled(CursorAfter(p)))
             /\ \A d \in Places : ~(Before(p, d) /\ Before(d, Rolled(CursorAfter(p))))
  <2>1. p \in [epoch : Nat, next : 0 .. RankSize - 1]
    BY DEF Places
  <2>2. Rolled(CursorAfter(p)) = IF p.next + 1 = RankSize
                                 THEN [epoch |-> p.epoch + 1, next |-> 0]
                                 ELSE [epoch |-> p.epoch, next |-> p.next + 1]
    BY <1>1, <2>1 DEF CursorAfter, Rolled
  <2> QED
    BY <1>1, <2>1, <2>2 DEF Places, Before
<1> QED
  BY <1>2, <1>3, <1>4, <1>5

-----------------------------------------------------------------------------
(* Points.                                                                 *)

Points == [doc : Places, offset : Nat]

LEMMA JoinedTransitive ==
  ASSUME config \in Configs, NEW p \in Points, NEW q \in Points, NEW r \in Points,
         Joined(p, q), Joined(q, r)
  PROVE  Joined(p, r)
<1>1. RankSize \in Nat \ {0}
  BY RankHasRows
<1> HIDE DEF RankSize
<1>2. CASE p = q \/ q = r
  BY <1>2
<1>3. CASE p # q /\ q # r
  <2>1. /\ Before(p.doc, q.doc) /\ p.offset = DocumentAt(p.doc).len /\ q.offset = 0
        /\ Before(q.doc, r.doc) /\ q.offset = DocumentAt(q.doc).len /\ r.offset = 0
    BY <1>3 DEF Joined
  <2>2. p.doc \in Places /\ q.doc \in Places /\ r.doc \in Places
    BY DEF Points
  <2>3. Before(p.doc, r.doc)
    BY <1>1, <2>1, <2>2 DEF Before, Places
  <2>4. ASSUME NEW d \in [epoch : p.doc.epoch .. r.doc.epoch, next : 0 .. RankSize - 1],
               Before(p.doc, d), Before(d, r.doc)
        PROVE  DocumentAt(d).len = 0
    <3>1. d.epoch \in Nat /\ d.next \in 0 .. RankSize - 1
      BY <2>2 DEF Places
    <3>2. CASE d = q.doc
      BY <2>1, <3>2
    <3>3. CASE d # q.doc
      <4>1. Before(d, q.doc) \/ Before(q.doc, d)
        BY <1>1, <2>2, <3>1, <3>3 DEF Before, Places
      <4>2. CASE Before(d, q.doc)
        <5>1. d \in [epoch : p.doc.epoch .. q.doc.epoch, next : 0 .. RankSize - 1]
          BY <2>2, <2>4, <4>2 DEF Before, Places
        <5> QED
          BY <1>3, <2>4, <4>2, <5>1 DEF Joined
      <4>3. CASE Before(q.doc, d)
        <5>1. d \in [epoch : q.doc.epoch .. r.doc.epoch, next : 0 .. RankSize - 1]
          BY <2>2, <2>4, <4>3 DEF Before, Places
        <5> QED
          BY <1>3, <2>4, <4>3, <5>1 DEF Joined
      <4> QED
        BY <4>1, <4>2, <4>3
    <3> QED
      BY <3>2, <3>3
  <2> QED
    BY <2>1, <2>3, <2>4 DEF Joined
<1> QED
  BY <1>2, <1>3

(* The end of a document is joined to the beginning of the next.           *)
LEMMA DocumentEnds ==
  ASSUME config \in Configs, NEW p \in Places
  PROVE  Joined([doc |-> p, offset |-> DocumentAt(p).len],
                [doc |-> Rolled(CursorAfter(p)), offset |-> 0])
<1>1. RankSize \in Nat \ {0}
  BY RankHasRows
<1> DEFINE q == Rolled(CursorAfter(p))
<1>2. /\ q \in Places /\ Before(p, q)
      /\ \A d \in Places : ~(Before(p, d) /\ Before(d, q))
  BY SourceSteps
<1> HIDE DEF q, RankSize
<1>3. \A d \in [epoch : p.epoch .. q.epoch, next : 0 .. RankSize - 1] : d \in Places
  BY <1>2 DEF Places
<1> QED
  BY <1>2, <1>3 DEF Joined, q

-----------------------------------------------------------------------------
(* The packing iterator.                                                   *)

LEMMA ChunkEndCorrect ==
  ASSUME NEW document \in [len : Nat, starts : SUBSET Nat],
         NEW start \in Nat, start < document.len
  PROVE  LET end == ChunkEnd(document, start)
         IN  /\ end \in Nat /\ start < end /\ end <= document.len
             /\ end - start <= MaxContext
             /\ \A k \in document.starts : ~(start < k /\ k < end)
             /\ end = document.len \/ end \in document.starts \/ end - start = MaxContext
<1> DEFINE end == SmallerOf(start + MaxContext, document.len)
           breaks == {k \in start + 1 .. end - 1 : k \in document.starts}
<1>1. MaxContext \in Nat \ {0}
  BY PackedStreamAssumption
<1>2. /\ end \in Nat /\ start < end /\ end <= document.len /\ end - start <= MaxContext
      /\ end = document.len \/ end - start = MaxContext
  BY <1>1 DEF SmallerOf
<1> HIDE DEF end
<1>3. CASE breaks = {}
  <2>1. ChunkEnd(document, start) = end
    BY <1>3 DEF ChunkEnd, end
  <2>2. \A k \in document.starts : ~(start < k /\ k < end)
    BY <1>2, <1>3
  <2> QED
    BY <1>2, <2>1, <2>2
<1>4. CASE breaks # {}
  <2>1. breaks \subseteq Nat
    OBVIOUS
  <2>2. PICK m \in breaks : \A j \in breaks : ~ (<<j, m>> \in OpToRel(<, Nat))
    <3>1. IsWellFoundedOn(OpToRel(<, Nat), Nat)
      BY NatLessThanWellFounded
    <3> HIDE DEF breaks
    <3> QED
      BY <1>4, <2>1, <3>1, WFMin
  <2>3. \A j \in breaks : m <= j
    <3> SUFFICES ASSUME NEW j \in breaks PROVE m <= j
      OBVIOUS
    <3>1. j \in Nat /\ m \in Nat
      BY <2>1
    <3>2. ~ (j < m)
      BY <2>2, <3>1 DEF OpToRel
    <3> QED
      BY <3>1, <3>2
  <2> DEFINE c == CHOOSE k \in breaks : \A j \in breaks : k <= j
  <2>4. c \in breaks /\ \A j \in breaks : c <= j
    BY <2>3
  <2>5. ChunkEnd(document, start) = c
    BY <1>4 DEF ChunkEnd, end
  <2> HIDE DEF c
  <2>6. c \in Nat /\ start < c /\ c < end /\ c \in document.starts
    BY <1>2, <2>4
  <2>7. \A k \in document.starts : ~(start < k /\ k < c)
    BY <1>2, <2>4, <2>6
  <2> QED
    BY <1>1, <1>2, <2>5, <2>6, <2>7
<1> QED
  BY <1>3, <1>4

(* The configuration never changes, and so the source does not.            *)
LEMMA ConfigFixed ==
  ASSUME config' = config
  PROVE  /\ RankSize' = RankSize /\ Places' = Places /\ Cursors' = Cursors
         /\ \A p : /\ DocumentAt(p)' = DocumentAt(p)
                   /\ Rolled(p)' = Rolled(p)
                   /\ CursorAfter(p)' = CursorAfter(p)
                   /\ SourceEnded(p)' = SourceEnded(p)
                   /\ CursorOK(p)' = CursorOK(p)
         /\ \A p, q : Joined(p, q)' = Joined(p, q)
<1>1. RankSize' = RankSize
  BY DEF RankSize
<1>2. Places' = Places /\ Cursors' = Cursors
  BY <1>1 DEF Places, Cursors
<1>3. \A p : DocumentAt(p)' = DocumentAt(p)
  BY DEF DocumentAt, RowIndex
<1>4. \A p : /\ Rolled(p)' = Rolled(p)
             /\ CursorAfter(p)' = CursorAfter(p)
             /\ SourceEnded(p)' = SourceEnded(p)
  BY <1>1 DEF Rolled, CursorAfter, SourceEnded
<1>5. \A p : CursorOK(p)' = CursorOK(p)
  BY <1>2 DEF CursorOK
<1>6. \A p, q : Joined(p, q)' = Joined(p, q)
  BY <1>1, <1>3 DEF Joined
<1> QED
  BY <1>1, <1>2, <1>3, <1>4, <1>5, <1>6

StateOK(s) ==
  /\ s \in States /\ CursorOK(s.parent)
  /\ s.hasRemainder => /\ ~SourceEnded(s.parent)
                       /\ s.offset < DocumentAt(Rolled(s.parent)).len
  /\ ~s.hasRemainder => s.offset = 0
  /\ s.finished => ~s.hasRemainder /\ SourceEnded(s.parent)

(* What the iterator and every state that is kept can be restored to; the  *)
(* parent is behind the document of the remainder.                         *)
StatesOK ==
  /\ StateOK(PackingState) /\ StateOK(state)
  /\ StateOK(saved.state) /\ saved.rows <= Len(delivered)
  /\ \A i \in 1 .. Len(queue) : StateOK(queue[i].state)
  /\ IF remainder.has
     THEN /\ remainder.doc = Rolled(remainder.before)
          /\ parent = CursorAfter(remainder.doc) /\ CursorOK(parent)
     ELSE remainder = NoRemainder

LEMMA StateOKFixed ==
  ASSUME config' = config
  PROVE  States' = States /\ Segments' = Segments /\ \A s : StateOK(s)' = StateOK(s)
<1>1. States' = States /\ Segments' = Segments
  BY ConfigFixed DEF States, Segments
<1>2. \A s : StateOK(s)' = StateOK(s)
  BY <1>1, ConfigFixed DEF StateOK
<1> QED
  BY <1>1, <1>2

LEMMA InitStates ==
  ASSUME Init
  PROVE  TypeOK /\ StatesOK
<1>1. config \in Configs
  BY DEF Init
<1>2. FirstPlace \in Places /\ CursorOK(FirstPlace) /\ FirstPlace \in Cursors
  BY <1>1, SourceSteps DEF CursorOK
<1>3. StateOK(FreshState) /\ FreshState \in States
  BY <1>2 DEF FreshState, StateOK, States
<1>4. PackingState = FreshState /\ remainder = NoRemainder /\ ~remainder.has
  BY DEF Init, PackingState, NoRemainder, FreshState
<1>5. StatesOK
  BY <1>3, <1>4 DEF Init, StatesOK
<1>6. TypeOK
  <2>1. remainder \in [has : BOOLEAN, doc : Places, before : Cursors, offset : Nat]
    BY <1>2 DEF Init, NoRemainder
  <2>2. TokensPerRow \in Nat /\ MaxCrashes \in Nat
    BY PackedStreamAssumption
  <2>3. saved \in [state : States, rows : Nat] /\ state \in States
    BY <1>3 DEF Init
  <2>4. row \in Seq(Segments) /\ delivered \in Seq(Seq(Segments)) /\ seen \in Seq(Seq(Segments))
    BY DEF Init
  <2>5. queue = << >> /\ finished = FALSE
    BY DEF Init
  <2>6. queue \in Seq([row : Seq(Segments), state : States])
    BY <2>5
  <2>7. finished \in BOOLEAN
    BY <2>5
  <2> QED
    BY <1>2, <2>1, <2>2, <2>3, <2>4, <2>6, <2>7 DEF Init, TypeOK
<1> QED
  BY <1>5, <1>6

(* set_state puts the iterator in the state that was kept.                 *)
LEMMA Restoring ==
  ASSUME config \in Configs, config' = config, NEW s, StateOK(s), Restore(s)
  PROVE  /\ PackingState' = s
         /\ parent' \in Cursors
         /\ remainder' \in [has : BOOLEAN, doc : Places, before : Cursors, offset : Nat]
         /\ finished' \in BOOLEAN
         /\ IF remainder'.has
            THEN /\ remainder'.doc = Rolled(remainder'.before)
                 /\ parent' = CursorAfter(remainder'.doc) /\ CursorOK(parent')
            ELSE remainder' = NoRemainder
<1>1. /\ s \in [parent : Cursors, hasRemainder : BOOLEAN, offset : Nat, finished : BOOLEAN]
      /\ CursorOK(s.parent)
      /\ s.hasRemainder => ~SourceEnded(s.parent)
      /\ ~s.hasRemainder => s.offset = 0
  BY DEF StateOK, States
<1>2. FirstPlace \in Places /\ FirstPlace \in Cursors /\ Rolled(s.parent) \in Places
  BY <1>1, SourceSteps DEF CursorOK
<1>3. CASE s.hasRemainder
  <2>1. /\ remainder' = [has |-> TRUE, doc |-> Rolled(s.parent), before |-> s.parent,
                         offset |-> s.offset]
        /\ parent' = CursorAfter(Rolled(s.parent)) /\ finished' = s.finished
    BY <1>3 DEF Restore, RemainderAt
  <2>2. CursorOK(parent') /\ parent' \in Cursors
    BY <1>1, <1>3, <2>1, SourceSteps DEF CursorOK
  <2>3. PackingState' = s
    BY <1>1, <1>3, <2>1 DEF PackingState
  <2> QED
    BY <1>1, <1>2, <2>1, <2>2, <2>3
<1>4. CASE ~s.hasRemainder
  <2>1. remainder' = NoRemainder /\ parent' = s.parent /\ finished' = s.finished
    BY <1>4 DEF Restore
  <2>2. PackingState' = s
    BY <1>1, <1>4, <2>1 DEF PackingState, NoRemainder
  <2> QED
    BY <1>1, <1>2, <2>1, <2>2 DEF NoRemainder
<1> QED
  BY <1>3, <1>4

-----------------------------------------------------------------------------
(* The steps of the iterator.                                              *)

(* The token that is delivered next.                                       *)
Point(s) == [doc |-> Rolled(s.parent), offset |-> s.offset]

LEMMA PointType ==
  ASSUME config \in Configs, NEW s, StateOK(s)
  PROVE  Point(s) \in Points
BY SourceSteps DEF Point, Points, StateOK, States, CursorOK

(* Reading a document passes no token.                                     *)
LEMMA Reading ==
  ASSUME TypeOK, StatesOK, ReadDocument
  PROVE  /\ parent' \in Cursors
         /\ remainder' \in [has : BOOLEAN, doc : Places, before : Cursors, offset : Nat]
         /\ StateOK(PackingState')
         /\ IF remainder'.has
            THEN /\ remainder'.doc = Rolled(remainder'.before)
                 /\ parent' = CursorAfter(remainder'.doc) /\ CursorOK(parent')
            ELSE remainder' = NoRemainder
         /\ Joined(Point(PackingState), Point(PackingState'))
<1> DEFINE p == Rolled(parent)
<1>1. /\ config \in Configs /\ ~remainder.has /\ finished = FALSE /\ finished' = FALSE
      /\ ~SourceEnded(parent) /\ parent' = CursorAfter(p)
      /\ remainder' = IF DocumentAt(p).len = 0 THEN remainder ELSE RemainderAt(p, parent, 0)
  BY DEF TypeOK, ReadDocument
<1>2. remainder = NoRemainder /\ remainder.offset = 0
  BY <1>1 DEF StatesOK, NoRemainder
<1>3. PackingState = [parent |-> parent, hasRemainder |-> FALSE, offset |-> 0, finished |-> FALSE]
  BY <1>1, <1>2 DEF PackingState, TypeOK
<1>4. CursorOK(parent) /\ parent \in Cursors
  BY <1>3 DEF StatesOK, StateOK, CursorOK
<1>5. p \in Places /\ CursorOK(parent') /\ parent' \in Cursors
  BY <1>1, <1>4, SourceSteps DEF CursorOK
<1>6. DocumentAt(p).len \in Nat
  BY <1>1, <1>5, DocumentType
<1>7. CASE DocumentAt(p).len = 0
  <2>1. remainder' = NoRemainder /\ ~remainder'.has
    BY <1>1, <1>2, <1>7
  <2>2. PackingState' = [parent |-> parent', hasRemainder |-> FALSE, offset |-> 0,
                         finished |-> FALSE]
    <3>1. remainder'.has = FALSE /\ remainder'.offset = 0 /\ finished' = FALSE
      BY <1>1, <2>1 DEF NoRemainder
    <3> QED
      BY <3>1 DEF PackingState
  <2>3. StateOK(PackingState')
    BY <1>5, <2>2 DEF StateOK, States
  <2>4. Joined([doc |-> p, offset |-> 0], [doc |-> Rolled(parent'), offset |-> 0])
    BY <1>1, <1>5, <1>7, DocumentEnds
  <2> QED
    BY <1>1, <1>3, <1>5, <2>1, <2>2, <2>3, <2>4, <1>2 DEF Point, TypeOK
<1>8. CASE DocumentAt(p).len # 0
  <2>1. remainder' = [has |-> TRUE, doc |-> p, before |-> parent, offset |-> 0]
    BY <1>1, <1>8 DEF RemainderAt
  <2>2. PackingState' = [parent |-> parent, hasRemainder |-> TRUE, offset |-> 0,
                         finished |-> FALSE]
    <3>1. /\ remainder'.has = TRUE /\ remainder'.offset = 0 /\ finished' = FALSE
          /\ remainder'.before = parent
      BY <1>1, <2>1
    <3> QED
      BY <3>1 DEF PackingState
  <2>3. StateOK(PackingState')
    BY <1>1, <1>4, <1>6, <1>8, <2>2 DEF StateOK, States
  <2>4. Point(PackingState) = Point(PackingState')
    BY <1>3, <2>2 DEF Point
  <2>5. Joined(Point(PackingState), Point(PackingState'))
    BY <2>4 DEF Joined
  <2>6. /\ remainder' \in [has : BOOLEAN, doc : Places, before : Cursors, offset : Nat]
        /\ remainder'.has /\ remainder'.doc = p /\ remainder'.before = parent
    BY <1>4, <1>5, <2>1
  <2> QED
    BY <1>1, <1>5, <2>3, <2>5, <2>6
<1> QED
  BY <1>7, <1>8

(* The end of the source is reached at the same point.                     *)
LEMMA Ending ==
  ASSUME TypeOK, StatesOK, ReadEnd
  PROVE  /\ StateOK(PackingState') /\ finished' = TRUE /\ remainder' = NoRemainder
         /\ Point(PackingState') = Point(PackingState)
<1>1. /\ config \in Configs /\ ~remainder.has /\ finished' = TRUE
      /\ SourceEnded(parent) /\ parent' = parent /\ remainder' = remainder
  BY DEF TypeOK, ReadEnd
<1>2. remainder = NoRemainder
  BY <1>1 DEF StatesOK
<1>3. PackingState' = [parent |-> parent, hasRemainder |-> FALSE, offset |-> 0,
                       finished |-> TRUE]
  <2>1. remainder'.has = FALSE /\ remainder'.offset = 0 /\ finished' = TRUE
    BY <1>1, <1>2 DEF NoRemainder
  <2> QED
    BY <1>1, <2>1 DEF PackingState
<1>4. PackingState.parent = parent /\ PackingState.offset = 0
  BY <1>2 DEF PackingState, NoRemainder
<1>5. CursorOK(parent) /\ parent \in Cursors
  BY <1>4 DEF StatesOK, StateOK, CursorOK
<1>6. StateOK(PackingState')
  BY <1>1, <1>3, <1>5 DEF StateOK, States
<1> QED
  BY <1>1, <1>2, <1>3, <1>4, <1>6 DEF Point

(* The segment that is cut begins at the point before it and ends at the   *)
(* point after it.                                                         *)
LEMMA Cutting ==
  ASSUME TypeOK, StatesOK, AddSegment
  PROVE  \E s \in Segments :
           /\ row' = Append(row, s) /\ s.at = numTokens
           /\ numTokens' = numTokens + Length(s) /\ numTokens' \in 0 .. TokensPerRow
           /\ SegmentFits(s)
           /\ Begin(s) = Point(PackingState) /\ End(s) \in Points
           /\ Joined(End(s), Point(PackingState'))
           /\ StateOK(PackingState')
           /\ remainder' \in [has : BOOLEAN, doc : Places, before : Cursors, offset : Nat]
           /\ IF remainder'.has
              THEN /\ remainder'.doc = Rolled(remainder'.before)
                   /\ parent' = CursorAfter(remainder'.doc) /\ CursorOK(parent')
              ELSE remainder' = NoRemainder
<1> DEFINE p == remainder.doc
           start == remainder.offset
           chunk == ChunkEnd(DocumentAt(p), start)
           end == SmallerOf(chunk, start + TokensPerRow - numTokens)
           s == [doc |-> p, from |-> start, to |-> end, at |-> numTokens]
<1>1. /\ config \in Configs /\ remainder.has = TRUE /\ numTokens < TokensPerRow
      /\ numTokens \in Nat /\ TokensPerRow \in Nat \ {0} /\ MaxContext \in Nat \ {0}
  BY PackedStreamAssumption DEF TypeOK, AddSegment, HasRoom
<1>2. /\ remainder \in [has : BOOLEAN, doc : Places, before : Cursors, offset : Nat]
      /\ p = Rolled(remainder.before) /\ parent = CursorAfter(p) /\ CursorOK(parent)
  BY <1>1 DEF TypeOK, StatesOK
<1>3. PackingState = [parent |-> remainder.before, hasRemainder |-> TRUE, offset |-> start,
                      finished |-> finished]
  BY <1>1 DEF PackingState
<1>4. /\ CursorOK(remainder.before) /\ ~SourceEnded(remainder.before)
      /\ start < DocumentAt(p).len /\ ~finished
  BY <1>2, <1>3 DEF StatesOK, StateOK
<1>5. p \in Places /\ start \in Nat /\ remainder.before \in Cursors
  BY <1>2
<1>6. DocumentAt(p) \in [len : Nat, starts : SUBSET Nat]
  BY <1>1, <1>5, DocumentType
<1>7. /\ chunk \in Nat /\ start < chunk /\ chunk <= DocumentAt(p).len
      /\ chunk - start <= MaxContext
      /\ \A k \in DocumentAt(p).starts : ~(start < k /\ k < chunk)
      /\ chunk = DocumentAt(p).len \/ chunk \in DocumentAt(p).starts
           \/ chunk - start = MaxContext
  BY <1>4, <1>5, <1>6, ChunkEndCorrect
<1>8. /\ row' = Append(row, s) /\ numTokens' = numTokens + (end - start)
      /\ remainder' = IF end = DocumentAt(p).len THEN NoRemainder
                      ELSE [remainder EXCEPT !.offset = end]
      /\ parent' = parent /\ finished' = finished
  BY DEF AddSegment
<1> HIDE DEF chunk
<1>9. /\ end \in Nat /\ start < end /\ end <= chunk /\ numTokens + (end - start) <= TokensPerRow
      /\ end = chunk \/ numTokens + (end - start) = TokensPerRow
  BY <1>1, <1>5, <1>7 DEF SmallerOf
<1> HIDE DEF end
<1>10. s \in Segments /\ s.doc = p /\ s.from = start /\ s.to = end /\ s.at = numTokens
  BY <1>1, <1>5, <1>9 DEF Segments
<1> HIDE DEF s
<1>11. numTokens' = numTokens + Length(s) /\ numTokens' \in 0 .. TokensPerRow
  BY <1>1, <1>5, <1>8, <1>9, <1>10 DEF Length
<1>12. SegmentFits(s)
  <2>1. \A k \in DocumentAt(p).starts : k \in Nat
    BY <1>6
  <2> QED
    BY <1>1, <1>5, <1>6, <1>7, <1>9, <1>10, <2>1 DEF SegmentFits, Length
<1>13. /\ Begin(s) = [doc |-> p, offset |-> start] /\ End(s) = [doc |-> p, offset |-> end]
       /\ Begin(s) = Point(PackingState) /\ End(s) \in Points
  BY <1>2, <1>3, <1>5, <1>9, <1>10 DEF Begin, End, Point, Points
<1>14. CASE end = DocumentAt(p).len
  <2>1. remainder' = NoRemainder /\ remainder'.has = FALSE /\ remainder'.offset = 0
    BY <1>8, <1>14 DEF NoRemainder
  <2>2. PackingState' = [parent |-> parent, hasRemainder |-> FALSE, offset |-> 0,
                         finished |-> finished]
    BY <1>8, <2>1 DEF PackingState
  <2>3. StateOK(PackingState')
    BY <1>2, <1>4, <2>2 DEF StateOK, States, CursorOK, TypeOK
  <2>4. Joined([doc |-> p, offset |-> DocumentAt(p).len], [doc |-> Rolled(parent), offset |-> 0])
    BY <1>1, <1>2, <1>5, DocumentEnds
  <2>5. Joined(End(s), Point(PackingState'))
    BY <1>13, <1>14, <2>2, <2>4 DEF Point
  <2>6. remainder' \in [has : BOOLEAN, doc : Places, before : Cursors, offset : Nat]
    BY <1>1, <2>1, SourceSteps DEF NoRemainder, CursorOK
  <2> QED
    BY <1>8, <1>10, <1>11, <1>12, <1>13, <2>1, <2>3, <2>5, <2>6
<1>15. CASE end # DocumentAt(p).len
  <2>1. /\ remainder' = [remainder EXCEPT !.offset = end]
        /\ remainder' \in [has : BOOLEAN, doc : Places, before : Cursors, offset : Nat]
        /\ remainder'.has = TRUE /\ remainder'.doc = p /\ remainder'.before = remainder.before
        /\ remainder'.offset = end
    BY <1>1, <1>2, <1>8, <1>9, <1>15
  <2>2. PackingState' = [parent |-> remainder.before, hasRemainder |-> TRUE,
                         offset |-> end, finished |-> finished]
    BY <1>8, <2>1 DEF PackingState
  <2>3. StateOK(PackingState')
    BY <1>2, <1>4, <1>5, <1>6, <1>7, <1>9, <1>15, <2>2 DEF StateOK, States, TypeOK
  <2>4. End(s) = Point(PackingState')
    BY <1>2, <1>13, <2>2 DEF Point
  <2>5. Joined(End(s), Point(PackingState'))
    BY <2>4 DEF Joined
  <2> QED
    BY <1>2, <1>8, <1>10, <1>11, <1>12, <1>13, <2>1, <2>3, <2>5
<1> QED
  BY <1>14, <1>15

-----------------------------------------------------------------------------
(* Types and states.                                                       *)

LEMMA IteratorRests ==
  ASSUME UNCHANGED packVars
  PROVE  /\ PackingState' = PackingState
         /\ parent' = parent /\ remainder' = remainder /\ finished' = finished
         /\ row' = row /\ numTokens' = numTokens
BY DEF packVars, PackingState

LEMMA StepStates ==
  ASSUME TypeOK, StatesOK, [Next]_vars
  PROVE  TypeOK' /\ StatesOK'
<1> DEFINE Remainders == [has : BOOLEAN, doc : Places, before : Cursors, offset : Nat]
           ParentBehind == IF remainder.has
                           THEN /\ remainder.doc = Rolled(remainder.before)
                                /\ parent = CursorAfter(remainder.doc) /\ CursorOK(parent)
                           ELSE remainder = NoRemainder
           Queues == Seq([row : Seq(Segments), state : States])
<1>1. config' = config /\ config \in Configs
  BY DEF Next, vars, TypeOK, ReadDocument, ReadEnd, AddSegment, EmitRow, TakeRow, Save, Restart
<1>2. /\ Places' = Places /\ Cursors' = Cursors /\ States' = States /\ Segments' = Segments
      /\ \A p : /\ Rolled(p)' = Rolled(p) /\ CursorAfter(p)' = CursorAfter(p)
                /\ CursorOK(p)' = CursorOK(p) /\ StateOK(p)' = StateOK(p)
  BY <1>1, ConfigFixed, StateOKFixed
<1>3. TokensPerRow \in Nat \ {0} /\ MaxCrashes \in Nat
  BY PackedStreamAssumption
<1>4. SUFFICES /\ /\ parent' \in Cursors /\ remainder' \in Remainders
                  /\ finished' \in BOOLEAN /\ row' \in Seq(Segments)
                  /\ numTokens' \in 0 .. TokensPerRow
                  /\ StateOK(PackingState')
                  /\ IF remainder'.has
                     THEN /\ remainder'.doc = Rolled(remainder'.before)
                          /\ parent' = CursorAfter(remainder'.doc) /\ CursorOK(parent')
                     ELSE remainder' = NoRemainder
               /\ /\ queue' \in Queues /\ \A i \in 1 .. Len(queue') : StateOK(queue'[i].state)
                  /\ StateOK(state')
                  /\ saved' \in [state : States, rows : Nat] /\ StateOK(saved'.state)
               /\ /\ saved'.rows <= Len(delivered')
                  /\ delivered' \in Seq(Seq(Segments)) /\ seen' \in Seq(Seq(Segments))
                  /\ crashes' \in 0 .. MaxCrashes
  <2>1. StateOK(state') => state' \in States
    BY DEF StateOK
  <2> QED
    BY <1>1, <1>2, <2>1 DEF TypeOK, StatesOK
<1>5. /\ parent \in Cursors /\ remainder \in Remainders
      /\ finished \in BOOLEAN /\ row \in Seq(Segments) /\ numTokens \in 0 .. TokensPerRow
      /\ StateOK(PackingState) /\ ParentBehind
  BY DEF TypeOK, StatesOK
<1>6. /\ queue \in Queues /\ \A i \in 1 .. Len(queue) : StateOK(queue[i].state)
      /\ StateOK(state)
      /\ saved \in [state : States, rows : Nat] /\ StateOK(saved.state)
  BY DEF TypeOK, StatesOK
<1>7. /\ delivered \in Seq(Seq(Segments)) /\ seen \in Seq(Seq(Segments))
      /\ crashes \in 0 .. MaxCrashes /\ saved.rows <= Len(delivered)
  BY DEF TypeOK, StatesOK
<1> HIDE DEF Remainders, Queues
<1>8. CASE ReadDocument
  BY <1>5, <1>6, <1>7, <1>8, Reading DEF ReadDocument, Remainders
<1>9. CASE ReadEnd
  BY <1>5, <1>6, <1>7, <1>9, Ending DEF ReadEnd, NoRemainder
<1>10. CASE AddSegment
  <2>1. /\ row' \in Seq(Segments) /\ numTokens' \in 0 .. TokensPerRow
        /\ StateOK(PackingState') /\ remainder' \in Remainders
        /\ IF remainder'.has
           THEN /\ remainder'.doc = Rolled(remainder'.before)
                /\ parent' = CursorAfter(remainder'.doc) /\ CursorOK(parent')
           ELSE remainder' = NoRemainder
    BY <1>5, <1>10, Cutting DEF Remainders
  <2> QED
    BY <1>5, <1>6, <1>7, <1>10, <2>1 DEF AddSegment
<1>11. CASE EmitRow
  <2>1. /\ parent' = parent /\ remainder' = remainder /\ finished' = finished
        /\ row' = << >> /\ numTokens' = 0
        /\ queue' = Append(queue, [row |-> row, state |-> PackingState])
        /\ UNCHANGED <<state, delivered, seen, saved, crashes>>
    BY <1>11 DEF EmitRow
  <2>2. PackingState' = PackingState
    BY <2>1 DEF PackingState
  <2>3. [row |-> row, state |-> PackingState] \in [row : Seq(Segments), state : States]
    BY <1>5 DEF StateOK
  <2>4. queue' \in Queues
    BY <1>6, <2>1, <2>3 DEF Queues
  <2>5. \A i \in 1 .. Len(queue') : StateOK(queue'[i].state)
    BY <1>5, <1>6, <2>1, <2>3 DEF Queues
  <2>6. row' \in Seq(Segments) /\ numTokens' \in 0 .. TokensPerRow
    BY <1>3, <2>1
  <2> QED
    BY <1>5, <1>6, <1>7, <2>1, <2>2, <2>4, <2>5, <2>6
<1>12. CASE TakeRow
  <2>1. /\ queue # << >> /\ queue' = Tail(queue) /\ state' = Head(queue).state
        /\ delivered' = Append(delivered, Head(queue).row)
        /\ seen' \in {seen, delivered'}
        /\ UNCHANGED <<packVars, saved, crashes>>
    BY <1>12 DEF TakeRow
  <2>2. Len(queue) \in Nat \ {0} /\ Head(queue) = queue[1]
    BY <1>6, <2>1 DEF Queues
  <2>3. queue[1] \in [row : Seq(Segments), state : States]
    <3> DEFINE Entries == [row : Seq(Segments), state : States]
    <3>1. queue \in Seq(Entries) /\ 1 \in 1 .. Len(queue)
      BY <1>6, <2>2 DEF Queues
    <3> HIDE DEF Entries
    <3>2. queue[1] \in Entries
      BY <3>1, ElementOfSeq
    <3> QED
      BY <3>2 DEF Entries
  <2>4. StateOK(state')
    BY <1>6, <2>1, <2>2
  <2>5. queue' \in Queues
    BY <1>6, <2>1 DEF Queues
  <2>6. \A i \in 1 .. Len(queue') : StateOK(queue'[i].state)
    BY <1>6, <2>1, <2>2 DEF Queues
  <2>7. /\ delivered' \in Seq(Seq(Segments)) /\ seen' \in Seq(Seq(Segments))
        /\ Len(delivered') = Len(delivered) + 1 /\ Len(delivered) \in Nat
    <3> DEFINE Rows == Seq(Segments)
    <3>1. Head(queue).row \in Rows
      BY <2>2, <2>3
    <3>2. delivered \in Seq(Rows) /\ seen \in Seq(Rows)
      BY <1>7
    <3> HIDE DEF Rows
    <3>3. /\ delivered' \in Seq(Rows) /\ Len(delivered') = Len(delivered) + 1
          /\ Len(delivered) \in Nat
      BY <2>1, <3>1, <3>2, AppendProperties, LenProperties
    <3>4. seen' \in Seq(Rows)
      BY <2>1, <3>2, <3>3
    <3> QED
      BY <3>3, <3>4 DEF Rows
  <2>8. saved'.rows <= Len(delivered')
    BY <1>6, <1>7, <2>1, <2>7
  <2> QED
    BY <1>5, <1>6, <1>7, <2>1, <2>4, <2>5, <2>6, <2>7, <2>8, IteratorRests
<1>13. CASE Save
  <2>1. /\ saved' = [state |-> state, rows |-> Len(delivered)]
        /\ UNCHANGED <<packVars, queue, state, delivered, seen, crashes>>
    BY <1>13 DEF Save
  <2>2. /\ saved' \in [state : States, rows : Nat] /\ saved'.state = state
        /\ saved'.rows <= Len(delivered')
    BY <1>6, <1>7, <2>1 DEF StateOK
  <2> QED
    BY <1>5, <1>6, <1>7, <2>1, <2>2, IteratorRests
<1>14. CASE Restart
  <2>1. /\ Restore(saved.state) /\ queue' = << >> /\ state' = saved.state
        /\ delivered' = SubSeq(delivered, 1, saved.rows)
        /\ crashes' = crashes + 1 /\ crashes < MaxCrashes
        /\ seen' = seen /\ saved' = saved
    BY <1>14 DEF Restart
  <2>2. row' = << >> /\ numTokens' = 0
    BY <2>1 DEF Restore
  <2>3. /\ PackingState' = saved.state
        /\ parent' \in Cursors /\ remainder' \in Remainders /\ finished' \in BOOLEAN
        /\ IF remainder'.has
           THEN /\ remainder'.doc = Rolled(remainder'.before)
                /\ parent' = CursorAfter(remainder'.doc) /\ CursorOK(parent')
           ELSE remainder' = NoRemainder
    BY <1>1, <1>6, <2>1, Restoring DEF Remainders
  <2>4. queue' \in Queues /\ row' \in Seq(Segments) /\ numTokens' \in 0 .. TokensPerRow
    BY <1>3, <2>1, <2>2 DEF Queues
  <2>5. delivered' \in Seq(Seq(Segments)) /\ Len(delivered') = saved.rows
    <3>1. saved.rows \in Nat
      BY <1>6
    <3>2. \A i \in 1 .. saved.rows : delivered[i] \in Seq(Segments)
      BY <1>7, <3>1, ElementOfSeq
    <3>3. /\ SubSeq(delivered, 1, saved.rows) \in Seq(Seq(Segments))
          /\ Len(SubSeq(delivered, 1, saved.rows)) = saved.rows
      BY <3>1, <3>2, SubSeqProperties
    <3> QED
      BY <2>1, <3>3
  <2> QED
    BY <1>3, <1>6, <1>7, <2>1, <2>3, <2>4, <2>5
<1>15. CASE UNCHANGED vars
  BY <1>5, <1>6, <1>7, <1>15, IteratorRests DEF vars
<1> QED
  BY <1>8, <1>9, <1>10, <1>11, <1>12, <1>13, <1>14, <1>15 DEF Next

-----------------------------------------------------------------------------
(* The chain of points.                                                    *)

(* A row that leads from the point p to the point q, and a history that     *)
(* leads from the first point to q.                                        *)
RowLeads(p, r, q) ==
  /\ SegmentsJoined(r)
  /\ IF r = << >> THEN Joined(p, q)
     ELSE Joined(p, Begin(r[1])) /\ Joined(End(LastOf(r)), q)

HistoryLeads(h, q) ==
  /\ \A i \in 1 .. Len(h) : h[i] # << >> /\ SegmentsJoined(h[i])
  /\ \A i \in 1 .. Len(h) - 1 : Joined(End(LastOf(h[i])), Begin(h[i + 1][1]))
  /\ h # << >> => Joined(FirstPoint, Begin(h[1][1]))
  /\ Joined(IF h = << >> THEN FirstPoint ELSE End(LastOf(LastOf(h))), q)

(* The state before the i-th queued row.                                   *)
StateBefore(rows, first, i) == IF i = 1 THEN first ELSE rows[i - 1].state

Chain ==
  /\ HistoryLeads(delivered, Point(state))
  /\ HistoryLeads(SubSeq(delivered, 1, saved.rows), Point(saved.state))
  /\ \A i \in 1 .. Len(queue) :
       /\ queue[i].row # << >>
       /\ RowLeads(Point(StateBefore(queue, state, i)), queue[i].row, Point(queue[i].state))
  /\ RowLeads(Point(StateBefore(queue, state, Len(queue) + 1)), row, Point(PackingState))

LEMMA ChainFixed ==
  ASSUME config' = config
  PROVE  /\ \A s : Point(s)' = Point(s)
         /\ \A p, r, q : RowLeads(p, r, q)' = RowLeads(p, r, q)
         /\ \A h, q : HistoryLeads(h, q)' = HistoryLeads(h, q)
<1>1. \A r : SegmentsJoined(r)' = SegmentsJoined(r)
  BY ConfigFixed DEF SegmentsJoined
<1>2. \A s : Point(s)' = Point(s)
  BY ConfigFixed DEF Point
<1>3. \A p, r, q : RowLeads(p, r, q)' = RowLeads(p, r, q)
  BY <1>1, ConfigFixed DEF RowLeads
<1>4. \A h, q : HistoryLeads(h, q)' = HistoryLeads(h, q)
  BY <1>1, ConfigFixed DEF HistoryLeads
<1> QED
  BY <1>2, <1>3, <1>4

(* The ends of a row's segments are points.                                *)
LEMMA SegmentPoints ==
  ASSUME config \in Configs
  PROVE  /\ FirstPoint \in Points
         /\ \A s \in Segments : Begin(s) \in Points /\ End(s) \in Points
         /\ \A r \in Seq(Segments) : r # << >> =>
              /\ Len(r) \in Nat \ {0} /\ r[1] \in Segments /\ LastOf(r) \in Segments
              /\ Begin(r[1]) \in Points /\ End(LastOf(r)) \in Points
<1>1. FirstPoint \in Points
  BY SourceSteps DEF FirstPoint, Points
<1>2. \A s \in Segments : Begin(s) \in Points /\ End(s) \in Points
  BY DEF Segments, Begin, End, Points
<1>3. ASSUME NEW r \in Seq(Segments), r # << >>
      PROVE  Len(r) \in Nat \ {0} /\ r[1] \in Segments /\ LastOf(r) \in Segments
  <2>1. Len(r) \in Nat \ {0}
    BY <1>3, EmptySeq
  <2> QED
    BY <2>1, ElementOfSeq DEF LastOf
<1> QED
  BY <1>1, <1>2, <1>3

LEMMA RowMoved ==
  ASSUME config \in Configs, NEW r \in Seq(Segments),
         NEW p \in Points, NEW q \in Points, NEW t \in Points,
         RowLeads(p, r, q), Joined(q, t)
  PROVE  RowLeads(p, r, t)
<1>1. CASE r = << >>
  <2>1. Joined(p, t)
    BY <1>1, JoinedTransitive DEF RowLeads
  <2> QED
    BY <1>1, <2>1 DEF RowLeads
<1>2. CASE r # << >>
  <2>1. End(LastOf(r)) \in Points
    BY <1>2, SegmentPoints
  <2>2. Joined(End(LastOf(r)), q)
    BY <1>2 DEF RowLeads
  <2>3. Joined(End(LastOf(r)), t)
    BY <2>1, <2>2, JoinedTransitive
  <2> QED
    BY <1>2, <2>3 DEF RowLeads
<1> QED
  BY <1>1, <1>2

LEMMA RowExtended ==
  ASSUME config \in Configs, NEW r \in Seq(Segments), NEW s \in Segments,
         NEW p \in Points, NEW t \in Points,
         RowLeads(p, r, Begin(s)), Joined(End(s), t)
  PROVE  RowLeads(p, Append(r, s), t)
<1> DEFINE e == Append(r, s)
<1>1. /\ e \in Seq(Segments) /\ e # << >> /\ Len(e) = Len(r) + 1 /\ Len(r) \in Nat
      /\ \A i \in 1 .. Len(r) : e[i] = r[i]
      /\ e[Len(r) + 1] = s
  BY AppendProperties, LenProperties
<1> HIDE DEF e
<1>2. LastOf(e) = s
  BY <1>1 DEF LastOf
<1>3. CASE r = << >>
  <2>1. Len(r) = 0
    BY <1>3
  <2>2. SegmentsJoined(e) /\ e[1] = s /\ Joined(p, Begin(s))
    BY <1>1, <1>3, <2>1 DEF SegmentsJoined, RowLeads
  <2> QED
    BY <1>1, <1>2, <2>2 DEF RowLeads, e
<1>4. CASE r # << >>
  <2>1. Len(r) \in Nat \ {0}
    BY <1>4, EmptySeq
  <2>2. Joined(End(LastOf(r)), Begin(s)) /\ Joined(p, Begin(r[1])) /\ SegmentsJoined(r)
    BY <1>4 DEF RowLeads
  <2>3. e[1] = r[1]
    BY <1>1, <2>1
  <2>4. ASSUME NEW j \in 1 .. Len(e) - 1
        PROVE  Joined(End(e[j]), Begin(e[j + 1]))
    <3>1. CASE j = Len(r)
      BY <1>1, <2>1, <2>2, <3>1 DEF LastOf
    <3>2. CASE j # Len(r)
      <4>1. j \in 1 .. Len(r) - 1 /\ e[j] = r[j] /\ e[j + 1] = r[j + 1]
        BY <1>1, <2>1, <3>2
      <4> QED
        BY <2>2, <4>1 DEF SegmentsJoined
    <3> QED
      BY <3>1, <3>2
  <2>5. SegmentsJoined(e)
    BY <2>4 DEF SegmentsJoined
  <2> QED
    BY <1>1, <1>2, <2>2, <2>3, <2>5 DEF RowLeads, e
<1> QED
  BY <1>3, <1>4

LEMMA HistoryExtended ==
  ASSUME config \in Configs, NEW h \in Seq(Seq(Segments)), NEW r \in Seq(Segments),
         r # << >>, NEW p \in Points, NEW t \in Points,
         HistoryLeads(h, p), RowLeads(p, r, t)
  PROVE  HistoryLeads(Append(h, r), t)
<1> DEFINE e == Append(h, r)
           Rows == Seq(Segments)
<1>1. /\ e # << >> /\ Len(e) = Len(h) + 1 /\ Len(h) \in Nat
      /\ \A i \in 1 .. Len(h) : e[i] = h[i]
      /\ e[Len(h) + 1] = r
  <2>1. h \in Seq(Rows) /\ r \in Rows
    OBVIOUS
  <2> HIDE DEF Rows
  <2> QED
    BY <2>1, AppendProperties, LenProperties
<1> HIDE DEF e
<1>2. LastOf(e) = r
  BY <1>1 DEF LastOf
<1>3. SegmentsJoined(r) /\ Joined(p, Begin(r[1])) /\ Joined(End(LastOf(r)), t)
  BY DEF RowLeads
<1>4. \A i \in 1 .. Len(e) : e[i] # << >> /\ SegmentsJoined(e[i])
  <2> SUFFICES ASSUME NEW i \in 1 .. Len(e) PROVE e[i] # << >> /\ SegmentsJoined(e[i])
    OBVIOUS
  <2>1. CASE i = Len(h) + 1
    BY <1>1, <1>3, <2>1
  <2>2. CASE i # Len(h) + 1
    <3>1. i \in 1 .. Len(h) /\ e[i] = h[i]
      BY <1>1, <2>2
    <3> QED
      BY <3>1 DEF HistoryLeads
  <2> QED
    BY <2>1, <2>2
<1>5. r[1] \in Segments /\ Begin(r[1]) \in Points
  BY SegmentPoints
<1>6. CASE h = << >>
  <2>1. Len(h) = 0 /\ e[1] = r
    BY <1>1, <1>6
  <2>2. Joined(FirstPoint, p)
    BY <1>6 DEF HistoryLeads
  <2>3. Joined(FirstPoint, Begin(r[1]))
    BY <1>3, <1>5, <2>2, SegmentPoints, JoinedTransitive
  <2>4. \A i \in 1 .. Len(e) - 1 : Joined(End(LastOf(e[i])), Begin(e[i + 1][1]))
    BY <1>1, <2>1
  <2> QED
    BY <1>1, <1>2, <1>3, <1>4, <2>1, <2>3, <2>4 DEF HistoryLeads, e
<1>7. CASE h # << >>
  <2>1. Len(h) \in Nat \ {0} /\ LastOf(h) \in Seq(Segments)
    <3>1. h \in Seq(Rows)
      OBVIOUS
    <3> HIDE DEF Rows
    <3>2. Len(h) \in Nat \ {0}
      BY <1>7, <3>1, EmptySeq
    <3>3. LastOf(h) \in Rows
      BY <3>1, <3>2, ElementOfSeq DEF LastOf
    <3> QED
      BY <3>2, <3>3 DEF Rows
  <2>2. e[1] = h[1] /\ LastOf(h) = h[Len(h)]
    BY <1>1, <2>1 DEF LastOf
  <2>3. /\ Joined(End(LastOf(LastOf(h))), p) /\ LastOf(h) # << >>
        /\ Joined(FirstPoint, Begin(h[1][1]))
    BY <1>7, <2>1, <2>2 DEF HistoryLeads
  <2>4. Joined(End(LastOf(LastOf(h))), Begin(r[1]))
    <3>1. End(LastOf(LastOf(h))) \in Points
      BY <2>1, <2>3, SegmentPoints
    <3> QED
      BY <1>3, <1>5, <2>3, <3>1, JoinedTransitive
  <2>5. ASSUME NEW i \in 1 .. Len(e) - 1
        PROVE  Joined(End(LastOf(e[i])), Begin(e[i + 1][1]))
    <3>1. CASE i = Len(h)
      BY <1>1, <2>1, <2>2, <2>4, <3>1
    <3>2. CASE i # Len(h)
      <4>1. i \in 1 .. Len(h) - 1 /\ e[i] = h[i] /\ e[i + 1] = h[i + 1]
        BY <1>1, <2>1, <3>2
      <4> QED
        BY <4>1 DEF HistoryLeads
    <3> QED
      BY <3>1, <3>2
  <2> QED
    BY <1>1, <1>2, <1>3, <1>4, <2>2, <2>3, <2>5 DEF HistoryLeads, e
<1> QED
  BY <1>6, <1>7

LEMMA InitChain ==
  ASSUME Init, TypeOK, StatesOK
  PROVE  Chain
<1>1. /\ config \in Configs /\ delivered = << >> /\ queue = << >> /\ row = << >>
      /\ state = FreshState /\ saved.state = FreshState /\ saved.rows = 0
      /\ PackingState = FreshState
  BY DEF Init, TypeOK, PackingState, NoRemainder, FreshState
<1>2. Point(FreshState) = FirstPoint
  BY <1>1, SourceSteps DEF Point, FreshState, FirstPoint
<1>3. Len(queue) = 0 /\ SegmentsJoined(<< >>)
  BY <1>1 DEF SegmentsJoined
<1>4. HistoryLeads(<< >>, FirstPoint) /\ RowLeads(FirstPoint, << >>, FirstPoint)
  BY <1>3 DEF HistoryLeads, RowLeads, Joined
<1>5. SubSeq(delivered, 1, saved.rows) = << >>
  <2>1. SubSeq(delivered, 1, 0) = << >>
    BY SubSeqEmpty
  <2> QED
    BY <1>1, <2>1
<1>6. \A i \in 1 .. Len(queue) : FALSE
  BY <1>3
<1>7. StateBefore(queue, state, Len(queue) + 1) = FreshState
  BY <1>1, <1>3 DEF StateBefore
<1>8. HistoryLeads(delivered, Point(state))
  BY <1>1, <1>2, <1>4
<1>9. HistoryLeads(SubSeq(delivered, 1, saved.rows), Point(saved.state))
  BY <1>1, <1>2, <1>4, <1>5
<1>10. RowLeads(Point(StateBefore(queue, state, Len(queue) + 1)), row, Point(PackingState))
  BY <1>1, <1>2, <1>4, <1>7
<1> QED
  BY <1>6, <1>8, <1>9, <1>10 DEF Chain

(* Types of what the chain is made of.                                     *)
LEMMA ChainTypes ==
  ASSUME TypeOK, StatesOK
  PROVE  /\ config \in Configs /\ row \in Seq(Segments)
         /\ Len(queue) \in Nat
         /\ Point(state) \in Points /\ Point(PackingState) \in Points
         /\ Point(saved.state) \in Points
         /\ \A i \in 1 .. Len(queue) :
              /\ queue[i] \in [row : Seq(Segments), state : States]
              /\ queue[i].row \in Seq(Segments)
              /\ Point(queue[i].state) \in Points
         /\ \A i \in 1 .. Len(queue) + 1 : Point(StateBefore(queue, state, i)) \in Points
<1> DEFINE Entries == [row : Seq(Segments), state : States]
<1>1. config \in Configs /\ queue \in Seq(Entries)
  BY DEF TypeOK
<1>2. Point(state) \in Points /\ Point(PackingState) \in Points /\ Point(saved.state) \in Points
  BY <1>1, PointType DEF StatesOK
<1> HIDE DEF Entries
<1>3. Len(queue) \in Nat /\ \A i \in 1 .. Len(queue) : queue[i] \in Entries
  BY <1>1, LenProperties, ElementOfSeq
<1>4. \A i \in 1 .. Len(queue) : Point(queue[i].state) \in Points
  BY <1>1, PointType DEF StatesOK
<1>5. ASSUME NEW i \in 1 .. Len(queue) + 1
      PROVE  Point(StateBefore(queue, state, i)) \in Points
  <2>1. CASE i = 1
    BY <1>2, <2>1 DEF StateBefore
  <2>2. CASE i # 1
    <3>1. i - 1 \in 1 .. Len(queue)
      BY <1>3, <2>2
    <3> QED
      BY <1>4, <2>2, <3>1 DEF StateBefore
  <2> QED
    BY <2>1, <2>2
<1> QED
  BY <1>1, <1>2, <1>3, <1>4, <1>5 DEF TypeOK, Entries

LEMMA StepChain ==
  ASSUME TypeOK, StatesOK, Chain, [Next]_vars
  PROVE  Chain'
<1>1. config' = config /\ config \in Configs
  BY DEF Next, vars, TypeOK, ReadDocument, ReadEnd, AddSegment, EmitRow, TakeRow, Save, Restart
<1>2. SUFFICES
        /\ HistoryLeads(delivered', Point(state'))
        /\ HistoryLeads(SubSeq(delivered', 1, saved'.rows), Point(saved'.state))
        /\ \A i \in 1 .. Len(queue') :
             /\ queue'[i].row # << >>
             /\ RowLeads(Point(StateBefore(queue', state', i)), queue'[i].row,
                         Point(queue'[i].state))
        /\ RowLeads(Point(StateBefore(queue', state', Len(queue') + 1)), row',
                    Point(PackingState'))
  BY <1>1, ChainFixed DEF Chain, StateBefore
<1>3. /\ HistoryLeads(delivered, Point(state))
      /\ HistoryLeads(SubSeq(delivered, 1, saved.rows), Point(saved.state))
      /\ \A i \in 1 .. Len(queue) :
           /\ queue[i].row # << >>
           /\ RowLeads(Point(StateBefore(queue, state, i)), queue[i].row,
                       Point(queue[i].state))
      /\ RowLeads(Point(StateBefore(queue, state, Len(queue) + 1)), row, Point(PackingState))
  BY DEF Chain
<1> DEFINE last == Point(StateBefore(queue, state, Len(queue) + 1))
<1>4. Len(queue) \in Nat /\ last \in Points /\ row \in Seq(Segments)
      /\ Point(PackingState) \in Points
  <2>1. Len(queue) \in Nat
    BY ChainTypes
  <2>2. Len(queue) + 1 \in 1 .. Len(queue) + 1
    BY <2>1
  <2> QED
    BY <2>1, <2>2, ChainTypes
<1>5. SegmentsJoined(<< >>)
  BY DEF SegmentsJoined
<1>6. CASE ReadDocument
  <2>1. UNCHANGED <<row, queue, state, delivered, saved>>
    BY <1>6 DEF ReadDocument
  <2>2. StateOK(PackingState') /\ Joined(Point(PackingState), Point(PackingState'))
    BY <1>6, Reading
  <2>3. Point(PackingState') \in Points
    BY <1>1, <2>2, PointType
  <2>4. RowLeads(last, row, Point(PackingState'))
    BY <1>1, <1>3, <1>4, <2>2, <2>3, RowMoved
  <2> QED
    BY <1>3, <2>1, <2>4
<1>7. CASE ReadEnd
  <2>1. UNCHANGED <<row, queue, state, delivered, saved>>
    BY <1>7 DEF ReadEnd
  <2>2. Point(PackingState') = Point(PackingState)
    BY <1>7, Ending
  <2> QED
    BY <1>3, <2>1, <2>2
<1>8. CASE AddSegment
  <2>1. UNCHANGED <<queue, state, delivered, saved>>
    BY <1>8 DEF AddSegment
  <2>2. PICK s \in Segments : /\ row' = Append(row, s) /\ Begin(s) = Point(PackingState)
                              /\ Joined(End(s), Point(PackingState'))
                              /\ StateOK(PackingState')
    BY <1>8, Cutting
  <2>3. Point(PackingState') \in Points
    BY <1>1, <2>2, PointType
  <2>4. RowLeads(last, row', Point(PackingState'))
    BY <1>1, <1>3, <1>4, <2>2, <2>3, RowExtended
  <2> QED
    BY <1>3, <2>1, <2>4
<1>9. CASE EmitRow
  <2>1. /\ row # << >> /\ row' = << >>
        /\ queue' = Append(queue, [row |-> row, state |-> PackingState])
        /\ UNCHANGED <<parent, remainder, finished, state, delivered, saved>>
    BY <1>9 DEF EmitRow
  <2>2. PackingState' = PackingState
    BY <2>1 DEF PackingState
  <2> DEFINE Entries == [row : Seq(Segments), state : States]
             entry == [row |-> row, state |-> PackingState]
  <2>3. queue \in Seq(Entries) /\ entry \in Entries /\ entry.row = row
        /\ entry.state = PackingState
    BY DEF TypeOK, StatesOK, StateOK
  <2> HIDE DEF Entries, entry
  <2>4. /\ Len(queue') = Len(queue) + 1
        /\ \A i \in 1 .. Len(queue) : queue'[i] = queue[i]
        /\ queue'[Len(queue) + 1] = entry
    BY <2>1, <2>3, AppendProperties DEF entry
  <2>5. ASSUME NEW i \in 1 .. Len(queue) + 1
        PROVE  StateBefore(queue', state', i) = StateBefore(queue, state, i)
    <3>1. i # 1 => i - 1 \in 1 .. Len(queue)
      BY <1>4
    <3> QED
      BY <2>1, <2>4, <3>1 DEF StateBefore
  <2>6. ASSUME NEW i \in 1 .. Len(queue')
        PROVE  /\ queue'[i].row # << >>
               /\ RowLeads(Point(StateBefore(queue', state', i)), queue'[i].row,
                           Point(queue'[i].state))
    <3>1. CASE i = Len(queue) + 1
      <4>1. queue'[i].row = row /\ queue'[i].state = PackingState
        BY <2>3, <2>4, <3>1
      <4>2. StateBefore(queue', state', i) = StateBefore(queue, state, Len(queue) + 1)
        BY <1>4, <2>5, <3>1
      <4> QED
        BY <1>3, <2>1, <4>1, <4>2
    <3>2. CASE i # Len(queue) + 1
      <4>1. i \in 1 .. Len(queue) /\ i \in 1 .. Len(queue) + 1
        BY <1>4, <2>4, <3>2
      <4>2. queue'[i] = queue[i] /\ StateBefore(queue', state', i) = StateBefore(queue, state, i)
        BY <2>4, <2>5, <4>1
      <4> QED
        BY <1>3, <4>1, <4>2
    <3> QED
      BY <3>1, <3>2
  <2>7. StateBefore(queue', state', Len(queue') + 1) = PackingState
    BY <1>4, <2>3, <2>4 DEF StateBefore
  <2>8. RowLeads(Point(PackingState), << >>, Point(PackingState'))
    BY <1>5, <2>2 DEF RowLeads, Joined
  <2> QED
    BY <1>3, <2>1, <2>6, <2>7, <2>8
<1>10. CASE TakeRow
  <2>1. /\ queue # << >> /\ queue' = Tail(queue) /\ state' = Head(queue).state
        /\ delivered' = Append(delivered, Head(queue).row)
        /\ UNCHANGED <<packVars, saved>>
    BY <1>10 DEF TakeRow
  <2>2. /\ Len(queue) \in Nat \ {0} /\ Head(queue) = queue[1]
        /\ Len(queue') = Len(queue) - 1
        /\ \A i \in 1 .. Len(queue') : queue'[i] = queue[i + 1]
    <3> DEFINE Entries == [row : Seq(Segments), state : States]
    <3>1. queue \in Seq(Entries)
      BY DEF TypeOK
    <3> HIDE DEF Entries
    <3> QED
      BY <2>1, <3>1, EmptySeq, HeadTailProperties
  <2>3. 1 \in 1 .. Len(queue) /\ StateBefore(queue, state, 1) = state
    BY <2>2 DEF StateBefore
  <2>4. /\ queue[1].row # << >> /\ queue[1].row \in Seq(Segments)
        /\ RowLeads(Point(state), queue[1].row, Point(queue[1].state))
        /\ Point(queue[1].state) \in Points /\ Point(state) \in Points
    BY <1>3, <2>3, ChainTypes
  <2>5. delivered \in Seq(Seq(Segments))
    BY DEF TypeOK
  <2>6. HistoryLeads(delivered', Point(state'))
    BY <1>1, <1>3, <2>1, <2>2, <2>4, <2>5, HistoryExtended
  <2>7. SubSeq(delivered', 1, saved'.rows) = SubSeq(delivered, 1, saved.rows)
    <3> DEFINE Rows == Seq(Segments)
    <3>1. delivered \in Seq(Rows) /\ queue[1].row \in Rows
      BY <2>4, <2>5
    <3>2. saved.rows \in Nat /\ saved.rows <= Len(delivered)
      BY DEF TypeOK, StatesOK
    <3> HIDE DEF Rows
    <3>3. \A i \in 1 .. saved.rows : /\ delivered'[i] = delivered[i]
                                     /\ delivered[i] \in Rows
      <4>1. Len(delivered) \in Nat
        BY <3>1, LenProperties
      <4> QED
        BY <2>1, <2>2, <3>1, <3>2, <4>1, AppendProperties, ElementOfSeq
    <3>4. SubSeq(delivered', 1, saved.rows) \in Seq(Rows)
          /\ SubSeq(delivered, 1, saved.rows) \in Seq(Rows)
          /\ Len(SubSeq(delivered', 1, saved.rows)) = Len(SubSeq(delivered, 1, saved.rows))
          /\ Len(SubSeq(delivered, 1, saved.rows)) = saved.rows
          /\ \A i \in 1 .. saved.rows :
               SubSeq(delivered', 1, saved.rows)[i] = SubSeq(delivered, 1, saved.rows)[i]
      BY <3>2, <3>3, SubSeqProperties
    <3> QED
      BY <2>1, <3>4, SeqEqual
  <2>8. ASSUME NEW i \in 1 .. Len(queue)
        PROVE  StateBefore(queue', state', i) = StateBefore(queue, state, i + 1)
    <3>1. i # 1 => i - 1 \in 1 .. Len(queue') /\ queue'[i - 1] = queue[i]
      BY <2>2
    <3> QED
      BY <2>1, <2>2, <3>1 DEF StateBefore
  <2>9. ASSUME NEW i \in 1 .. Len(queue')
        PROVE  /\ queue'[i].row # << >>
               /\ RowLeads(Point(StateBefore(queue', state', i)), queue'[i].row,
                           Point(queue'[i].state))
    <3>1. i \in 1 .. Len(queue) /\ i + 1 \in 1 .. Len(queue) /\ queue'[i] = queue[i + 1]
      BY <2>2
    <3>2. StateBefore(queue', state', i) = StateBefore(queue, state, i + 1)
      BY <2>8, <3>1
    <3> QED
      BY <1>3, <3>1, <3>2
  <2>10. /\ Len(queue') + 1 = Len(queue)
         /\ StateBefore(queue', state', Len(queue') + 1) = StateBefore(queue, state, Len(queue) + 1)
    BY <2>2, <2>8
  <2> QED
    BY <1>3, <2>1, <2>6, <2>7, <2>9, <2>10, IteratorRests
<1>11. CASE Save
  <2>1. /\ saved' = [state |-> state, rows |-> Len(delivered)]
        /\ UNCHANGED <<packVars, queue, state, delivered>>
    BY <1>11 DEF Save
  <2>2. SubSeq(delivered, 1, Len(delivered)) = delivered
    <3> DEFINE Rows == Seq(Segments)
    <3>1. delivered \in Seq(Rows)
      BY DEF TypeOK
    <3> HIDE DEF Rows
    <3> QED
      BY <3>1, SubSeqFull
  <2>3. PackingState' = PackingState /\ row' = row
    BY <2>1, IteratorRests
  <2> QED
    BY <1>3, <2>1, <2>2, <2>3
<1>12. CASE Restart
  <2>1. /\ Restore(saved.state) /\ queue' = << >> /\ state' = saved.state
        /\ delivered' = SubSeq(delivered, 1, saved.rows) /\ saved' = saved
    BY <1>12 DEF Restart
  <2>2. row' = << >> /\ Len(queue') = 0
    BY <2>1 DEF Restore
  <2>3. PackingState' = saved.state
    BY <1>1, <2>1, Restoring DEF StatesOK
  <2>4. SubSeq(delivered', 1, saved'.rows) = delivered'
    <3> DEFINE Rows == Seq(Segments)
    <3>1. delivered \in Seq(Rows) /\ saved.rows \in Nat /\ saved.rows <= Len(delivered)
      BY DEF TypeOK, StatesOK
    <3> HIDE DEF Rows
    <3>2. \A i \in 1 .. saved.rows : delivered[i] \in Rows
      BY <3>1, ElementOfSeq, LenProperties
    <3>3. delivered' \in Seq(Rows) /\ Len(delivered') = saved.rows
      BY <2>1, <3>1, <3>2, SubSeqProperties
    <3> QED
      BY <2>1, <3>3, SubSeqFull
  <2>5. StateBefore(queue', state', Len(queue') + 1) = saved.state
    BY <2>1, <2>2 DEF StateBefore
  <2>6. RowLeads(Point(saved.state), << >>, Point(PackingState'))
    BY <1>5, <2>3 DEF RowLeads, Joined
  <2>7. \A i \in 1 .. Len(queue') : FALSE
    BY <2>2
  <2>8. /\ HistoryLeads(delivered', Point(state'))
        /\ HistoryLeads(SubSeq(delivered', 1, saved'.rows), Point(saved'.state))
    BY <1>3, <2>1, <2>4
  <2>9. RowLeads(Point(StateBefore(queue', state', Len(queue') + 1)), row', Point(PackingState'))
    BY <2>2, <2>5, <2>6
  <2> QED
    BY <2>7, <2>8, <2>9
<1>13. CASE UNCHANGED vars
  BY <1>3, <1>13, IteratorRests DEF vars
<1> QED
  BY <1>6, <1>7, <1>8, <1>9, <1>10, <1>11, <1>12, <1>13 DEF Next

-----------------------------------------------------------------------------
(* The limits of a row.                                                    *)

(* A row that is not full is the last one of a source that has ended: no   *)
(* state after it is left to be taken.                                     *)
Fits ==
  /\ RowFits(row)
  /\ numTokens = IF row = << >> THEN 0 ELSE LastOf(row).at + Length(LastOf(row))
  /\ \A i \in 1 .. Len(queue) :
       /\ RowFits(queue[i].row)
       /\ RowIsFull(queue[i].row) \/ queue[i].state.finished
       /\ queue[i].state.finished => i = Len(queue) /\ row = << >> /\ finished
  /\ state.finished => queue = << >> /\ row = << >> /\ finished
  /\ \A i \in 1 .. Len(delivered) :
       /\ RowFits(delivered[i])
       /\ RowIsFull(delivered[i]) \/ (i = Len(delivered) /\ state.finished)
  /\ \A i \in 1 .. saved.rows :
       RowIsFull(delivered[i]) \/ (i = saved.rows /\ saved.state.finished)

LEMMA FitsFixed ==
  ASSUME config' = config
  PROVE  \A r : RowFits(r)' = RowFits(r)
<1>1. \A s : SegmentFits(s)' = SegmentFits(s)
  BY ConfigFixed DEF SegmentFits
<1> QED
  BY <1>1 DEF RowFits

LEMMA InitFits ==
  ASSUME Init
  PROVE  Fits
<1>1. /\ row = << >> /\ numTokens = 0 /\ queue = << >> /\ delivered = << >>
      /\ state.finished = FALSE /\ saved.rows = 0
  BY DEF Init, FreshState
<1>2. Len(row) = 0 /\ Len(queue) = 0 /\ Len(delivered) = 0
  BY <1>1
<1>3. RowFits(row)
  BY <1>2, PackedStreamAssumption DEF RowFits
<1> QED
  BY <1>1, <1>2, <1>3 DEF Fits

LEMMA FitsExtended ==
  ASSUME NEW r \in Seq(Segments), NEW s \in Segments, RowFits(r), SegmentFits(s),
         Len(r) < MaxDocuments,
         s.at = IF r = << >> THEN 0 ELSE LastOf(r).at + Length(LastOf(r))
  PROVE  RowFits(Append(r, s)) /\ Append(r, s) # << >> /\ LastOf(Append(r, s)) = s
<1> DEFINE e == Append(r, s)
<1>1. /\ e # << >> /\ Len(e) = Len(r) + 1 /\ Len(r) \in Nat
      /\ \A i \in 1 .. Len(r) : e[i] = r[i]
      /\ e[Len(r) + 1] = s
  BY AppendProperties, LenProperties
<1> HIDE DEF e
<1>2. LastOf(e) = s
  BY <1>1 DEF LastOf
<1>3. Len(e) <= MaxDocuments
  BY <1>1, PackedStreamAssumption
<1>4. ASSUME NEW j \in 1 .. Len(e)
      PROVE  /\ SegmentFits(e[j])
             /\ e[j].at = IF j = 1 THEN 0 ELSE e[j - 1].at + Length(e[j - 1])
  <2>1. CASE j = Len(r) + 1
    <3>1. e[j] = s
      BY <1>1, <2>1
    <3>2. CASE r = << >>
      BY <2>1, <3>1, <3>2
    <3>3. CASE r # << >>
      <4>1. Len(r) \in Nat \ {0}
        BY <3>3, EmptySeq
      <4>2. j # 1 /\ e[j - 1] = LastOf(r)
        BY <1>1, <2>1, <4>1 DEF LastOf
      <4> QED
        BY <3>1, <3>3, <4>2
    <3> QED
      BY <3>2, <3>3
  <2>2. CASE j # Len(r) + 1
    <3>1. j \in 1 .. Len(r) /\ e[j] = r[j] /\ (j # 1 => e[j - 1] = r[j - 1])
      BY <1>1, <2>2
    <3> QED
      BY <3>1 DEF RowFits
  <2> QED
    BY <2>1, <2>2
<1>5. RowFits(e)
  BY <1>3, <1>4 DEF RowFits
<1> QED
  BY <1>1, <1>2, <1>5 DEF e

LEMMA StepFits ==
  ASSUME TypeOK, StatesOK, Chain, Fits, [Next]_vars
  PROVE  Fits'
<1>1. config' = config /\ config \in Configs
  BY DEF Next, vars, TypeOK, ReadDocument, ReadEnd, AddSegment, EmitRow, TakeRow, Save, Restart
<1>2. SUFFICES
        /\ /\ RowFits(row')
           /\ numTokens' = IF row' = << >> THEN 0 ELSE LastOf(row').at + Length(LastOf(row'))
        /\ /\ \A i \in 1 .. Len(queue') :
                /\ RowFits(queue'[i].row)
                /\ RowIsFull(queue'[i].row) \/ queue'[i].state.finished
                /\ queue'[i].state.finished => i = Len(queue') /\ row' = << >> /\ finished'
           /\ state'.finished => queue' = << >> /\ row' = << >> /\ finished'
        /\ /\ \A i \in 1 .. Len(delivered') :
                /\ RowFits(delivered'[i])
                /\ RowIsFull(delivered'[i]) \/ (i = Len(delivered') /\ state'.finished)
           /\ \A i \in 1 .. saved'.rows :
                RowIsFull(delivered'[i]) \/ (i = saved'.rows /\ saved'.state.finished)
  BY <1>1, FitsFixed DEF Fits, RowIsFull, LastOf, Length
<1>3. /\ RowFits(row)
      /\ numTokens = IF row = << >> THEN 0 ELSE LastOf(row).at + Length(LastOf(row))
  BY DEF Fits
<1>4. /\ \A i \in 1 .. Len(queue) :
           /\ RowFits(queue[i].row)
           /\ RowIsFull(queue[i].row) \/ queue[i].state.finished
           /\ queue[i].state.finished => i = Len(queue) /\ row = << >> /\ finished
      /\ state.finished => queue = << >> /\ row = << >> /\ finished
  BY DEF Fits
<1>5. /\ \A i \in 1 .. Len(delivered) :
           /\ RowFits(delivered[i])
           /\ RowIsFull(delivered[i]) \/ (i = Len(delivered) /\ state.finished)
      /\ \A i \in 1 .. saved.rows :
           RowIsFull(delivered[i]) \/ (i = saved.rows /\ saved.state.finished)
  BY DEF Fits
<1> DEFINE Entries == [row : Seq(Segments), state : States]
           Rows == Seq(Segments)
<1>6. /\ queue \in Seq(Entries) /\ delivered \in Seq(Rows) /\ row \in Seq(Segments)
      /\ saved.rows \in Nat /\ saved.rows <= Len(delivered)
  BY DEF TypeOK, StatesOK
<1>7. Len(queue) \in Nat /\ Len(delivered) \in Nat
  BY <1>6, LenProperties
<1> HIDE DEF Entries, Rows
<1>8. CASE ReadDocument
  <2>1. /\ UNCHANGED <<row, numTokens, queue, state, delivered, saved>> /\ ~finished
    BY <1>8 DEF ReadDocument
  <2> QED
    BY <1>3, <1>4, <1>5, <2>1
<1>9. CASE ReadEnd
  <2>1. UNCHANGED <<row, numTokens, queue, state, delivered, saved>> /\ finished'
    BY <1>9 DEF ReadEnd
  <2> QED
    BY <1>3, <1>4, <1>5, <2>1
<1>10. CASE AddSegment
  <2>1. UNCHANGED <<queue, state, delivered, saved>>
    BY <1>10 DEF AddSegment
  <2>2. PICK s \in Segments : /\ row' = Append(row, s) /\ s.at = numTokens
                              /\ numTokens' = numTokens + Length(s) /\ SegmentFits(s)
    BY <1>10, Cutting
  <2>3. Len(row) < MaxDocuments /\ remainder.has
    BY <1>10 DEF AddSegment, HasRoom
  <2>4. RowFits(row') /\ row' # << >> /\ LastOf(row') = s
    BY <1>3, <1>6, <2>2, <2>3, FitsExtended
  <2>5. ~finished
    BY <2>3 DEF StatesOK, StateOK, PackingState
  <2> QED
    BY <1>4, <1>5, <2>1, <2>2, <2>4, <2>5
<1>11. CASE EmitRow
  <2>1. /\ row # << >> /\ row' = << >> /\ numTokens' = 0 /\ (~HasRoom \/ finished)
        /\ queue' = Append(queue, [row |-> row, state |-> PackingState])
        /\ UNCHANGED <<parent, remainder, finished, state, delivered, saved>>
    BY <1>11 DEF EmitRow
  <2> DEFINE entry == [row |-> row, state |-> PackingState]
  <2>2. /\ entry \in Entries /\ entry.row = row /\ entry.state.finished = finished
    BY DEF TypeOK, StatesOK, StateOK, PackingState, Entries
  <2> HIDE DEF entry
  <2>3. /\ Len(queue') = Len(queue) + 1
        /\ \A i \in 1 .. Len(queue) : queue'[i] = queue[i]
        /\ queue'[Len(queue) + 1] = entry
    BY <1>6, <2>1, <2>2, AppendProperties DEF entry
  <2>4. RowIsFull(row) \/ finished
    <3> SUFFICES ASSUME ~HasRoom PROVE RowIsFull(row)
      BY <2>1
    <3>1. /\ numTokens \in 0 .. TokensPerRow /\ Len(row) <= MaxDocuments /\ Len(row) \in Nat
          /\ TokensPerRow \in Nat /\ MaxDocuments \in Nat
      BY <1>3, <1>6, LenProperties, PackedStreamAssumption DEF TypeOK, RowFits
    <3>2. Len(row) = MaxDocuments \/ numTokens = TokensPerRow
      BY <3>1 DEF HasRoom
    <3> QED
      BY <1>3, <2>1, <3>2 DEF RowIsFull
  <2>5. Len(row') = 0 /\ RowFits(row')
    BY <2>1, PackedStreamAssumption DEF RowFits
  <2>6. ASSUME NEW i \in 1 .. Len(queue')
        PROVE  /\ RowFits(queue'[i].row)
               /\ RowIsFull(queue'[i].row) \/ queue'[i].state.finished
               /\ queue'[i].state.finished => i = Len(queue') /\ row' = << >> /\ finished'
    <3>1. CASE i = Len(queue) + 1
      BY <1>3, <2>1, <2>2, <2>3, <2>4, <3>1
    <3>2. CASE i # Len(queue) + 1
      <4>1. i \in 1 .. Len(queue) /\ queue'[i] = queue[i]
        BY <1>7, <2>3, <3>2
      <4> QED
        BY <1>4, <2>1, <4>1
    <3> QED
      BY <3>1, <3>2
  <2> QED
    BY <1>4, <1>5, <2>1, <2>5, <2>6
<1>12. CASE TakeRow
  <2>1. /\ queue # << >> /\ queue' = Tail(queue) /\ state' = Head(queue).state
        /\ delivered' = Append(delivered, Head(queue).row)
        /\ UNCHANGED <<packVars, saved>>
    BY <1>12 DEF TakeRow
  <2>2. /\ Len(queue) \in Nat \ {0} /\ Head(queue) = queue[1] /\ queue[1] \in Entries
        /\ queue' \in Seq(Entries) /\ Len(queue') = Len(queue) - 1
        /\ \A i \in 1 .. Len(queue') : queue'[i] = queue[i + 1]
    BY <1>6, <2>1, EmptySeq, HeadTailProperties
  <2>3. queue[1].row \in Rows
    BY <2>2 DEF Entries, Rows
  <2>4. /\ Len(delivered') = Len(delivered) + 1
        /\ \A i \in 1 .. Len(delivered) : delivered'[i] = delivered[i]
        /\ delivered'[Len(delivered) + 1] = queue[1].row
    BY <1>6, <2>1, <2>2, <2>3, AppendProperties
  <2>5. /\ row' = row /\ numTokens' = numTokens /\ finished' = finished
        /\ ~state.finished /\ saved' = saved
    BY <1>4, <2>1 DEF packVars
  <2>6. 1 \in 1 .. Len(queue)
    BY <2>2
  <2>7. state'.finished => queue' = << >> /\ row' = << >> /\ finished'
    <3> SUFFICES ASSUME queue[1].state.finished PROVE queue' = << >> /\ row = << >> /\ finished
      BY <2>1, <2>2, <2>5
    <3>1. 1 = Len(queue) /\ row = << >> /\ finished
      BY <1>4, <2>6
    <3>2. queue' \in Seq(Entries) /\ Len(queue') = Len(queue) - 1
      BY <2>2
    <3>3. Len(queue') = 0
      BY <3>1, <3>2
    <3>4. queue' = << >>
      BY <3>2, <3>3, EmptySeq
    <3> QED
      BY <3>1, <3>4
  <2>8. ASSUME NEW i \in 1 .. Len(queue')
        PROVE  /\ RowFits(queue'[i].row)
               /\ RowIsFull(queue'[i].row) \/ queue'[i].state.finished
               /\ queue'[i].state.finished => i = Len(queue') /\ row' = << >> /\ finished'
    <3>1. i + 1 \in 1 .. Len(queue) /\ queue'[i] = queue[i + 1]
      BY <2>2
    <3>2. i + 1 = Len(queue) => i = Len(queue')
      BY <2>2
    <3> QED
      BY <1>4, <2>5, <3>1, <3>2
  <2>9. ASSUME NEW i \in 1 .. Len(delivered')
        PROVE  /\ RowFits(delivered'[i])
               /\ RowIsFull(delivered'[i]) \/ (i = Len(delivered') /\ state'.finished)
    <3>1. CASE i = Len(delivered) + 1
      BY <1>4, <2>1, <2>2, <2>4, <2>6, <3>1
    <3>2. CASE i # Len(delivered) + 1
      <4>1. i \in 1 .. Len(delivered) /\ delivered'[i] = delivered[i]
        BY <1>7, <2>4, <3>2
      <4> QED
        BY <1>5, <2>5, <4>1
    <3> QED
      BY <3>1, <3>2
  <2>10. ASSUME NEW i \in 1 .. saved'.rows
         PROVE  RowIsFull(delivered'[i]) \/ (i = saved'.rows /\ saved'.state.finished)
    <3>1. i \in 1 .. saved.rows /\ delivered'[i] = delivered[i]
      BY <1>6, <1>7, <2>4, <2>5
    <3> QED
      BY <1>5, <2>5, <3>1
  <2> QED
    BY <1>3, <2>5, <2>7, <2>8, <2>9, <2>10
<1>13. CASE Save
  <2>1. /\ saved' = [state |-> state, rows |-> Len(delivered)]
        /\ UNCHANGED <<packVars, queue, state, delivered>>
    BY <1>13 DEF Save
  <2>2. row' = row /\ numTokens' = numTokens /\ finished' = finished
    BY <2>1 DEF packVars
  <2>3. saved'.rows = Len(delivered) /\ saved'.state = state
    BY <2>1
  <2> QED
    BY <1>3, <1>4, <1>5, <2>1, <2>2, <2>3
<1>14. CASE Restart
  <2>1. /\ Restore(saved.state) /\ queue' = << >> /\ state' = saved.state
        /\ delivered' = SubSeq(delivered, 1, saved.rows) /\ saved' = saved
    BY <1>14 DEF Restart
  <2>2. /\ row' = << >> /\ numTokens' = 0 /\ finished' = saved.state.finished
        /\ Len(queue') = 0 /\ Len(row') = 0
    BY <2>1 DEF Restore
  <2>3. RowFits(row')
    BY <2>2, PackedStreamAssumption DEF RowFits
  <2>4. /\ Len(delivered') = saved.rows
        /\ \A i \in 1 .. saved.rows : delivered'[i] = delivered[i]
    <3>1. \A i \in 1 .. saved.rows : delivered[i] \in Rows
      BY <1>6, <1>7, ElementOfSeq
    <3> QED
      BY <1>6, <2>1, <3>1, SubSeqProperties
  <2>5. ASSUME NEW i \in 1 .. Len(delivered')
        PROVE  /\ RowFits(delivered'[i])
               /\ RowIsFull(delivered'[i]) \/ (i = Len(delivered') /\ state'.finished)
    <3>1. i \in 1 .. saved.rows /\ i \in 1 .. Len(delivered) /\ delivered'[i] = delivered[i]
      BY <1>6, <1>7, <2>4
    <3> QED
      BY <1>5, <2>1, <2>4, <3>1
  <2>6. \A i \in 1 .. saved'.rows :
          RowIsFull(delivered'[i]) \/ (i = saved'.rows /\ saved'.state.finished)
    BY <1>5, <2>1, <2>4
  <2>7. \A i \in 1 .. Len(queue') : FALSE
    BY <2>2
  <2> QED
    BY <2>1, <2>2, <2>3, <2>5, <2>6, <2>7
<1>15. CASE UNCHANGED vars
  <2>1. UNCHANGED <<row, numTokens, finished, queue, state, delivered, saved>>
    BY <1>15 DEF vars, packVars
  <2> QED
    BY <1>3, <1>4, <1>5, <2>1
<1> QED
  BY <1>8, <1>9, <1>10, <1>11, <1>12, <1>13, <1>14, <1>15 DEF Next

-----------------------------------------------------------------------------
(* The theorems.                                                           *)

IInv == TypeOK /\ StatesOK /\ Chain /\ Fits

LEMMA SpecIInv == Spec => []IInv
<1>1. Init => IInv
  BY InitStates, InitChain, InitFits DEF IInv
<1>2. IInv /\ [Next]_vars => IInv'
  <2> SUFFICES ASSUME IInv, [Next]_vars PROVE IInv'
    OBVIOUS
  <2>1. TypeOK' /\ StatesOK'
    BY StepStates DEF IInv
  <2>2. Chain'
    BY StepChain DEF IInv
  <2>3. Fits'
    BY StepFits DEF IInv
  <2> QED
    BY <2>1, <2>2, <2>3 DEF IInv
<1> QED
  BY <1>1, <1>2, PTL DEF Spec

(* Every variable keeps its type: the iterator and all that it reads stay  *)
(* inside the rank's rows of the dataset.                                  *)
THEOREM TypeCorrect == Spec => []TypeOK
<1>1. IInv => TypeOK
  BY DEF IInv
<1> QED
  BY <1>1, SpecIInv, PTL

(* What the trainer has taken ends where its state stands.                 *)
LEMMA DeliveredTo ==
  ASSUME IInv
  PROVE  DeliveredPoint \in Points /\ Joined(DeliveredPoint, Point(state))
<1> DEFINE Rows == Seq(Segments)
<1>1. config \in Configs /\ HistoryLeads(delivered, Point(state))
  BY DEF IInv, TypeOK, Chain
<1>2. delivered \in Seq(Rows)
  BY DEF IInv, TypeOK
<1> HIDE DEF Rows
<1>3. CASE delivered = << >>
  BY <1>1, <1>3, SegmentPoints DEF DeliveredPoint, HistoryLeads
<1>4. CASE delivered # << >>
  <2>1. Len(delivered) \in 1 .. Len(delivered) /\ LastOf(delivered) \in Rows
    <3>1. Len(delivered) \in Nat \ {0}
      BY <1>2, <1>4, EmptySeq
    <3> QED
      BY <1>2, <3>1, ElementOfSeq DEF LastOf
  <2>2. LastOf(delivered) # << >>
    BY <1>1, <2>1 DEF HistoryLeads, LastOf
  <2>3. DeliveredPoint \in Points
    BY <1>1, <1>4, <2>1, <2>2, SegmentPoints DEF DeliveredPoint, Rows
  <2> QED
    BY <1>1, <2>3 DEF HistoryLeads, DeliveredPoint
<1> QED
  BY <1>3, <1>4

(* A source that has ended stands at the last point.                       *)
LEMMA FinishedPoint ==
  ASSUME NEW s, StateOK(s), s.finished
  PROVE  ~config.repeat /\ Point(s) = LastPoint
<1>1. ~s.hasRemainder /\ s.offset = 0 /\ SourceEnded(s.parent) /\ CursorOK(s.parent)
  BY DEF StateOK
<1>2. ~config.repeat /\ s.parent.epoch = 0 /\ s.parent.next = RankSize
  BY <1>1 DEF SourceEnded, CursorOK
<1>3. Rolled(s.parent) = [epoch |-> 1, next |-> 0]
  BY <1>2 DEF Rolled
<1> QED
  BY <1>1, <1>2, <1>3 DEF Point, LastPoint

LEMMA OrderOfChain == ASSUME IInv PROVE TokensInOrder
<1>1. HistoryLeads(delivered, Point(state))
  BY DEF IInv, Chain
<1>2. ASSUME finished, row = << >>, queue = << >>
      PROVE  Joined(DeliveredPoint, LastPoint)
  <2>1. /\ config \in Configs /\ Point(state) \in Points /\ Point(PackingState) \in Points
    BY ChainTypes DEF IInv
  <2>2. Len(queue) = 0 /\ StateBefore(queue, state, Len(queue) + 1) = state
    BY <1>2 DEF StateBefore
  <2>3. Joined(Point(state), Point(PackingState))
    BY <1>2, <2>2 DEF IInv, Chain, RowLeads
  <2>4. Point(PackingState) = LastPoint
    <3>1. StateOK(PackingState) /\ PackingState.finished
      BY <1>2 DEF IInv, StatesOK, PackingState
    <3> QED
      BY <3>1, FinishedPoint
  <2> QED
    BY <2>1, <2>3, <2>4, DeliveredTo, JoinedTransitive
<1> QED
  BY <1>1, <1>2 DEF TokensInOrder, HistoryLeads

LEMMA LimitsOfFits == ASSUME IInv PROVE RowsFitLimits
<1>1. state.finished => ~config.repeat
  BY DEF IInv, StatesOK, StateOK, SourceEnded
<1> QED
  BY <1>1 DEF IInv, Fits, RowsFitLimits

(* The trainer gets the tokens of its rank's documents in order, none lost *)
(* and none twice, from one row to the next and over every restart from a  *)
(* saved state.                                                            *)
THEOREM OrderKept == Spec => []TokensInOrder
<1>1. IInv => TokensInOrder
  BY OrderOfChain
<1> QED
  BY <1>1, SpecIInv, PTL

(* Every row keeps both limits and is full, but for the last row of a      *)
(* source that does not repeat.                                            *)
THEOREM LimitsKept == Spec => []RowsFitLimits
<1>1. IInv => RowsFitLimits
  BY LimitsOfFits
<1> QED
  BY <1>1, SpecIInv, PTL

-----------------------------------------------------------------------------
(* The rows are one fixed sequence.                                        *)

(* A source that does not repeat has one epoch.                            *)
InSource(r) == ~config.repeat => \A j \in 1 .. Len(r) : r[j].doc.epoch = 0

SourceInv ==
  /\ InSource(row)
  /\ \A i \in 1 .. Len(queue) : InSource(queue[i].row)
  /\ \A i \in 1 .. Len(delivered) : InSource(delivered[i])

(* No token is left after the row.                                         *)
Final(r) == ~config.repeat /\ Joined(End(LastOf(r)), LastPoint)

(* A row that may follow the point p.                                      *)
RowFrom(p, r) ==
  /\ r # << >> /\ SegmentsJoined(r) /\ Joined(p, Begin(r[1]))
  /\ RowFits(r) /\ InSource(r)
  /\ RowIsFull(r) \/ Final(r)

PointBefore(h, i) == IF i = 1 THEN FirstPoint ELSE End(LastOf(h[i - 1]))

(* The longest history is a sequence of such rows, and what is delivered is *)
(* a prefix of it.                                                         *)
SeenInv ==
  /\ Len(delivered) <= Len(seen)
  /\ \A i \in 1 .. Len(delivered) : delivered[i] = seen[i]
  /\ \A i \in 1 .. Len(seen) : RowFrom(PointBefore(seen, i), seen[i])

(* The next token is one token.                                            *)
LEMMA NextToken ==
  ASSUME config \in Configs, NEW p \in Points, NEW s \in Segments, NEW t \in Segments,
         SegmentFits(s), SegmentFits(t), Joined(p, Begin(s)), Joined(p, Begin(t))
  PROVE  Begin(s) = Begin(t)
<1>1. RankSize \in Nat \ {0}
  BY RankHasRows
<1> HIDE DEF RankSize
<1>2. /\ s.doc \in Places /\ t.doc \in Places /\ p.doc \in Places
      /\ s.from \in Nat /\ s.to \in Nat /\ t.from \in Nat /\ t.to \in Nat
  BY DEF Segments, Points
<1>3. /\ DocumentAt(s.doc).len \in Nat /\ s.from < DocumentAt(s.doc).len
      /\ DocumentAt(t.doc).len \in Nat /\ t.from < DocumentAt(t.doc).len
  <2>1. DocumentAt(s.doc).len \in Nat /\ DocumentAt(t.doc).len \in Nat
    BY <1>2, DocumentType
  <2> QED
    BY <1>2, <2>1 DEF SegmentFits
<1>4. Begin(s).doc = s.doc /\ Begin(s).offset = s.from /\ Begin(t).doc = t.doc /\ Begin(t).offset = t.from
  BY DEF Begin
<1>5. CASE p = Begin(s) \/ p = Begin(t)
  <2>1. p.offset < DocumentAt(p.doc).len
    BY <1>3, <1>4, <1>5
  <2>2. p.offset # DocumentAt(p.doc).len
    <3>1. p.offset \in Nat /\ DocumentAt(p.doc).len \in Nat
      BY <1>2, <1>3, <1>4, <1>5
    <3> QED
      BY <2>1, <3>1
  <2> QED
    BY <2>2 DEF Joined
<1>6. CASE p # Begin(s) /\ p # Begin(t)
  <2>1. /\ Before(p.doc, s.doc) /\ Before(p.doc, t.doc) /\ s.from = 0 /\ t.from = 0
        /\ \A d \in [epoch : p.doc.epoch .. s.doc.epoch, next : 0 .. RankSize - 1] :
             Before(p.doc, d) /\ Before(d, s.doc) => DocumentAt(d).len = 0
        /\ \A d \in [epoch : p.doc.epoch .. t.doc.epoch, next : 0 .. RankSize - 1] :
             Before(p.doc, d) /\ Before(d, t.doc) => DocumentAt(d).len = 0
    BY <1>4, <1>6 DEF Joined
  <2>2. ~Before(s.doc, t.doc)
    <3>1. SUFFICES ASSUME Before(s.doc, t.doc) PROVE FALSE
      OBVIOUS
    <3>2. s.doc \in [epoch : p.doc.epoch .. t.doc.epoch, next : 0 .. RankSize - 1]
      BY <1>2, <2>1, <3>1 DEF Before, Places
    <3>3. DocumentAt(s.doc).len = 0
      BY <2>1, <3>1, <3>2
    <3> QED
      BY <1>2, <1>3, <3>3
  <2>3. ~Before(t.doc, s.doc)
    <3>1. SUFFICES ASSUME Before(t.doc, s.doc) PROVE FALSE
      OBVIOUS
    <3>2. t.doc \in [epoch : p.doc.epoch .. s.doc.epoch, next : 0 .. RankSize - 1]
      BY <1>2, <2>1, <3>1 DEF Before, Places
    <3>3. DocumentAt(t.doc).len = 0
      BY <2>1, <3>1, <3>2
    <3> QED
      BY <1>2, <1>3, <3>3
  <2>4. s.doc = t.doc
    BY <1>1, <1>2, <2>2, <2>3 DEF Before, Places
  <2> QED
    BY <2>1, <2>4 DEF Begin
<1> QED
  BY <1>5, <1>6

(* Where a segment begins determines where it ends.                        *)
LEMMA SameSegment ==
  ASSUME config \in Configs, NEW s \in Segments, NEW t \in Segments,
         SegmentFits(s), SegmentFits(t), Begin(s) = Begin(t), s.at = t.at
  PROVE  s = t
<1>1. /\ MaxContext \in Nat /\ TokensPerRow \in Nat
      /\ s.from \in Nat /\ s.to \in Nat /\ t.from \in Nat /\ t.to \in Nat /\ s.at \in Nat
      /\ t.doc = s.doc /\ t.from = s.from /\ t.at = s.at /\ s.doc \in Places
  BY PackedStreamAssumption DEF Begin, Segments
<1> DEFINE document == DocumentAt(s.doc)
<1>2. document.len \in Nat
  BY <1>1, DocumentType
<1> HIDE DEF document
<1>3. ASSUME NEW x \in Segments, NEW y \in Segments,
             x.doc = s.doc, y.doc = s.doc, x.from = s.from, y.from = s.from,
             x.at = s.at, y.at = s.at, SegmentFits(x), SegmentFits(y)
      PROVE  ~(x.to < y.to)
  <2>1. x.to \in Nat /\ y.to \in Nat
    BY DEF Segments
  <2>2. /\ s.from < x.to /\ y.to <= document.len
        /\ y.to - s.from <= MaxContext
        /\ s.at + (y.to - s.from) <= TokensPerRow
        /\ \A k \in document.starts : ~(s.from < k /\ k < y.to)
        /\ \/ x.to = document.len \/ x.to \in document.starts
           \/ x.to - s.from = MaxContext \/ s.at + (x.to - s.from) = TokensPerRow
    BY <1>3 DEF SegmentFits, Length, document
  <2> QED
    BY <1>1, <1>2, <2>1, <2>2
<1>4. s.to = t.to
  <2>1. ~(s.to < t.to) /\ ~(t.to < s.to)
    BY <1>1, <1>3
  <2> QED
    BY <1>1, <2>1
<1> QED
  BY <1>1, <1>4 DEF Segments

(* Nothing follows a row that is full or final.                            *)
LEMMA RowEnds ==
  ASSUME config \in Configs, NEW p \in Points, NEW r \in Seq(Segments), NEW t \in Seq(Segments),
         RowFrom(p, r), RowFrom(p, t), Len(r) < Len(t),
         \A j \in 1 .. Len(r) : r[j] = t[j]
  PROVE  FALSE
<1> DEFINE n == Len(r)
           last == LastOf(r)
           s == t[n + 1]
<1>1. n \in Nat \ {0} /\ Len(t) \in Nat /\ n + 1 \in 1 .. Len(t)
  BY EmptySeq DEF RowFrom
<1>2. /\ t[n] = last /\ last \in Segments /\ s \in Segments
      /\ n \in 1 .. Len(t)
  BY <1>1, ElementOfSeq DEF LastOf
<1>3. /\ Joined(End(last), Begin(s)) /\ SegmentFits(s) /\ SegmentFits(last)
      /\ s.at = last.at + Length(last)
      /\ Len(t) <= MaxDocuments
      /\ ~config.repeat => s.doc.epoch = 0
  <2>1. n \in 1 .. Len(t) - 1 /\ n + 1 # 1 /\ n + 1 - 1 = n
    BY <1>1
  <2> QED
    BY <1>1, <1>2, <2>1 DEF RowFrom, SegmentsJoined, RowFits, InSource
<1>4. /\ s.from \in Nat /\ s.to \in Nat /\ last.from \in Nat /\ last.to \in Nat /\ last.at \in Nat
      /\ s.doc \in Places /\ last.doc \in Places
      /\ TokensPerRow \in Nat /\ MaxDocuments \in Nat
  BY <1>2, PackedStreamAssumption DEF Segments
<1>5. /\ s.from < s.to /\ s.to <= DocumentAt(s.doc).len
      /\ s.at + (s.to - s.from) <= TokensPerRow
      /\ last.from < last.to /\ last.to <= DocumentAt(last.doc).len
  BY <1>3 DEF SegmentFits, Length
<1>6. DocumentAt(s.doc).len \in Nat
  BY <1>4, DocumentType
<1> HIDE DEF last, s, n
<1>7. CASE RowIsFull(r)
  <2>1. n = MaxDocuments \/ last.at + Length(last) = TokensPerRow
    BY <1>7 DEF RowIsFull, n, last
  <2> QED
    BY <1>1, <1>3, <1>4, <1>5, <2>1 DEF Length
<1>8. CASE Final(r)
  <2>1. ~config.repeat /\ Joined(End(last), LastPoint)
    BY <1>8 DEF Final, last
  <2>2. s.doc.epoch = 0
    BY <1>3, <2>1
  <2>3. /\ Before(last.doc, [epoch |-> 1, next |-> 0])
        /\ \A d \in [epoch : last.doc.epoch .. 1, next : 0 .. RankSize - 1] :
             Before(last.doc, d) /\ Before(d, [epoch |-> 1, next |-> 0]) => DocumentAt(d).len = 0
        /\ last.to = DocumentAt(last.doc).len
    <3>1. End(last) # LastPoint
      BY <1>4, <1>5 DEF End, LastPoint
    <3> QED
      BY <2>1, <3>1 DEF Joined, End, LastPoint
  <2>4. Before(last.doc, s.doc)
    <3>1. End(last) # Begin(s)
      BY <1>4, <1>5, <1>6, <2>3 DEF End, Begin
    <3> QED
      BY <1>3, <3>1 DEF Joined, End, Begin
  <2>5. Before(s.doc, [epoch |-> 1, next |-> 0])
    BY <1>4, <2>2 DEF Before, Places
  <2>6. s.doc \in [epoch : last.doc.epoch .. 1, next : 0 .. RankSize - 1]
    BY <1>4, <2>2, <2>4 DEF Before, Places
  <2>7. DocumentAt(s.doc).len = 0
    BY <2>3, <2>4, <2>5, <2>6
  <2> QED
    BY <1>4, <1>5, <2>7
<1> QED
  BY <1>7, <1>8 DEF RowFrom

(* One row may follow a point.                                             *)
LEMMA SameRow ==
  ASSUME config \in Configs, NEW p \in Points, NEW r \in Seq(Segments), NEW t \in Seq(Segments),
         RowFrom(p, r), RowFrom(p, t)
  PROVE  r = t
<1>1. Len(r) \in Nat \ {0} /\ Len(t) \in Nat \ {0}
  BY EmptySeq DEF RowFrom
<1> DEFINE apart == {j \in 1 .. Len(r) : j <= Len(t) /\ r[j] # t[j]}
<1>2. apart = {}
  <2>1. SUFFICES ASSUME apart # {} PROVE FALSE
    OBVIOUS
  <2>2. IsWellFoundedOn(OpToRel(<, Nat), Nat)
    BY NatLessThanWellFounded
  <2> apart \in SUBSET Nat
    BY <1>1
  <2>3. PICK m \in apart : \A j \in apart : ~ (<<j, m>> \in OpToRel(<, Nat))
    <3> HIDE DEF apart
    <3> QED
      BY <2>1, <2>2, WFMin
  <2>4. m \in 1 .. Len(r) /\ m \in 1 .. Len(t) /\ r[m] # t[m]
    BY <1>1
  <2>5. \A j \in 1 .. m - 1 : r[j] = t[j]
    <3>1. SUFFICES ASSUME NEW j \in 1 .. m - 1, r[j] # t[j] PROVE FALSE
      OBVIOUS
    <3>2. j \in apart /\ j < m /\ j \in Nat /\ m \in Nat
      BY <1>1, <2>4, <3>1
    <3> HIDE DEF apart
    <3> QED
      BY <2>3, <3>2 DEF OpToRel
  <2>6. /\ r[m] \in Segments /\ t[m] \in Segments
        /\ SegmentFits(r[m]) /\ SegmentFits(t[m])
    BY <2>4, ElementOfSeq DEF RowFrom, RowFits
  <2>7. \E q \in Points : Joined(q, Begin(r[m])) /\ Joined(q, Begin(t[m]))
    <3>1. CASE m = 1
      BY <3>1 DEF RowFrom
    <3>2. CASE m # 1
      <4>1. m - 1 \in 1 .. Len(r) - 1 /\ m - 1 \in 1 .. Len(t) - 1 /\ m - 1 + 1 = m
            /\ m - 1 \in 1 .. m - 1 /\ m - 1 \in 1 .. Len(r)
        BY <1>1, <2>4, <3>2
      <4>2. r[m - 1] = t[m - 1] /\ r[m - 1] \in Segments
        BY <2>5, <4>1, ElementOfSeq
      <4>3. Joined(End(r[m - 1]), Begin(r[m])) /\ Joined(End(t[m - 1]), Begin(t[m]))
        BY <4>1 DEF RowFrom, SegmentsJoined
      <4>4. End(r[m - 1]) \in Points
        BY <4>2, SegmentPoints
      <4> QED
        BY <4>2, <4>3, <4>4
    <3> QED
      BY <3>1, <3>2
  <2>8. Begin(r[m]) = Begin(t[m])
    BY <2>6, <2>7, NextToken
  <2>9. r[m].at = t[m].at
    <3>1. CASE m = 1
      BY <2>4, <3>1 DEF RowFrom, RowFits
    <3>2. CASE m # 1
      <4>1. r[m - 1] = t[m - 1]
        <5>1. m - 1 \in 1 .. m - 1
          BY <1>1, <2>4, <3>2
        <5> QED
          BY <2>5, <5>1
      <4> QED
        BY <2>4, <3>2, <4>1 DEF RowFrom, RowFits
    <3> QED
      BY <3>1, <3>2
  <2> QED
    BY <2>4, <2>6, <2>8, <2>9, SameSegment
<1>3. /\ \A j \in 1 .. Len(r) : j <= Len(t) => r[j] = t[j]
      /\ \A j \in 1 .. Len(t) : j <= Len(r) => r[j] = t[j]
  BY <1>1, <1>2
<1> HIDE DEF apart
<1>4. ~(Len(r) < Len(t))
  <2>1. Len(r) < Len(t) => \A j \in 1 .. Len(r) : r[j] = t[j]
    BY <1>1, <1>3
  <2> QED
    BY <2>1, RowEnds
<1>5. ~(Len(t) < Len(r))
  <2>1. Len(t) < Len(r) => \A j \in 1 .. Len(t) : t[j] = r[j]
    BY <1>1, <1>3
  <2> QED
    BY <2>1, RowEnds
<1>6. Len(r) = Len(t)
  BY <1>1, <1>4, <1>5
<1> QED
  BY <1>3, <1>6, SeqEqual

(* The document that is cut belongs to the first epoch of a source that    *)
(* does not repeat.                                                        *)
LEMMA SourceStep ==
  ASSUME TypeOK, StatesOK, SourceInv, [Next]_vars
  PROVE  SourceInv'
<1> DEFINE Entries == [row : Seq(Segments), state : States]
           Rows == Seq(Segments)
<1>1. config' = config /\ config \in Configs
  BY DEF Next, vars, TypeOK, ReadDocument, ReadEnd, AddSegment, EmitRow, TakeRow, Save, Restart
<1>2. SUFFICES /\ InSource(row')
               /\ \A i \in 1 .. Len(queue') : InSource(queue'[i].row)
               /\ \A i \in 1 .. Len(delivered') : InSource(delivered'[i])
  BY <1>1 DEF SourceInv, InSource
<1>3. /\ InSource(row)
      /\ \A i \in 1 .. Len(queue) : InSource(queue[i].row)
      /\ \A i \in 1 .. Len(delivered) : InSource(delivered[i])
  BY DEF SourceInv
<1>4. /\ queue \in Seq(Entries) /\ delivered \in Seq(Rows) /\ row \in Seq(Segments)
      /\ saved.rows \in Nat /\ saved.rows <= Len(delivered)
  BY DEF TypeOK, StatesOK
<1>5. InSource(<< >>)
  BY DEF InSource
<1>6. row \in Rows
  BY <1>4
<1> HIDE DEF Entries, Rows
<1>7. Len(queue) \in Nat /\ Len(delivered) \in Nat
  BY <1>4, LenProperties
<1>8. CASE AddSegment
  <2>1. UNCHANGED <<queue, delivered>>
    BY <1>8 DEF AddSegment
  <2>2. PICK s \in Segments : row' = Append(row, s) /\ Begin(s) = Point(PackingState)
    BY <1>8, Cutting
  <2>3. remainder.has = TRUE /\ StateOK(PackingState)
    BY <1>8 DEF AddSegment, TypeOK, StatesOK
  <2>4. PackingState.parent = remainder.before /\ PackingState.hasRemainder
    BY <2>3 DEF PackingState
  <2>5. CursorOK(remainder.before) /\ ~SourceEnded(remainder.before)
    BY <2>3, <2>4 DEF StateOK
  <2>6. s.doc = Rolled(remainder.before)
    BY <2>2, <2>4 DEF Begin, Point
  <2>7. ~config.repeat => s.doc.epoch = 0
    BY <2>5, <2>6 DEF CursorOK, SourceEnded, Rolled
  <2>8. /\ Len(row') = Len(row) + 1 /\ Len(row) \in Nat
        /\ \A j \in 1 .. Len(row) : row'[j] = row[j]
        /\ row'[Len(row) + 1] = s
    BY <1>4, <2>2, AppendProperties, LenProperties
  <2>9. InSource(row')
    BY <1>3, <2>7, <2>8 DEF InSource
  <2> QED
    BY <1>3, <2>1, <2>9
<1>9. CASE EmitRow
  <2> DEFINE entry == [row |-> row, state |-> PackingState]
  <2>1. row' = << >> /\ queue' = Append(queue, entry) /\ delivered' = delivered
    BY <1>9 DEF EmitRow
  <2>2. entry \in Entries /\ entry.row = row
    BY <1>4 DEF StatesOK, StateOK, Entries
  <2> HIDE DEF entry
  <2>3. /\ Len(queue') = Len(queue) + 1
        /\ \A i \in 1 .. Len(queue) : queue'[i] = queue[i]
        /\ queue'[Len(queue) + 1] = entry
    BY <1>4, <2>1, <2>2, AppendProperties
  <2>4. ASSUME NEW i \in 1 .. Len(queue') PROVE InSource(queue'[i].row)
    <3>1. i \in 1 .. Len(queue) \/ i = Len(queue) + 1
      BY <1>7, <2>3
    <3> QED
      BY <1>3, <2>2, <2>3, <3>1
  <2> QED
    BY <1>3, <1>5, <2>1, <2>4
<1>10. CASE TakeRow
  <2>1. /\ queue # << >> /\ queue' = Tail(queue) /\ row' = row
        /\ delivered' = Append(delivered, Head(queue).row)
    BY <1>10 DEF TakeRow, packVars
  <2>2. /\ Head(queue) = queue[1] /\ 1 \in 1 .. Len(queue)
        /\ \A i \in 1 .. Len(queue') : queue'[i] = queue[i + 1] /\ i + 1 \in 1 .. Len(queue)
    BY <1>4, <1>7, <2>1, EmptySeq, HeadTailProperties
  <2>3. queue[1].row \in Rows
    <3>1. queue[1] \in Entries
      BY <1>4, <2>2, ElementOfSeq
    <3> QED
      BY <3>1 DEF Entries, Rows
  <2>4. /\ Len(delivered') = Len(delivered) + 1
        /\ \A i \in 1 .. Len(delivered) : delivered'[i] = delivered[i]
        /\ delivered'[Len(delivered) + 1] = queue[1].row
    BY <1>4, <2>1, <2>2, <2>3, AppendProperties
  <2>5. ASSUME NEW i \in 1 .. Len(delivered') PROVE InSource(delivered'[i])
    <3>1. i \in 1 .. Len(delivered) \/ i = Len(delivered) + 1
      BY <1>7, <2>4
    <3> QED
      BY <1>3, <2>2, <2>4, <3>1
  <2> QED
    BY <1>3, <2>1, <2>2, <2>5
<1>11. CASE Restart
  <2>1. row' = << >> /\ queue' = << >> /\ delivered' = SubSeq(delivered, 1, saved.rows)
    BY <1>11 DEF Restart, Restore
  <2>2. \A i \in 1 .. saved.rows : delivered[i] \in Rows
    BY <1>4, <1>7, ElementOfSeq
  <2>3. /\ Len(delivered') = saved.rows
        /\ \A i \in 1 .. saved.rows : delivered'[i] = delivered[i]
    BY <1>4, <2>1, <2>2, SubSeqProperties
  <2> QED
    BY <1>3, <1>4, <1>5, <1>7, <2>1, <2>3
<1>12. CASE ReadDocument \/ ReadEnd \/ Save \/ UNCHANGED vars
  <2>1. UNCHANGED <<row, queue, delivered>>
    BY <1>12 DEF ReadDocument, ReadEnd, Save, vars, packVars
  <2> QED
    BY <1>3, <2>1
<1> QED
  BY <1>8, <1>9, <1>10, <1>11, <1>12 DEF Next

(* The row that is taken next may follow what was delivered.               *)
LEMMA RowTaken ==
  ASSUME IInv, SourceInv, queue # << >>
  PROVE  Head(queue).row \in Seq(Segments) /\ RowFrom(DeliveredPoint, Head(queue).row)
<1> DEFINE Entries == [row : Seq(Segments), state : States]
           r == Head(queue).row
<1>1. config \in Configs /\ queue \in Seq(Entries)
  BY DEF IInv, TypeOK
<1> HIDE DEF Entries
<1>2. Head(queue) = queue[1] /\ 1 \in 1 .. Len(queue) /\ queue[1] \in Entries
  <2>1. Len(queue) \in Nat \ {0} /\ Head(queue) = queue[1]
    BY <1>1, EmptySeq
  <2> QED
    BY <1>1, <2>1, ElementOfSeq
<1>3. r \in Seq(Segments) /\ r = queue[1].row
  BY <1>2 DEF Entries
<1> HIDE DEF r
<1>4. /\ r # << >> /\ RowLeads(Point(state), r, Point(queue[1].state))
      /\ RowFits(r) /\ InSource(r)
      /\ RowIsFull(r) \/ queue[1].state.finished
      /\ StateOK(queue[1].state)
  <2>1. StateBefore(queue, state, 1) = state
    BY DEF StateBefore
  <2> QED
    BY <1>2, <1>3, <2>1 DEF IInv, Chain, Fits, StatesOK, SourceInv
<1>5. /\ SegmentsJoined(r) /\ Joined(Point(state), Begin(r[1]))
      /\ Joined(End(LastOf(r)), Point(queue[1].state))
  BY <1>4 DEF RowLeads
<1>6. Joined(DeliveredPoint, Begin(r[1]))
  <2>1. Begin(r[1]) \in Points /\ Point(state) \in Points
    BY <1>1, <1>3, <1>4, SegmentPoints, PointType DEF IInv, StatesOK
  <2> QED
    BY <1>1, <1>5, <2>1, DeliveredTo, JoinedTransitive
<1>7. RowIsFull(r) \/ Final(r)
  BY <1>4, <1>5, FinishedPoint DEF Final
<1>8. RowFrom(DeliveredPoint, r)
  BY <1>4, <1>5, <1>6, <1>7 DEF RowFrom
<1> QED
  BY <1>3, <1>8 DEF r

LEMMA RowFromFixed ==
  ASSUME config' = config
  PROVE  /\ \A p, r : RowFrom(p, r)' = RowFrom(p, r)
         /\ \A h, i : PointBefore(h, i)' = PointBefore(h, i)
<1>1. \A r : SegmentsJoined(r)' = SegmentsJoined(r)
  BY ConfigFixed DEF SegmentsJoined
<1>2. \A r : Final(r)' = Final(r) /\ InSource(r)' = InSource(r) /\ RowIsFull(r)' = RowIsFull(r)
  BY ConfigFixed DEF Final, InSource, RowIsFull
<1>3. \A p, r : RowFrom(p, r)' = RowFrom(p, r)
  BY <1>1, <1>2, ConfigFixed, FitsFixed DEF RowFrom
<1> QED
  BY <1>3 DEF PointBefore

(* The history is continued as it was the first time.                      *)
LEMMA SeenStep ==
  ASSUME IInv, SourceInv, SeenInv, [Next]_vars
  PROVE  SeenInv'
<1> DEFINE Rows == Seq(Segments)
           n == Len(delivered)
<1>1. config' = config /\ config \in Configs
  BY DEF Next, vars, IInv, TypeOK, ReadDocument, ReadEnd, AddSegment, EmitRow, TakeRow, Save, Restart
<1>2. SUFFICES
        /\ Len(delivered') <= Len(seen')
        /\ \A i \in 1 .. Len(delivered') : delivered'[i] = seen'[i]
        /\ \A i \in 1 .. Len(seen') : RowFrom(PointBefore(seen', i), seen'[i])
  BY <1>1, RowFromFixed DEF SeenInv
<1>3. /\ Len(delivered) <= Len(seen)
      /\ \A i \in 1 .. Len(delivered) : delivered[i] = seen[i]
      /\ \A i \in 1 .. Len(seen) : RowFrom(PointBefore(seen, i), seen[i])
  BY DEF SeenInv
<1>4. /\ delivered \in Seq(Rows) /\ seen \in Seq(Rows)
      /\ saved.rows \in Nat /\ saved.rows <= Len(delivered)
  BY DEF IInv, TypeOK, StatesOK
<1> HIDE DEF Rows
<1>5. Len(delivered) \in Nat /\ Len(seen) \in Nat
  BY <1>4, LenProperties
<1>6. CASE TakeRow
  <2> DEFINE r == Head(queue).row
  <2>1. /\ queue # << >> /\ delivered' = Append(delivered, r)
        /\ seen' = IF Len(delivered) < Len(seen) THEN seen ELSE delivered'
    BY <1>6 DEF TakeRow
  <2>2. r \in Rows /\ RowFrom(DeliveredPoint, r) /\ DeliveredPoint \in Points
    BY <2>1, RowTaken, DeliveredTo DEF Rows
  <2> HIDE DEF r
  <2>3. /\ Len(delivered') = n + 1 /\ \A i \in 1 .. n : delivered'[i] = delivered[i]
        /\ delivered'[n + 1] = r
    BY <1>4, <2>1, <2>2, AppendProperties
  <2>4. DeliveredPoint = PointBefore(delivered, n + 1)
    BY <1>4, <1>5, EmptySeq DEF DeliveredPoint, PointBefore, LastOf
  <2>5. CASE n < Len(seen)
    <3>1. n + 1 \in 1 .. Len(seen)
      BY <1>5, <2>5
    <3>2. PointBefore(seen, n + 1) = DeliveredPoint
      BY <1>3, <1>5, <2>4 DEF PointBefore
    <3>3. seen[n + 1] \in Rows /\ RowFrom(DeliveredPoint, seen[n + 1])
      BY <1>3, <1>4, <3>1, <3>2, ElementOfSeq
    <3>4. r = seen[n + 1]
      BY <1>1, <2>2, <3>3, SameRow DEF Rows
    <3>5. ASSUME NEW i \in 1 .. Len(delivered') PROVE delivered'[i] = seen[i]
      <4>1. i \in 1 .. n \/ i = n + 1
        BY <1>5, <2>3
      <4> QED
        BY <1>3, <2>3, <3>4, <4>1
    <3> QED
      BY <1>3, <1>5, <2>1, <2>3, <2>5, <3>5
  <2>6. CASE ~(n < Len(seen))
    <3>1. seen' = delivered' /\ Len(seen) = n
      BY <1>3, <1>5, <2>1, <2>6
    <3>2. ASSUME NEW i \in 1 .. Len(delivered')
          PROVE  RowFrom(PointBefore(delivered', i), delivered'[i])
      <4>1. CASE i = n + 1
        <5>1. PointBefore(delivered', i) = DeliveredPoint
          BY <1>5, <2>3, <2>4, <4>1 DEF PointBefore
        <5> QED
          BY <2>2, <2>3, <4>1, <5>1
      <4>2. CASE i # n + 1
        <5>1. i \in 1 .. n /\ (i # 1 => i - 1 \in 1 .. n)
          BY <1>5, <2>3, <4>2
        <5>2. delivered'[i] = seen[i] /\ (i # 1 => delivered'[i - 1] = seen[i - 1])
          BY <1>3, <2>3, <5>1
        <5>3. PointBefore(delivered', i) = PointBefore(seen, i)
          BY <5>2 DEF PointBefore
        <5> QED
          BY <1>3, <3>1, <5>1, <5>2, <5>3
      <4> QED
        BY <4>1, <4>2
    <3> QED
      BY <1>5, <2>3, <3>1, <3>2
  <2> QED
    BY <2>5, <2>6
<1>7. CASE Restart
  <2>1. delivered' = SubSeq(delivered, 1, saved.rows) /\ seen' = seen
    BY <1>7 DEF Restart
  <2>2. \A i \in 1 .. saved.rows : delivered[i] \in Rows
    BY <1>4, <1>5, ElementOfSeq
  <2>3. /\ Len(delivered') = saved.rows
        /\ \A i \in 1 .. saved.rows : delivered'[i] = delivered[i]
    BY <1>4, <2>1, <2>2, SubSeqProperties
  <2> QED
    BY <1>3, <1>4, <1>5, <2>1, <2>3
<1>8. CASE ReadDocument \/ ReadEnd \/ AddSegment \/ EmitRow \/ Save \/ UNCHANGED vars
  <2>1. UNCHANGED <<delivered, seen>>
    BY <1>8 DEF ReadDocument, ReadEnd, AddSegment, EmitRow, Save, vars
  <2> QED
    BY <1>3, <2>1
<1> QED
  BY <1>6, <1>7, <1>8 DEF Next

(* A step of the loader is a step of the stream it promises.               *)
Resumption == INSTANCE ResumableStream WITH
                out <- delivered, seen <- seen, saved <- saved.rows

LEMMA ResumptionStep ==
  ASSUME IInv, SeenInv, SeenInv', [Next]_vars
  PROVE  [Resumption!Next]_(Resumption!vars)
<1> DEFINE Rows == Seq(Segments)
<1>1. /\ delivered \in Seq(Rows) /\ seen \in Seq(Rows) /\ saved.rows \in Nat
  BY DEF IInv, TypeOK
<1> HIDE DEF Rows
<1>2. Len(delivered) \in Nat /\ Len(seen) \in Nat
  BY <1>1, LenProperties
<1>3. CASE TakeRow
  <2> DEFINE r == Head(queue).row
             n == Len(delivered)
  <2>1. /\ queue # << >> /\ delivered' = Append(delivered, r) /\ saved' = saved
        /\ seen' = IF Len(delivered) < Len(seen) THEN seen ELSE delivered'
    BY <1>3 DEF TakeRow
  <2>2. r \in Rows
    <3> DEFINE Entries == [row : Seq(Segments), state : States]
    <3>1. queue \in Seq(Entries)
      BY DEF IInv, TypeOK
    <3> HIDE DEF Entries
    <3>2. Len(queue) \in Nat \ {0} /\ Head(queue) = queue[1]
      BY <2>1, <3>1, EmptySeq
    <3>3. queue[1] \in Entries
      BY <3>1, <3>2, ElementOfSeq
    <3> QED
      BY <3>2, <3>3 DEF Entries, Rows
  <2> HIDE DEF r
  <2>3. /\ delivered' \in Seq(Rows) /\ Len(delivered') = n + 1
        /\ \A i \in 1 .. n : delivered'[i] = delivered[i]
    BY <1>1, <2>1, <2>2, AppendProperties
  <2>4. SubSeq(delivered', 1, n) = delivered
    <3>1. \A i \in 1 .. n : delivered'[i] \in Rows
      BY <1>1, <2>3, ElementOfSeq
    <3>2. /\ SubSeq(delivered', 1, n) \in Seq(Rows) /\ Len(SubSeq(delivered', 1, n)) = n
          /\ \A i \in 1 .. n : SubSeq(delivered', 1, n)[i] = delivered[i]
      BY <1>2, <2>3, <3>1, SubSeqProperties
    <3> QED
      BY <1>1, <3>2, SeqEqual
  <2>5. delivered' = SubSeq(seen', 1, n + 1)
    <3>1. seen' \in Seq(Rows)
      BY <1>1, <2>1, <2>3
    <3>2. /\ n + 1 <= Len(seen') /\ \A i \in 1 .. n + 1 : delivered'[i] = seen'[i]
      BY <2>3 DEF SeenInv
    <3>3. Len(seen') \in Nat /\ n + 1 \in Nat
      BY <1>2, <3>1, LenProperties
    <3>4. \A i \in 1 .. n + 1 : seen'[i] \in Rows
      BY <3>1, <3>2, <3>3, ElementOfSeq
    <3>5. /\ SubSeq(seen', 1, n + 1) \in Seq(Rows) /\ Len(SubSeq(seen', 1, n + 1)) = n + 1
          /\ \A i \in 1 .. n + 1 : SubSeq(seen', 1, n + 1)[i] = seen'[i]
      BY <3>3, <3>4, SubSeqProperties
    <3> QED
      BY <2>3, <3>2, <3>5, SeqEqual
  <2>6. Resumption!Deliver
    BY <2>1, <2>3, <2>4, <2>5 DEF Resumption!Deliver
  <2> QED
    BY <2>6 DEF Resumption!Next
<1>4. CASE Save
  <2>1. Resumption!Save
    BY <1>4 DEF Save, Resumption!Save
  <2> QED
    BY <2>1 DEF Resumption!Next
<1>5. CASE Restart
  <2>1. Resumption!Restart
    BY <1>5 DEF Restart, Resumption!Restart
  <2> QED
    BY <2>1 DEF Resumption!Next
<1>6. CASE ReadDocument \/ ReadEnd \/ AddSegment \/ EmitRow \/ UNCHANGED vars
  <2>1. UNCHANGED <<delivered, seen, saved>>
    BY <1>6 DEF ReadDocument, ReadEnd, AddSegment, EmitRow, vars
  <2> QED
    BY <2>1 DEF Resumption!vars
<1> QED
  BY <1>3, <1>4, <1>5, <1>6 DEF Next

RowsInv == IInv /\ SourceInv /\ SeenInv

LEMMA RowsInvInit ==
  ASSUME Init
  PROVE  RowsInv /\ Resumption!Init
<1>1. IInv
  BY InitStates, InitChain, InitFits DEF IInv
<1>2. /\ row = << >> /\ queue = << >> /\ delivered = << >> /\ seen = << >> /\ saved.rows = 0
  BY DEF Init
<1>3. SourceInv /\ SeenInv
  BY <1>2 DEF SourceInv, SeenInv, InSource
<1> QED
  BY <1>1, <1>2, <1>3 DEF RowsInv, Resumption!Init

LEMMA RowsInvStep ==
  ASSUME RowsInv, [Next]_vars
  PROVE  RowsInv' /\ [Resumption!Next]_(Resumption!vars)
<1>1. IInv'
  BY StepStates, StepChain, StepFits DEF RowsInv, IInv
<1>2. SourceInv' /\ SeenInv'
  BY SourceStep, SeenStep DEF RowsInv, IInv
<1>3. [Resumption!Next]_(Resumption!vars)
  BY <1>2, ResumptionStep DEF RowsInv
<1> QED
  BY <1>1, <1>2, <1>3 DEF RowsInv

(* The rows of one rank are one sequence, and a restart continues it from  *)
(* the row after the last save: what was delivered after the save comes    *)
(* again, the same rows in the same order, whatever was prefetched.        *)
THEOREM RowsRepeat == Spec => Resumption!Spec
<1>1. Init => RowsInv /\ Resumption!Init
  BY RowsInvInit
<1>2. RowsInv /\ [Next]_vars => RowsInv' /\ [Resumption!Next]_(Resumption!vars)
  BY RowsInvStep
<1> QED
  BY <1>1, <1>2, PTL DEF Spec, Resumption!Spec
===============================================================================
