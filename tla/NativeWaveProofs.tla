--------------------------- MODULE NativeWaveProofs ---------------------------
(***************************************************************************)
(* The wave engine: its pool, its staging buffers and what it returns, for *)
(* every length, decomposition, grouping into waves and interleaving of    *)
(* the host and the stream.                                                *)
(***************************************************************************)
EXTENDS NativeWave, DecompositionProofs

\* Ranks in a finite set of numbers grow with the number.
LEMMA RankGrows ==
    ASSUME NEW T, T \subseteq Int, IsFiniteSet(T)
    PROVE  /\ Cardinality(T) \in Nat
           /\ \A x \in T : Rank(T, x) \in 0 .. Cardinality(T) - 1
           /\ \A x, y \in T : x < y => Rank(T, x) < Rank(T, y)
           /\ \A x, y \in T : Rank(T, x) = Rank(T, y) => x = y
<1> DEFINE Below(x) == {w \in T : w < x}
<1>1. \A x \in Int : IsFiniteSet(Below(x)) /\ Cardinality(Below(x)) \in Nat
  <2> TAKE x \in Int
  <2>1. Below(x) \in SUBSET T
    OBVIOUS
  <2>2. QED
    BY <2>1, FS_Subset, FS_CardinalityType
<1>2. \A x \in T : \A V : IsFiniteSet(V) /\ Below(x) \subseteq V /\ x \in V =>
          Cardinality(Below(x)) < Cardinality(V)
  <2> TAKE x \in T
  <2> TAKE V
  <2> HAVE IsFiniteSet(V) /\ Below(x) \subseteq V /\ x \in V
  <2>1. Below(x) \in SUBSET V /\ Below(x) # V
    OBVIOUS
  <2>2. Cardinality(Below(x)) <= Cardinality(V) /\ Cardinality(Below(x)) # Cardinality(V)
    BY <2>1, FS_Subset
  <2>3. Cardinality(V) \in Nat /\ Cardinality(Below(x)) \in Nat
    BY <1>1, FS_CardinalityType
  <2>4. QED
    BY <2>2, <2>3
<1>3. Cardinality(T) \in Nat
  BY FS_CardinalityType
<1>4. \A x \in T : Cardinality(Below(x)) < Cardinality(T)
  BY <1>2
<1>5. \A x, y \in T : x < y => Cardinality(Below(x)) < Cardinality(Below(y))
  <2> TAKE x, y \in T
  <2> HAVE x < y
  <2>1. \A w \in T : w < x => w < y
    OBVIOUS
  <2>2. Below(x) \subseteq Below(y) /\ x \in Below(y)
    BY <2>1
  <2>3. x \in Int /\ y \in Int
    OBVIOUS
  <2>4. QED
    BY <2>2, <2>3, <1>1, <1>2
<1>6. \A x \in Int : Rank(T, x) = Cardinality(Below(x))
  BY DEF Rank
<1> HIDE DEF Below
<1>7. \A x \in T : Rank(T, x) \in 0 .. Cardinality(T) - 1
  BY <1>1, <1>3, <1>4, <1>6
<1>8. \A x, y \in T : x < y => Rank(T, x) < Rank(T, y)
  BY <1>5, <1>6
<1>9. QED
  BY <1>3, <1>7, <1>8

\* The list of a finite set of numbers has each of them at its rank.
LEMMA AscendingIs ==
    ASSUME NEW T, T \subseteq Int, IsFiniteSet(T)
    PROVE  /\ Cardinality(T) \in Nat
           /\ Ascending(T) \in Seq(T) /\ Len(Ascending(T)) = Cardinality(T)
           /\ DOMAIN Ascending(T) = 1 .. Cardinality(T)
           /\ \A r \in 1 .. Cardinality(T) :
                 Ascending(T)[r] \in T /\ Rank(T, Ascending(T)[r]) = r - 1
           /\ \A x \in T : /\ Rank(T, x) \in 0 .. Cardinality(T) - 1
                           /\ Ascending(T)[Rank(T, x) + 1] = x
<1> DEFINE n == Cardinality(T)
           f == [x \in T |-> Rank(T, x)]
<1>1. n \in Nat /\ \A x \in T : Rank(T, x) \in 0 .. n - 1
  BY RankGrows
<1>2. \A x, y \in T : Rank(T, x) = Rank(T, y) => x = y
  BY RankGrows
<1> HIDE DEF n
<1>3. f \in Injection(T, 0 .. n - 1)
  BY <1>1, <1>2 DEF Injection, IsInjective
<1>4. IsFiniteSet(0 .. n - 1) /\ Cardinality(0 .. n - 1) = n
  BY <1>1, FS_Interval
<1>5. f \in Surjection(T, 0 .. n - 1)
  BY <1>3, <1>4, FS_Injection DEF n
<1>6. \A r \in 0 .. n - 1 : \E x \in T : Rank(T, x) = r
  BY <1>5 DEF Surjection
<1>7. \A r \in 1 .. n : Ascending(T)[r] \in T /\ Rank(T, Ascending(T)[r]) = r - 1
  <2> TAKE r \in 1 .. n
  <2>1. r - 1 \in 0 .. n - 1
    BY <1>1
  <2>2. \E x \in T : Rank(T, x) = r - 1
    BY <2>1, <1>6
  <2>3. Ascending(T)[r] = CHOOSE x \in T : Rank(T, x) = r - 1
    BY DEF Ascending, n
  <2>4. QED
    BY <2>2, <2>3
<1>8. DOMAIN Ascending(T) = 1 .. n /\ Ascending(T) \in Seq(T) /\ Len(Ascending(T)) = n
  <2>1. Ascending(T) = [r \in 1 .. n |-> Ascending(T)[r]]
    BY DEF Ascending, n
  <2>2. QED
    BY <2>1, <1>7, <1>1
<1>9. \A x \in T : Ascending(T)[Rank(T, x) + 1] = x
  <2> TAKE x \in T
  <2> DEFINE r == Rank(T, x)
  <2>1. r + 1 \in 1 .. n /\ r \in Int
    BY <1>1
  <2>2. Ascending(T)[r + 1] \in T /\ Rank(T, Ascending(T)[r + 1]) = r
    BY <2>1, <1>7
  <2>3. QED
    BY <2>2, <1>2
<1>10. QED
  BY <1>1, <1>7, <1>8, <1>9 DEF n

-----------------------------------------------------------------------------
(* Blocks of Align tokens stay together.                                     *)

\* A set that has a token has every token of its block.
BlockClosed(T) ==
    \A u \in T, v \in Token : u \div Align = v \div Align => v \in T

\* Quotient and remainder of a token by the block.
LEMMA BlockOf ==
    ASSUME NEW u \in Nat
    PROVE  /\ Align \in Nat \ {0}
           /\ u \div Align \in Nat /\ u % Align \in 0 .. Align - 1
           /\ u = Align * (u \div Align) + (u % Align)
           /\ Align * (u \div Align) \in Nat
  BY DecompositionAssumption

\* A number is in the block between whose ends it lies.
LEMMA BlockIs ==
    ASSUME NEW m \in Nat, NEW r \in 0 .. Align - 1
    PROVE  /\ Align * m \in Nat
           /\ (Align * m + r) \div Align = m /\ (Align * m + r) % Align = r
<1>1. Align \in Nat \ {0}
  BY DecompositionAssumption
<1>2. Align * m \in Nat
  BY <1>1
<1> DEFINE x == Align * m + r
           d == x \div Align
           e == x % Align
<1>3. x \in Nat
  BY <1>1, <1>2
<1>4. d \in Nat /\ e \in 0 .. Align - 1 /\ x = Align * d + e
  BY <1>3, BlockOf
<1> HIDE DEF d, e
<1>5. ASSUME d < m PROVE FALSE
  <2>1. Align * (d + 1) <= Align * m /\ Align * (d + 1) = Align * d + Align
    BY <1>1, <1>4, <1>5
  <2>2. QED
    BY <1>1, <1>2, <1>4, <2>1
<1>6. ASSUME m < d PROVE FALSE
  <2>1. Align * (m + 1) <= Align * d /\ Align * (m + 1) = Align * m + Align
    BY <1>1, <1>4, <1>6
  <2>2. QED
    BY <1>1, <1>2, <1>4, <2>1
<1>7. d = m
  BY <1>4, <1>5, <1>6
<1>8. e = r
  BY <1>1, <1>2, <1>4, <1>7
<1>9. QED
  BY <1>2, <1>7, <1>8 DEF d, e

\* The members before a full block fill whole blocks.
LEMMA BlocksBefore ==
    ASSUME NEW T, T \subseteq Token, BlockClosed(T), NEW m \in Nat, Align * m <= N
    PROVE  \E q \in Nat : Cardinality({w \in T : w < Align * m}) = Align * q
<1> DEFINE Before(k) == {w \in T : w < Align * k}
           H == {k \in Nat : Align * k <= N => \E q \in Nat : Cardinality(Before(k)) = Align * q}
<1>1. Align \in Nat \ {0} /\ N \in Nat /\ T \subseteq Nat
  BY DecompositionAssumption DEF Token
<1>2. 0 \in H
  <2>1. Before(0) = {}
    <3>1. Align * 0 = 0 /\ \A w \in T : ~(w < 0)
      BY <1>1
    <3>2. QED
      BY <3>1
  <2>2. Cardinality(Before(0)) = Align * 0
    BY <2>1, <1>1, FS_EmptySet
  <2>3. QED
    BY <2>2
<1>3. ASSUME NEW k \in Nat, k \in H PROVE k + 1 \in H
  <2> SUFFICES ASSUME Align * (k + 1) <= N
               PROVE  \E q \in Nat : Cardinality(Before(k + 1)) = Align * q
    BY <1>3
  <2> DEFINE a == Align * k
             Block == a .. (a + Align - 1)
  <2>1. a \in Nat /\ Align * (k + 1) = a + Align
    BY <1>1
  <2>2. a <= N
    BY <1>1, <2>1
  <2>3. PICK q \in Nat : Cardinality(Before(k)) = Align * q
    BY <1>3, <2>2
  <2>4. \A w \in Block : w \in Token /\ w \div Align = k
    <3> TAKE w \in Block
    <3> DEFINE r == w - a
    <3>1. r \in 0 .. Align - 1 /\ w = a + r /\ w \in 0 .. N - 1
      BY <1>1, <2>1
    <3>2. QED
      BY <3>1, BlockIs DEF Token
  <2>5. IsFiniteSet(Before(k)) /\ Cardinality(Before(k)) \in Nat
    <3>1. IsFiniteSet(Token)
      BY <1>1, FS_Interval DEF Token
    <3>2. Before(k) \in SUBSET Token
      OBVIOUS
    <3>3. QED
      BY <3>1, <3>2, FS_Subset, FS_CardinalityType
  <2>6. IsFiniteSet(Block) /\ Cardinality(Block) = Align
    BY <1>1, <2>1, FS_Interval
  <2>7. CASE T \cap Block = {}
    <3>1. Before(k + 1) = Before(k)
      <4>1. \A w \in T : w < Align * (k + 1) => w < a
        BY <1>1, <2>1, <2>7
      <4>2. \A w \in T : w < a => w < Align * (k + 1)
        BY <1>1, <2>1
      <4>3. QED
        BY <4>1, <4>2
    <3>2. QED
      BY <3>1, <2>3
  <2>8. CASE T \cap Block # {}
    <3>1. Block \subseteq T
      BY <2>4, <2>8 DEF BlockClosed
    <3>2. Before(k + 1) = Before(k) \cup Block
      <4>1. \A w \in T : w < Align * (k + 1) => w < a \/ w \in Block
        BY <1>1, <2>1
      <4>2. \A w \in T : w < a \/ w \in Block => w < Align * (k + 1)
        BY <1>1, <2>1
      <4>3. QED
        BY <3>1, <4>1, <4>2
    <3>3. Before(k) \cap Block = {}
      BY <1>1, <2>1
    <3> HIDE DEF Block, Before
    <3>4. Cardinality(Before(k + 1)) = Cardinality(Before(k)) + Cardinality(Block)
      <4>1. Cardinality(Before(k) \cup Block)
              = Cardinality(Before(k)) + Cardinality(Block) - Cardinality(Before(k) \cap Block)
        BY <2>5, <2>6, FS_Union
      <4>2. Cardinality(Before(k) \cap Block) = 0
        BY <3>3, FS_EmptySet
      <4>3. QED
        BY <4>1, <4>2, <3>2, <2>5, <2>6, <1>1
    <3>5. Cardinality(Before(k + 1)) = Align * (q + 1) /\ q + 1 \in Nat
      BY <3>4, <2>3, <2>6, <1>1
    <3>6. QED
      BY <3>5
  <2>9. QED
    BY <2>7, <2>8
<1>4. \A k \in Nat : k \in H
  <2> HIDE DEF H
  <2>1. QED
    BY <1>2, <1>3, Induction
<1>5. QED
  BY <1>4

\* In a set made of whole blocks the ranks of a block are consecutive and start at a
\* multiple of the block.
LEMMA BlockRank ==
    ASSUME NEW T, T \subseteq Token, BlockClosed(T), NEW u \in T
    PROVE  \E q \in Nat : \A v \in Token :
              v \div Align = u \div Align => v \in T /\ Rank(T, v) = Align * q + (v % Align)
<1> DEFINE m == u \div Align
           a == Align * m
           First == {w \in T : w < a}
<1>1. Align \in Nat \ {0} /\ N \in Nat /\ T \subseteq Nat
  BY DecompositionAssumption DEF Token
<1>2. m \in Nat /\ a \in Nat /\ a <= u /\ u < N
  BY <1>1, BlockOf DEF Token
<1>3. PICK q \in Nat : Cardinality(First) = Align * q
  <2>1. Align * m <= N
    BY <1>1, <1>2
  <2> HIDE DEF m
  <2>2. QED
    BY <1>2, <2>1, BlocksBefore
<1>4. ASSUME NEW v \in Token, v \div Align = m
      PROVE  v \in T /\ Rank(T, v) = Align * q + (v % Align)
  <2> DEFINE Rest == a .. v - 1
  <2>1. v \in Nat /\ v < N /\ v = a + (v % Align) /\ v % Align \in 0 .. Align - 1
    BY <1>1, <1>4, BlockOf DEF Token
  <2>2. v \in T
    BY <1>4 DEF BlockClosed
  <2>3. \A w \in Rest : w \in Token /\ w \div Align = m
    <3> TAKE w \in Rest
    <3> DEFINE r == w - a
    <3>1. r \in 0 .. Align - 1 /\ w = a + r /\ w \in 0 .. N - 1
      BY <1>1, <1>2, <2>1
    <3>2. QED
      BY <3>1, <1>2, BlockIs DEF Token
  <2>4. Rest \subseteq T
    BY <2>3 DEF BlockClosed
  <2> HIDE DEF m, a
  <2>5. {w \in T : w < v} = First \cup Rest
    <3>1. \A w \in T : w < v => w < a \/ w \in Rest
      BY <1>1, <1>2, <2>1
    <3>2. \A w \in T : w < a \/ w \in Rest => w < v
      BY <1>1, <1>2, <2>1
    <3>3. QED
      BY <2>4, <3>1, <3>2
  <2>6. First \cap Rest = {}
    BY <1>1, <1>2
  <2>7. IsFiniteSet(First)
    <3>1. IsFiniteSet(Token)
      BY <1>1, FS_Interval DEF Token
    <3>2. First \in SUBSET Token
      OBVIOUS
    <3>3. QED
      BY <3>1, <3>2, FS_Subset
  <2>8. IsFiniteSet(Rest) /\ Cardinality(Rest) = v % Align
    <3>1. v - 1 \in Int /\ a \in Int
      BY <1>2, <2>1
    <3>2. IsFiniteSet(Rest) /\ Cardinality(Rest) = IF a > v - 1 THEN 0 ELSE (v - 1) - a + 1
      BY <3>1, FS_Interval
    <3>3. QED
      BY <3>1, <3>2, <2>1
  <2> HIDE DEF First, Rest
  <2>9. Cardinality(First \cup Rest) = Cardinality(First) + Cardinality(Rest) - 0
    BY <2>6, <2>7, <2>8, FS_Union, FS_EmptySet
  <2>10. Rank(T, v) = Align * q + (v % Align)
    <3>1. Rank(T, v) = Cardinality(First \cup Rest)
      BY <2>5 DEF Rank
    <3>2. Align * q \in Nat
      BY <1>1
    <3>3. QED
      BY <3>1, <3>2, <1>3, <2>1, <2>8, <2>9
  <2>11. QED
    BY <2>2, <2>10
<1>5. QED
  BY <1>4

-----------------------------------------------------------------------------
(* A block lies in one chunk, and the tokens of a task in the chunks of its  *)
(* first owner.                                                              *)

\* A chunk begins and ends with a block, or ends with the sequence.
LEMMA SameChunk ==
    ASSUME NEW L \in Nat, NEW q \in Nat, NEW r \in 0 .. Align - 1, NEW s \in 0 .. Align - 1,
           Align * q + r < L, Align * q + s < L
    PROVE  ChunkAt(L, Align * q + r) = ChunkAt(L, Align * q + s)
<1> DEFINE a == Align * q
           Lower(k) == k * ((L \div Align) \div C)
                       + (IF k < (L \div Align) % C THEN k ELSE (L \div Align) % C)
           Has(k, p) == ChunkStart(L, k) <= p /\ p < ChunkEnd(L, k)
<1>1. Align \in Nat \ {0} /\ C \in Nat \ {0} /\ a \in Nat
  BY DecompositionAssumption
<1>2. \A k \in Int : Lower(k) \in Int
  <2>1. L \div Align \in Nat
    BY <1>1
  <2>2. (L \div Align) \div C \in Nat /\ (L \div Align) % C \in Nat
    BY <1>1, <2>1
  <2> HIDE DEF a
  <2>3. QED
    BY <2>2
<1>3. \A k : ChunkStart(L, k) = Align * Lower(k)
  BY DEF ChunkStart
<1> HIDE DEF Lower
<1>4. \A m \in Int, x \in 0 .. Align - 1 : Align * m <= a + x <=> m <= q
  <2> TAKE m \in Int, x \in 0 .. Align - 1
  <2>1. m <= q => Align * m <= a
    BY <1>1
  <2>2. q + 1 <= m => Align * (q + 1) <= Align * m
    BY <1>1
  <2>3. Align * (q + 1) = a + Align /\ Align * m \in Int
    BY <1>1
  <2> HIDE DEF a
  <2>4. QED
    BY <1>1, <2>1, <2>2, <2>3
<1> HIDE DEF a
<1>5. \A k \in Chunk : Has(k, a + r) <=> Has(k, a + s)
  <2> TAKE k \in Chunk
  <2>1. k \in Int /\ k + 1 \in Int
    BY <1>1 DEF Chunk
  <2>2. ChunkStart(L, k) <= a + r <=> ChunkStart(L, k) <= a + s
    BY <1>2, <1>3, <1>4, <2>1
  <2>3. k # C - 1 => (a + r < ChunkEnd(L, k) <=> a + s < ChunkEnd(L, k))
    <3> SUFFICES ASSUME k # C - 1 PROVE a + r < ChunkEnd(L, k) <=> a + s < ChunkEnd(L, k)
      OBVIOUS
    <3>1. ChunkEnd(L, k) = Align * Lower(k + 1) /\ Lower(k + 1) \in Int
      BY <1>2, <1>3, <2>1 DEF ChunkEnd
    <3>2. Align * Lower(k + 1) <= a + r <=> Align * Lower(k + 1) <= a + s
      BY <1>4, <3>1
    <3>3. Align * Lower(k + 1) \in Int /\ a + r \in Int /\ a + s \in Int
      BY <1>1, <3>1
    <3>4. QED
      BY <3>1, <3>2, <3>3
  <2>4. k = C - 1 => a + r < ChunkEnd(L, k) /\ a + s < ChunkEnd(L, k)
    BY DEF ChunkEnd, a
  <2>5. QED
    BY <2>2, <2>3, <2>4
<1>6. ChunkAt(L, a + r) = (CHOOSE k \in Chunk : Has(k, a + r))
  BY DEF ChunkAt
<1>7. ChunkAt(L, a + s) = (CHOOSE k \in Chunk : Has(k, a + s))
  BY DEF ChunkAt
<1> HIDE DEF Has
<1>8. (CHOOSE k \in Chunk : Has(k, a + r)) = (CHOOSE k \in Chunk : Has(k, a + s))
  BY <1>5
<1>9. QED
  BY <1>6, <1>7, <1>8 DEF a

\* A child gathers whole blocks if its parent does.
LEMMA ChildBlocks ==
    ASSUME NEW t, WellFormed(t), BlockClosed(t.tokens), NEW j \in Chunk
    PROVE  BlockClosed(Child(t, j).tokens)
<1> DEFINE T == t.tokens
<1>1. T \subseteq Token /\ Child(t, j).tokens = {u \in T : Label(t, u) \in QuorumChunks(j)}
  BY DEF WellFormed, Child
<1>2. ASSUME NEW u \in T, NEW v \in Token, u \div Align = v \div Align
      PROVE  v \in T /\ Label(t, v) = Label(t, u)
  <2>1. PICK q \in Nat : \A w \in Token :
           w \div Align = u \div Align => w \in T /\ Rank(T, w) = Align * q + (w % Align)
    BY <1>1, BlockRank
  <2>2. v \in T /\ Rank(T, v) = Align * q + (v % Align) /\ Rank(T, u) = Align * q + (u % Align)
    BY <1>1, <1>2, <2>1
  <2>3. u % Align \in 0 .. Align - 1 /\ v % Align \in 0 .. Align - 1
    BY <1>1, <1>2, BlockOf, DecompositionAssumption DEF Token
  <2>4. /\ Cardinality(T) \in Nat
        /\ Rank(T, u) \in 0 .. Cardinality(T) - 1 /\ Rank(T, v) \in 0 .. Cardinality(T) - 1
    BY <1>1, <1>2, <2>2, RankType
  <2>5. ChunkAt(Cardinality(T), Rank(T, u)) = ChunkAt(Cardinality(T), Rank(T, v))
    <3> DEFINE L == Cardinality(T)
               x == Rank(T, u)
               y == Rank(T, v)
    <3>1. L \in Nat /\ x < L /\ y < L
      BY <2>4
    <3>2. x = Align * q + (u % Align) /\ y = Align * q + (v % Align)
      BY <2>2
    <3> HIDE DEF L, x, y
    <3>3. ChunkAt(L, x) = ChunkAt(L, y)
      BY <2>3, <3>1, <3>2, SameChunk
    <3>4. QED
      BY <3>3 DEF L, x, y
  <2>6. QED
    BY <2>2, <2>5 DEF Label
<1>3. QED
  BY <1>1, <1>2 DEF BlockClosed

\* Subproblems gather whole blocks, of chunks of their first owner's quorum.
LEMMA TaskBlocks ==
    \A p \in Path :
        /\ TaskOf[p].tokens \subseteq Token
        /\ BlockClosed(TaskOf[p].tokens)
        /\ p # <<>> => /\ p[1] \in Chunk
                       /\ \A u \in TaskOf[p].tokens : ChunkAt(N, u) \in QuorumChunks(p[1])
<1> DEFINE Good(p) ==
        /\ BlockClosed(TaskOf[p].tokens)
        /\ p # <<>> => /\ p[1] \in Chunk
                       /\ \A u \in TaskOf[p].tokens : ChunkAt(N, u) \in QuorumChunks(p[1])
           H == {d \in Nat : \A p \in Path : Len(p) = d => Good(p)}
<1>1. 0 \in H
  <2>1. \A p \in Path : Len(p) = 0 => p = <<>>
    BY PathIs
  <2>2. BlockClosed(Root.tokens)
    BY DEF BlockClosed, Root
  <2>3. QED
    BY <2>1, <2>2, TaskOfIs
<1>2. ASSUME NEW d \in Nat, d \in H PROVE d + 1 \in H
  <2> SUFFICES ASSUME NEW p \in Path, Len(p) = d + 1 PROVE Good(p)
    OBVIOUS
  <2>1. p # <<>> /\ p \in Seq(Chunk)
    BY PathIs
  <2>2. /\ Front(p) \in Path /\ Last(p) \in Chunk /\ Len(Front(p)) = d
        /\ p = Append(Front(p), Last(p)) /\ Len(Front(p)) < Deepest
    <3>1. Front(p) \in Path /\ Last(p) \in Chunk /\ Len(Front(p)) = d /\ d + 1 <= Deepest
      BY <2>1, PathStep, PathIs
    <3>2. p = Append(Front(p), Last(p))
      BY <2>1 DEF Front, Last
    <3>3. QED
      BY <3>1, <3>2, DeepestType
  <2> DEFINE t == TaskOf[Front(p)]
             j == Last(p)
  <2>3. TaskOf[p] = Child(t, j)
    BY <2>2, TaskOfIs
  <2>4. WellFormed(t) /\ Good(Front(p))
    BY <1>2, <2>2, TaskWellFormed
  <2>5. BlockClosed(TaskOf[p].tokens)
    BY <2>2, <2>3, <2>4, ChildBlocks
  <2>6. TaskOf[p].tokens = {u \in t.tokens : Label(t, u) \in QuorumChunks(j)}
    BY <2>3 DEF Child
  <2>7. CASE Front(p) = <<>>
    <3>1. Len(p) = 1 /\ p[1] = j
      BY <2>1, <2>2, <2>7 DEF Last
    <3>2. t.tokens = Token
      BY <2>7, TaskOfIs DEF Root
    <3>3. \A u \in Token : Label(t, u) = ChunkAt(N, u)
      <4> TAKE u \in Token
      <4>1. N \in Nat /\ u \in 0 .. N - 1
        BY DecompositionAssumption DEF Token
      <4>2. Cardinality(0 .. N - 1) = N /\ Cardinality(0 .. u - 1) = u
        BY <4>1, FS_Interval
      <4>3. {w \in 0 .. N - 1 : w < u} = 0 .. u - 1
        BY <4>1
      <4>4. QED
        BY <3>2, <4>2, <4>3 DEF Label, Rank, Token
    <3>4. QED
      BY <2>2, <2>5, <2>6, <3>1, <3>2, <3>3
  <2>8. CASE Front(p) # <<>>
    <3>1. p[1] = Front(p)[1]
      BY <2>1, <2>2, <2>8, PathIs DEF Front
    <3>2. QED
      BY <2>4, <2>5, <2>6, <2>8, <3>1
  <2>9. QED
    BY <2>7, <2>8
<1> HIDE DEF H
<1>3. \A d \in Nat : d \in H
  BY <1>1, <1>2, Induction
<1>4. \A p \in Path : Len(p) \in Nat /\ TaskOf[p].tokens \subseteq Token
  <2> TAKE p \in Path
  <2>1. WellFormed(TaskOf[p]) /\ Len(p) \in Nat
    BY PathIs, TaskWellFormed
  <2>2. QED
    BY <2>1 DEF WellFormed
<1>5. \A p \in Path : Good(p)
  BY <1>3, <1>4 DEF H
<1>6. QED
  BY <1>4, <1>5

-----------------------------------------------------------------------------
(* At every depth a pair is kept by one subproblem of the list.              *)

Pairs == Token \X Token

LEMMA OneTask ==
    \A d \in 0 .. Deepest : \A x \in Pairs :
        \E i \in DOMAIN Tasks[d] :
            /\ x \in KeptOf[Tasks[d][i]]
            /\ \A j \in DOMAIN Tasks[d] : x \in KeptOf[Tasks[d][j]] => j = i
<1> DEFINE One(d, x) == \E p \in Range(Tasks[d]) :
                  /\ x \in Kept(TaskOf[p])
                  /\ \A q \in Range(Tasks[d]) : x \in Kept(TaskOf[q]) => q = p
           H == {d \in Nat : d \in 0 .. Deepest => \A x \in Pairs : One(d, x)}
<1>1. 0 \in H
  <2>1. Range(Tasks[0]) = {<<>>}
    BY TasksAre DEF Range
  <2>2. \A x \in Pairs : x \in Kept(Root)
    BY DEF Kept, Root, Pairs
  <2>3. QED
    BY <2>1, <2>2, TaskOfIs
<1>2. ASSUME NEW d \in Nat, d \in H PROVE d + 1 \in H
  <2> SUFFICES ASSUME d + 1 \in 0 .. Deepest, NEW x \in Pairs PROVE One(d + 1, x)
    OBVIOUS
  <2>1. d \in 0 .. Deepest /\ d + 1 \in 1 .. Deepest /\ d < Deepest /\ (d + 1) - 1 = d
    BY DeepestType
  <2>2. Range(Tasks[d + 1]) = UNION {Range(Kids(p)) : p \in Range(Tasks[d])}
    BY <2>1, TasksAre
  <2>3. \A p \in Range(Tasks[d]) : p \in Path /\ Len(p) = d
    BY <2>1, TasksAre DEF Range
  <2>4. PICK p \in Range(Tasks[d]) :
           /\ x \in Kept(TaskOf[p])
           /\ \A q \in Range(Tasks[d]) : x \in Kept(TaskOf[q]) => q = p
    BY <1>2, <2>1
  <2>5. \A q \in Range(Tasks[d]) :
           /\ WellFormed(TaskOf[q])
           /\ Range(Kids(q)) \subseteq Path
           /\ {TaskOf[r] : r \in Range(Kids(q))} = Children(TaskOf[q])
    <3> TAKE q \in Range(Tasks[d])
    <3>1. q \in Path /\ Len(q) < Deepest
      BY <2>1, <2>3
    <3>2. Kids(q) \in Seq(Path)
      BY <3>1, KidsIs
    <3>3. Range(Kids(q)) \subseteq Path
      BY <3>2 DEF Range
    <3>4. {TaskOf[y] : y \in Range(Kids(q))} = Children(TaskOf[q])
      BY <3>1, KidsIs
    <3>5. WellFormed(TaskOf[q])
      BY <3>1, TaskWellFormed
    <3>6. QED
      BY <3>3, <3>4, <3>5
  <2>6. PICK k \in Children(TaskOf[p]) :
           x \in Kept(k) /\ \A s \in Children(TaskOf[p]) : x \in Kept(s) => s = k
    BY <2>4, <2>5, ChildrenPartition
  <2>7. PICK r \in Range(Kids(p)) : TaskOf[r] = k
    BY <2>5, <2>6
  <2>8. ASSUME NEW s \in Range(Tasks[d + 1]), x \in Kept(TaskOf[s]) PROVE s = r
    <3>1. PICK q \in Range(Tasks[d]) : s \in Range(Kids(q))
      BY <2>2, <2>8
    <3>2. TaskOf[s] \in Children(TaskOf[q])
      BY <2>5, <3>1
    <3>3. x \in Kept(TaskOf[q])
      BY <2>5, <2>8, <3>2, ChildrenPartition
    <3>4. q = p
      BY <2>4, <3>3
    <3>5. TaskOf[s] = TaskOf[r]
      BY <2>6, <2>7, <2>8, <3>2, <3>4
    <3>6. QED
      BY <2>5, <2>7, <3>1, <3>5, TaskFacts
  <2>9. r \in Range(Tasks[d + 1])
    BY <2>2, <2>7
  <2>10. QED
    BY <2>6, <2>7, <2>8, <2>9
<1> HIDE DEF H
<1>3. \A d \in Nat : d \in H
  BY <1>1, <1>2, Induction
<1>4. \A d \in 0 .. Deepest, x \in Pairs : One(d, x)
  BY <1>3, DeepestType DEF H
<1>5. ASSUME NEW d \in 0 .. Deepest, NEW x \in Pairs
      PROVE  \E i \in DOMAIN Tasks[d] :
                 /\ x \in KeptOf[Tasks[d][i]]
                 /\ \A j \in DOMAIN Tasks[d] : x \in KeptOf[Tasks[d][j]] => j = i
  <2>1. PICK p \in Range(Tasks[d]) :
           /\ x \in Kept(TaskOf[p])
           /\ \A q \in Range(Tasks[d]) : x \in Kept(TaskOf[q]) => q = p
    BY <1>4
  <2>2. PICK i \in DOMAIN Tasks[d] : Tasks[d][i] = p
    BY DEF Range
  <2>3. \A j \in DOMAIN Tasks[d] :
           /\ Tasks[d][j] \in Range(Tasks[d])
           /\ KeptOf[Tasks[d][j]] = Kept(TaskOf[Tasks[d][j]])
    BY TasksAre, TaskFacts DEF Range
  <2>4. \A j \in DOMAIN Tasks[d] : Tasks[d][j] = p => j = i
    BY <2>2, TasksAre DEF Distinct
  <2>5. QED
    BY <2>1, <2>2, <2>3, <2>4
<1>6. QED
  BY <1>5

-----------------------------------------------------------------------------
(* The waves are the list of subproblems cut into pieces.                    *)

\* Element of X, or a task appended as a wave of its own or to the last wave.
AddTask(c, pooled, done, t) ==
    IF done # <<>> /\ Fits(c, pooled, Last(done), t)
    THEN Append(Front(done), Append(Last(done), t))
    ELSE Append(done, <<t>>)

LEMMA PlanExists ==
    ASSUME NEW c, NEW pooled, NEW tasks, NEW m \in Nat
    PROVE  \E f : f = [i \in 0 .. m |->
                        IF i = 0 THEN <<>> ELSE AddTask(c, pooled, f[i - 1], tasks[i])]
<1> DEFINE Next1(list, i) == AddTask(c, pooled, list, tasks[i])
<1> HIDE DEF Next1
<1> DEFINE H == {k \in Nat : \E f : f = [i \in 0 .. k |-> IF i = 0 THEN <<>> ELSE Next1(f[i - 1], i)]}
<1>1. 0 \in H
  <2> DEFINE f == [i \in 0 .. 0 |-> <<>>]
  <2>1. f = [i \in 0 .. 0 |-> IF i = 0 THEN <<>> ELSE Next1(f[i - 1], i)]
    OBVIOUS
  <2> HIDE DEF f
  <2>2. QED
    BY <2>1
<1>2. ASSUME NEW k \in Nat, k \in H PROVE k + 1 \in H
  <2>1. PICK f : f = [i \in 0 .. k |-> IF i = 0 THEN <<>> ELSE Next1(f[i - 1], i)]
    BY <1>2
  <2> DEFINE g == [i \in 0 .. k + 1 |-> IF i = 0 THEN <<>> ELSE Next1(f[i - 1], i)]
  <2>2. \A i \in 0 .. k : g[i] = f[i]
    BY <2>1
  <2>3. \A i \in 0 .. k + 1 : i # 0 => i - 1 \in 0 .. k
    OBVIOUS
  <2>4. \A i \in 0 .. k + 1 : g[i] = IF i = 0 THEN <<>> ELSE Next1(g[i - 1], i)
    BY <2>2, <2>3
  <2>5. DOMAIN g = 0 .. k + 1 /\ g = [i \in DOMAIN g |-> g[i]]
    OBVIOUS
  <2> HIDE DEF g
  <2>6. g = [i \in 0 .. k + 1 |-> IF i = 0 THEN <<>> ELSE Next1(g[i - 1], i)]
    BY <2>4, <2>5
  <2>7. QED
    BY <2>6
<1> HIDE DEF H
<1>3. m \in H
  BY <1>1, <1>2, Induction
<1>4. QED
  BY <1>3 DEF H, Next1

\* The first n tasks are dealt out to the waves: at says where each has gone.
Dealt(tasks, n, waves, at) ==
    /\ \A i \in 1 .. n : /\ at[i][1] \in DOMAIN waves /\ at[i][2] \in DOMAIN waves[at[i][1]]
                         /\ waves[at[i][1]][at[i][2]] = tasks[i]
    /\ \A w \in DOMAIN waves : \A k \in DOMAIN waves[w] : \E i \in 1 .. n : at[i] = <<w, k>>

LEMMA AddTaskDeals ==
    ASSUME NEW X, NEW c, NEW pooled \in BOOLEAN, NEW tasks \in Seq(X), NEW n \in Nat, n < Len(tasks),
           NEW waves \in Seq(Seq(X)), NEW at, Dealt(tasks, n, waves, at),
           pooled => \A i \in DOMAIN tasks : Cardinality(tasks[i].chunks) <= c.n_slots,
           pooled => \A w \in DOMAIN waves : Cardinality(ChunksOf(waves[w])) <= c.n_slots
    PROVE  LET next == AddTask(c, pooled, waves, tasks[n + 1])
           IN  /\ next \in Seq(Seq(X))
               /\ \E to : Dealt(tasks, n + 1, next, to)
               /\ pooled => \A w \in DOMAIN next : Cardinality(ChunksOf(next[w])) <= c.n_slots
<1> DEFINE t == tasks[n + 1]
           next == AddTask(c, pooled, waves, t)
           joins == waves # <<>> /\ Fits(c, pooled, Last(waves), t)
<1>1. t \in X /\ n + 1 \in DOMAIN tasks /\ n + 1 \in 1 .. n + 1
  OBVIOUS
<1>2. CASE joins
  <2> DEFINE m == Len(waves)
             old == waves[m]
             to == [i \in 1 .. n + 1 |-> IF i = n + 1 THEN <<m, Len(old) + 1>> ELSE at[i]]
  <2>1. m \in Nat \ {0} /\ m \in DOMAIN waves /\ old \in Seq(X) /\ Last(waves) = old
    BY <1>2 DEF Last
  <2>2. next = Append(Front(waves), Append(old, t))
    BY <1>2, <2>1 DEF AddTask
  <2>3. /\ Append(old, t) \in Seq(X)
        /\ Front(waves) \in Seq(Seq(X)) /\ Len(Front(waves)) = m - 1
        /\ \A w \in 1 .. m - 1 : Front(waves)[w] = waves[w]
    <3>1. Append(old, t) \in Seq(X)
      BY <1>1, <2>1
    <3>2. waves = [w \in 1 .. m |-> waves[w]] /\ \A w \in 1 .. m : waves[w] \in Seq(X)
      OBVIOUS
    <3>3. Front(waves) = [w \in 1 .. m - 1 |-> waves[w]]
      BY <2>1 DEF Front
    <3>4. \A w \in 1 .. m - 1 : w \in 1 .. m
      BY <2>1
    <3> HIDE DEF m, old, t
    <3>5. m - 1 \in Nat
      BY <2>1
    <3>6. Front(waves) \in Seq(Seq(X)) /\ Len(Front(waves)) = m - 1
      <4>1. \A w \in 1 .. m - 1 : waves[w] \in Seq(X)
        BY <3>2, <3>4
      <4> DEFINE g == [w \in 1 .. m - 1 |-> waves[w]]
      <4>2. g \in Seq(Seq(X)) /\ Len(g) = m - 1
        BY <4>1, <3>5
      <4>3. QED
        BY <4>2, <3>3
    <3>7. QED
      BY <3>1, <3>3, <3>6
  <2>4. /\ next \in Seq(Seq(X)) /\ DOMAIN next = 1 .. m /\ next[m] = Append(old, t)
        /\ \A w \in 1 .. m - 1 : next[w] = waves[w]
    BY <2>1, <2>2, <2>3
  <2>5. /\ DOMAIN next[m] = 1 .. Len(old) + 1 /\ next[m][Len(old) + 1] = t /\ Len(old) \in Nat
        /\ \A k \in DOMAIN old : next[m][k] = old[k] /\ k \in 1 .. Len(old)
    BY <1>1, <2>1, <2>4
  <2>6. DOMAIN waves = 1 .. m
    BY <2>1
  <2> HIDE DEF next, t, joins, m, old
  <2>7. Dealt(tasks, n + 1, next, to)
    <3>1. ASSUME NEW i \in 1 .. n + 1
          PROVE  /\ to[i][1] \in DOMAIN next /\ to[i][2] \in DOMAIN next[to[i][1]]
                 /\ next[to[i][1]][to[i][2]] = tasks[i]
      <4>1. CASE i = n + 1
        <5>1. to[i] = <<m, Len(old) + 1>> /\ tasks[i] = t
          BY <4>1 DEF t
        <5>2. m \in DOMAIN next /\ Len(old) + 1 \in DOMAIN next[m]
          BY <2>1, <2>4, <2>5
        <5> HIDE DEF to
        <5>3. QED
          BY <5>1, <5>2, <2>5
      <4>2. CASE i # n + 1
        <5>1. to[i] = at[i] /\ i \in 1 .. n
          BY <4>2
        <5>2. /\ at[i][1] \in 1 .. m /\ at[i][2] \in DOMAIN waves[at[i][1]]
              /\ waves[at[i][1]][at[i][2]] = tasks[i]
          BY <5>1, <2>6 DEF Dealt
        <5>3. CASE at[i][1] = m
          <6>1. at[i][2] \in DOMAIN old /\ old[at[i][2]] = tasks[i]
            BY <5>2, <5>3 DEF old
          <6>2. at[i][2] \in DOMAIN next[m] /\ next[m][at[i][2]] = tasks[i]
            BY <6>1, <2>5
          <6> HIDE DEF to
          <6>3. QED
            BY <5>1, <5>3, <6>2, <2>4, <2>1
        <5>4. CASE at[i][1] # m
          <6>1. at[i][1] \in 1 .. m - 1
            BY <5>2, <5>4, <2>1
          <6> HIDE DEF to
          <6>2. QED
            BY <5>1, <5>2, <6>1, <2>4
        <5>5. QED
          BY <5>3, <5>4
      <4>3. QED
        BY <4>1, <4>2
    <3>2. ASSUME NEW w \in DOMAIN next, NEW k \in DOMAIN next[w]
          PROVE  \E i \in 1 .. n + 1 : to[i] = <<w, k>>
      <4>1. CASE w = m /\ k = Len(old) + 1
        BY <4>1, <1>1
      <4>2. CASE ~(w = m /\ k = Len(old) + 1)
        <5>1. w \in DOMAIN waves /\ k \in DOMAIN waves[w]
          <6>1. CASE w = m
            <7>1. k \in 1 .. Len(old)
              BY <4>2, <6>1, <2>5
            <7>2. QED
              BY <6>1, <7>1, <2>1, <2>6 DEF old
          <6>2. CASE w # m
            <7>1. w \in 1 .. m - 1
              BY <6>2, <2>4, <2>1
            <7>2. QED
              BY <7>1, <2>4, <2>6
          <6>3. QED
            BY <6>1, <6>2
        <5>2. PICK i \in 1 .. n : at[i] = <<w, k>>
          BY <5>1 DEF Dealt
        <5>3. i \in 1 .. n + 1 /\ i # n + 1
          OBVIOUS
        <5>4. QED
          BY <5>2, <5>3
      <4>3. QED
        BY <4>1, <4>2
    <3>3. QED
      BY <3>1, <3>2 DEF Dealt
  <2>8. ASSUME pooled, NEW w \in DOMAIN next PROVE Cardinality(ChunksOf(next[w])) <= c.n_slots
    <3>1. CASE w = m
      <4>1. ChunksOf(next[m]) = ChunksOf(old) \cup t.chunks
        BY <2>5 DEF ChunksOf
      <4>2. Cardinality(ChunksOf(old) \cup t.chunks) <= c.n_slots
        BY <1>2, <2>1, <2>8 DEF joins, Fits
      <4>3. QED
        BY <3>1, <4>1, <4>2
    <3>2. CASE w # m
      <4>1. w \in 1 .. m - 1 /\ w \in DOMAIN waves
        BY <3>2, <2>1, <2>4, <2>6
      <4>2. QED
        BY <4>1, <2>4, <2>8
    <3>3. QED
      BY <3>1, <3>2
  <2>9. QED
    BY <2>4, <2>7, <2>8 DEF next, t
<1>3. CASE ~joins
  <2> DEFINE m == Len(waves) + 1
             to == [i \in 1 .. n + 1 |-> IF i = n + 1 THEN <<m, 1>> ELSE at[i]]
  <2>1. next = Append(waves, <<t>>) /\ <<t>> \in Seq(X)
    BY <1>1, <1>3 DEF AddTask
  <2>2. /\ next \in Seq(Seq(X)) /\ m \in DOMAIN next /\ DOMAIN next = DOMAIN waves \cup {m}
        /\ next[m] = <<t>> /\ DOMAIN <<t>> = {1} /\ <<t>>[1] = t
        /\ \A w \in DOMAIN waves : next[w] = waves[w]
    BY <2>1
  <2> HIDE DEF next, t, joins, m
  <2>3. Dealt(tasks, n + 1, next, to)
    <3>1. ASSUME NEW i \in 1 .. n + 1
          PROVE  /\ to[i][1] \in DOMAIN next /\ to[i][2] \in DOMAIN next[to[i][1]]
                 /\ next[to[i][1]][to[i][2]] = tasks[i]
      <4>1. CASE i = n + 1
        <5>1. to[i] = <<m, 1>> /\ tasks[i] = t
          BY <4>1 DEF t
        <5> HIDE DEF to
        <5>2. QED
          BY <5>1, <2>2
      <4>2. CASE i # n + 1
        <5>1. to[i] = at[i] /\ i \in 1 .. n
          BY <4>2
        <5> HIDE DEF to
        <5>2. QED
          BY <5>1, <2>2 DEF Dealt
      <4>3. QED
        BY <4>1, <4>2
    <3>2. ASSUME NEW w \in DOMAIN next, NEW k \in DOMAIN next[w]
          PROVE  \E i \in 1 .. n + 1 : to[i] = <<w, k>>
      <4>1. CASE w = m
        <5>1. k = 1
          BY <4>1, <2>2
        <5>2. QED
          BY <4>1, <5>1, <1>1
      <4>2. CASE w # m
        <5>1. w \in DOMAIN waves /\ k \in DOMAIN waves[w]
          BY <4>2, <2>2
        <5>2. PICK i \in 1 .. n : at[i] = <<w, k>>
          BY <5>1 DEF Dealt
        <5>3. i \in 1 .. n + 1 /\ i # n + 1
          OBVIOUS
        <5>4. QED
          BY <5>2, <5>3
      <4>3. QED
        BY <4>1, <4>2
    <3>3. QED
      BY <3>1, <3>2 DEF Dealt
  <2>4. ASSUME pooled, NEW w \in DOMAIN next PROVE Cardinality(ChunksOf(next[w])) <= c.n_slots
    <3>1. CASE w = m
      <4>1. ChunksOf(next[m]) = t.chunks
        BY <2>2 DEF ChunksOf
      <4>2. QED
        BY <3>1, <4>1, <2>4, <1>1 DEF t
    <3>2. CASE w # m
      BY <3>2, <2>2, <2>4
    <3>3. QED
      BY <3>1, <3>2
  <2>5. QED
    BY <2>2, <2>3, <2>4 DEF next, t
<1>4. QED
  BY <1>2, <1>3

\* The greedy grouping deals out all tasks, and with a pool no wave needs more chunks
\* than there are slots as long as no task does.
LEMMA PlanDeals ==
    ASSUME NEW X, NEW c, NEW pooled \in BOOLEAN, NEW tasks \in Seq(X),
           pooled => \A i \in DOMAIN tasks : Cardinality(tasks[i].chunks) <= c.n_slots
    PROVE  LET waves == Plan(c, pooled, tasks)
           IN  /\ waves \in Seq(Seq(X))
               /\ \E at : Dealt(tasks, Len(tasks), waves, at)
               /\ pooled => \A w \in DOMAIN waves : Cardinality(ChunksOf(waves[w])) <= c.n_slots
<1> DEFINE f == CHOOSE g : g = [i \in 0 .. Len(tasks) |->
                        IF i = 0 THEN <<>> ELSE AddTask(c, pooled, g[i - 1], tasks[i])]
           Good(n) == /\ f[n] \in Seq(Seq(X))
                      /\ \E at : Dealt(tasks, n, f[n], at)
                      /\ pooled => \A w \in DOMAIN f[n] : Cardinality(ChunksOf(f[n][w])) <= c.n_slots
           H == {n \in Nat : n <= Len(tasks) => Good(n)}
<1>1. f = [i \in 0 .. Len(tasks) |->
              IF i = 0 THEN <<>> ELSE AddTask(c, pooled, f[i - 1], tasks[i])]
  <2>1. Len(tasks) \in Nat
    OBVIOUS
  <2>2. QED
    BY <2>1, PlanExists
<1>2. Plan(c, pooled, tasks) = f[Len(tasks)]
  BY DEF Plan, AddTask
<1> HIDE DEF f
<1>3. 0 \in H
  <2>1. f[0] = <<>> /\ <<>> \in Seq(Seq(X)) /\ DOMAIN <<>> = {}
    BY <1>1
  <2>2. Dealt(tasks, 0, <<>>, <<>>)
    BY <2>1 DEF Dealt
  <2>3. QED
    BY <2>1, <2>2
<1>4. ASSUME NEW n \in Nat, n \in H PROVE n + 1 \in H
  <2> SUFFICES ASSUME n + 1 <= Len(tasks) PROVE Good(n + 1)
    OBVIOUS
  <2>1. n < Len(tasks) /\ Good(n)
    BY <1>4
  <2>2. f[n + 1] = AddTask(c, pooled, f[n], tasks[n + 1])
    <3>1. n + 1 \in 0 .. Len(tasks) /\ n + 1 # 0 /\ (n + 1) - 1 = n
      BY <2>1
    <3>2. QED
      BY <1>1, <3>1
  <2>3. PICK at : Dealt(tasks, n, f[n], at)
    BY <2>1
  <2> DEFINE done == f[n]
             next == AddTask(c, pooled, done, tasks[n + 1])
  <2>4. /\ done \in Seq(Seq(X)) /\ Dealt(tasks, n, done, at)
        /\ pooled => \A w \in DOMAIN done : Cardinality(ChunksOf(done[w])) <= c.n_slots
    BY <2>1, <2>3
  <2> HIDE DEF done
  <2>5. /\ next \in Seq(Seq(X))
        /\ \E to : Dealt(tasks, n + 1, next, to)
        /\ pooled => \A w \in DOMAIN next : Cardinality(ChunksOf(next[w])) <= c.n_slots
    BY <2>1, <2>4, AddTaskDeals
  <2>6. f[n + 1] = next
    BY <2>2 DEF done
  <2>7. QED
    BY <2>5, <2>6
<1> HIDE DEF H
<1>5. \A n \in Nat : n \in H
  BY <1>3, <1>4, Induction
<1>6. Good(Len(tasks))
  BY <1>5 DEF H
<1>7. QED
  BY <1>2, <1>6

-----------------------------------------------------------------------------
(* What an entry of wave_tasks is.                                           *)

Entry(p)  == [rows |-> Ascending(TaskOf[p].tokens), kept |-> KeptOf[p], chunks |-> level1_chunks(p)]
WaveTask  == {Entry(p) : p \in Path \ {<<>>}}
RowsIn(t) == 0 .. Len(t.rows) - 1

LEMMA WaveTasksAre ==
    \A d \in 1 .. Deepest :
        /\ wave_tasks[d] \in Seq(WaveTask) /\ DOMAIN wave_tasks[d] = DOMAIN Tasks[d]
        /\ \A i \in DOMAIN Tasks[d] : wave_tasks[d][i] = Entry(Tasks[d][i])
<1>1. wave_tasks = [d \in 1 .. Deepest |-> [i \in DOMAIN Tasks[d] |-> Entry(Tasks[d][i])]]
  BY TableIs DEF wave_tasks, Entry
<1> TAKE d \in 1 .. Deepest
<1>2. wave_tasks[d] = [i \in DOMAIN Tasks[d] |-> Entry(Tasks[d][i])]
  BY <1>1
<1>3. Tasks[d] \in Seq(Path) /\ \A i \in DOMAIN Tasks[d] : Len(Tasks[d][i]) = d
  BY TasksAre, DeepestType
<1>4. \A i \in DOMAIN Tasks[d] : Entry(Tasks[d][i]) \in WaveTask
  <2> TAKE i \in DOMAIN Tasks[d]
  <2>1. Tasks[d][i] \in Path /\ Tasks[d][i] # <<>>
    BY <1>3
  <2>2. QED
    BY <2>1 DEF WaveTask
<1>5. Len(Tasks[d]) \in Nat /\ DOMAIN Tasks[d] = 1 .. Len(Tasks[d])
  BY <1>3
<1>6. wave_tasks[d] \in Seq(WaveTask)
  BY <1>2, <1>4, <1>5
<1>7. QED
  BY <1>2, <1>6

\* A quorum has no more chunks than there are offsets.
LEMMA QuorumSize ==
    ASSUME NEW j \in Chunk
    PROVE  /\ QuorumChunks(j) \subseteq Chunk /\ IsFiniteSet(QuorumChunks(j))
           /\ Cardinality(QuorumChunks(j)) <= Cardinality(InterestSet)
<1> DEFINE f == [off \in InterestSet |-> (j + off) % C]
<1>1. C \in Nat \ {0} /\ InterestSet \subseteq Chunk
  BY DecompositionAssumption
<1>2. IsFiniteSet(Chunk)
  BY <1>1, FS_Interval DEF Chunk
<1>3. IsFiniteSet(InterestSet)
  BY <1>1, <1>2, FS_Subset
<1>4. f \in Surjection(InterestSet, QuorumChunks(j))
  BY DEF Surjection, QuorumChunks
<1>5. QuorumChunks(j) \subseteq Chunk
  BY <1>1 DEF QuorumChunks, Chunk
<1>6. QED
  BY <1>3, <1>4, <1>5, FS_Surjection

\* Its rows are tokens in order, in whole blocks that begin at multiples of the block;
\* the pairs it keeps are pairs of its rows.
LEMMA EntryIs ==
    ASSUME NEW t \in WaveTask
    PROVE  /\ Len(t.rows) \in Nat
           /\ t.chunks \subseteq Chunk /\ IsFiniteSet(t.chunks)
           /\ Cardinality(t.chunks) <= Cardinality(InterestSet)
           /\ \A r \in RowsIn(t) : t.rows[r + 1] \in Token /\ ChunkAt(N, t.rows[r + 1]) \in t.chunks
           /\ \A r, s \in RowsIn(t) : r <= s <=> t.rows[r + 1] <= t.rows[s + 1]
           /\ \A x \in t.kept : \E r, s \in RowsIn(t) : x = <<t.rows[r + 1], t.rows[s + 1]>>
           /\ \A r \in RowsIn(t) :
                 LET base == Align * (r \div Align)
                 IN  /\ base \in RowsIn(t)
                     /\ t.rows[base + 1] % Align = 0
                     /\ t.rows[r + 1] = t.rows[base + 1] + (r % Align)
<1> PICK p \in Path \ {<<>>} : t = Entry(p)
  BY DEF WaveTask
<1> DEFINE T == TaskOf[p].tokens
           rows == Ascending(T)
           n == Cardinality(T)
<1>1. t.rows = rows /\ t.kept = Kept(TaskOf[p]) /\ t.chunks = QuorumChunks(p[1])
  BY TaskFacts DEF Entry, level1_chunks
<1>2. /\ T \subseteq Token /\ BlockClosed(T) /\ p[1] \in Chunk
      /\ \A u \in T : ChunkAt(N, u) \in QuorumChunks(p[1])
  BY TaskBlocks
<1>3. T \subseteq Int /\ IsFiniteSet(T)
  <2>1. N \in Nat /\ T \in SUBSET Token
    BY <1>2, DecompositionAssumption
  <2>2. IsFiniteSet(Token)
    BY <2>1, FS_Interval DEF Token
  <2>3. QED
    BY <2>1, <2>2, FS_Subset DEF Token
<1>4. /\ n \in Nat /\ Len(rows) = n
      /\ \A r \in 1 .. n : rows[r] \in T /\ Rank(T, rows[r]) = r - 1
      /\ \A x \in T : Rank(T, x) \in 0 .. n - 1 /\ rows[Rank(T, x) + 1] = x
  BY <1>3, AscendingIs
<1>5. \A x, y \in T : x < y => Rank(T, x) < Rank(T, y)
  BY <1>3, RankGrows
<1> HIDE DEF T, rows, n
<1>6. RowsIn(t) = 0 .. n - 1
  BY <1>1, <1>4 DEF RowsIn
<1>7. \A r \in 0 .. n - 1 : rows[r + 1] \in T /\ Rank(T, rows[r + 1]) = r
  <2> TAKE r \in 0 .. n - 1
  <2>1. r + 1 \in 1 .. n /\ (r + 1) - 1 = r
    BY <1>4
  <2>2. QED
    BY <2>1, <1>4
<1>8. \A r, s \in 0 .. n - 1 : r <= s <=> rows[r + 1] <= rows[s + 1]
  <2> TAKE r, s \in 0 .. n - 1
  <2> DEFINE x == rows[r + 1]
             y == rows[s + 1]
  <2>1. x \in T /\ y \in T /\ x \in Int /\ y \in Int /\ Rank(T, x) = r /\ Rank(T, y) = s
    BY <1>3, <1>7
  <2> HIDE DEF x, y
  <2>2. (x < y => r < s) /\ (y < x => s < r) /\ (x = y => r = s)
    BY <2>1, <1>5
  <2>3. r \in Int /\ s \in Int
    BY <1>4
  <2>4. r <= s <=> x <= y
    BY <2>1, <2>2, <2>3
  <2>5. QED
    BY <2>4 DEF x, y
<1>9. \A x \in Kept(TaskOf[p]) : \E r, s \in 0 .. n - 1 : x = <<rows[r + 1], rows[s + 1]>>
  <2> TAKE x \in Kept(TaskOf[p])
  <2>1. x \in T \X T
    BY DEF Kept, T
  <2>2. x[1] \in T /\ x[2] \in T /\ x = <<x[1], x[2]>>
    BY <2>1
  <2>3. QED
    BY <2>2, <1>4
<1>10. ASSUME NEW r \in 0 .. n - 1
       PROVE  LET base == Align * (r \div Align)
              IN  /\ base \in 0 .. n - 1
                  /\ rows[base + 1] % Align = 0
                  /\ rows[r + 1] = rows[base + 1] + (r % Align)
  <2> DEFINE u == rows[r + 1]
             v == Align * (u \div Align)
             base == Align * (r \div Align)
  <2>1. u \in T /\ u \in Token /\ Rank(T, u) = r /\ u \in Nat
    <3>1. u \in T /\ Rank(T, u) = r
      BY <1>7
    <3>2. \A y \in Token : y \in Nat
      BY DEF Token
    <3>3. QED
      BY <3>1, <3>2, <1>2 DEF T
  <2> HIDE DEF u
  <2>2. /\ Align \in Nat \ {0} /\ u \div Align \in Nat /\ u % Align \in 0 .. Align - 1
        /\ u = v + (u % Align) /\ v \in Nat
    BY <2>1, BlockOf
  <2>3. v \div Align = u \div Align /\ v % Align = 0
    <3> DEFINE m == u \div Align
    <3>1. m \in Nat /\ 0 \in 0 .. Align - 1
      BY <2>2
    <3> HIDE DEF m
    <3>2. (Align * m + 0) \div Align = m /\ (Align * m + 0) % Align = 0
      BY <3>1, BlockIs
    <3>3. Align * m + 0 = Align * m
      BY <3>1, <2>2
    <3>4. QED
      BY <3>2, <3>3 DEF m
  <2>4. v \in Token
    BY <2>1, <2>2, DecompositionAssumption DEF Token
  <2>5. PICK q \in Nat : \A w \in Token :
           w \div Align = u \div Align => w \in T /\ Rank(T, w) = Align * q + (w % Align)
    BY <1>2, <2>1, BlockRank
  <2>6. r = Align * q + (u % Align) /\ v \in T /\ Rank(T, v) = Align * q + 0
    BY <2>1, <2>3, <2>4, <2>5
  <2>7. base = Align * q /\ r % Align = u % Align /\ Align * q \in Nat
    BY <2>2, <2>6, BlockIs
  <2>8. rows[base + 1] = v /\ base \in 0 .. n - 1
    BY <1>4, <2>6, <2>7
  <2>9. QED
    BY <2>2, <2>3, <2>7, <2>8 DEF u
<1>11. QED
  <2>1. \A r \in 0 .. n - 1 : rows[r + 1] \in Token /\ ChunkAt(N, rows[r + 1]) \in QuorumChunks(p[1])
    BY <1>2, <1>7 DEF T
  <2>2. /\ QuorumChunks(p[1]) \subseteq Chunk /\ IsFiniteSet(QuorumChunks(p[1]))
        /\ Cardinality(QuorumChunks(p[1])) <= Cardinality(InterestSet)
    BY <1>2, QuorumSize
  <2>3. Len(t.rows) \in Nat
    BY <1>1, <1>4
  <2>4. \A r \in RowsIn(t) :
           LET base == Align * (r \div Align)
           IN  /\ base \in RowsIn(t)
               /\ t.rows[base + 1] % Align = 0
               /\ t.rows[r + 1] = t.rows[base + 1] + (r % Align)
    BY <1>1, <1>6, <1>10
  <2>5. \A x \in t.kept : \E r, s \in RowsIn(t) : x = <<t.rows[r + 1], t.rows[s + 1]>>
    BY <1>1, <1>6, <1>9
  <2>6. \A r, s \in RowsIn(t) : r <= s <=> t.rows[r + 1] <= t.rows[s + 1]
    BY <1>1, <1>6, <1>8
  <2>7. \A r \in RowsIn(t) : t.rows[r + 1] \in Token /\ ChunkAt(N, t.rows[r + 1]) \in t.chunks
    BY <1>1, <1>6, <2>1
  <2>8. /\ t.chunks \subseteq Chunk /\ IsFiniteSet(t.chunks)
        /\ Cardinality(t.chunks) <= Cardinality(InterestSet)
    BY <1>1, <2>2
  <2>9. QED
    BY <2>3, <2>4, <2>5, <2>6, <2>7, <2>8

\* The waves of a call.
WavesOf(c, waves, d, pooled) ==
    /\ waves \in Seq(Seq(WaveTask))
    /\ \E at : Dealt(wave_tasks[d], Len(wave_tasks[d]), waves, at)
    /\ pooled => \A w \in DOMAIN waves : Cardinality(ChunksOf(waves[w])) <= c.n_slots

LEMMA WavesAre ==
    ASSUME NEW c \in Calls
    PROVE  /\ c.itr \in 1 .. Deepest /\ WavesOf(c, FwdWaves[c], c.itr, c.host)
           /\ c.bwd_itr \in 1 .. Deepest /\ WavesOf(c, BwdWaves[c], c.bwd_itr, FALSE)
<1>1. /\ c.itr \in 1 .. Deepest /\ c.bwd_itr \in 1 .. Deepest /\ c.host \in BOOLEAN
      /\ c.n_slots \in Cardinality(InterestSet) .. C
  BY WaveAssumption
<1>2. FwdWaves[c] = Plan(c, c.host, wave_tasks[c.itr])
  BY TableIs DEF FwdWaves
<1>3. BwdWaves[c] = Plan(c, FALSE, wave_tasks[c.bwd_itr])
  <2>1. BwdWaves = [d \in Calls |-> Plan(d, FALSE, wave_tasks[d.bwd_itr])]
    BY TableIs, Zenon DEF BwdWaves
  <2>2. QED
    BY <2>1, Zenon
<1>4. ASSUME NEW d \in 1 .. Deepest, NEW pooled \in BOOLEAN
      PROVE  WavesOf(c, Plan(c, pooled, wave_tasks[d]), d, pooled)
  <2> DEFINE tasks == wave_tasks[d]
  <2>1. tasks \in Seq(WaveTask)
    BY WaveTasksAre
  <2>2. \A i \in DOMAIN tasks : Cardinality(tasks[i].chunks) <= c.n_slots
    <3> TAKE i \in DOMAIN tasks
    <3>1. tasks[i] \in WaveTask
      BY <2>1
    <3>2. /\ IsFiniteSet(tasks[i].chunks)
          /\ Cardinality(tasks[i].chunks) <= Cardinality(InterestSet)
      BY <3>1, EntryIs
    <3>3. Cardinality(tasks[i].chunks) \in Nat
      BY <3>2, FS_CardinalityType
    <3>4. IsFiniteSet(InterestSet)
      <4>1. IsFiniteSet(Chunk) /\ InterestSet \in SUBSET Chunk
        BY DecompositionAssumption, FS_Interval DEF Chunk
      <4>2. QED
        BY <4>1, FS_Subset
    <3>5. Cardinality(InterestSet) \in Nat
      BY <3>4, FS_CardinalityType
    <3>6. QED
      BY <3>2, <3>3, <3>5, <1>1
  <2> HIDE DEF tasks
  <2>3. WavesOf(c, Plan(c, pooled, tasks), d, pooled)
    BY <2>1, <2>2, PlanDeals DEF WavesOf, tasks
  <2>4. QED
    BY <2>3 DEF tasks
<1>5. QED
  BY <1>1, <1>2, <1>3, <1>4

\* Every pair is kept by one subproblem of one wave, and by no other.
LEMMA OneInWaves ==
    ASSUME NEW c, NEW waves, NEW d \in 1 .. Deepest, NEW pooled, WavesOf(c, waves, d, pooled),
           NEW x \in Pairs
    PROVE  \E w \in DOMAIN waves : \E i \in DOMAIN waves[w] :
              /\ x \in waves[w][i].kept
              /\ \A v \in DOMAIN waves : \A j \in DOMAIN waves[v] :
                    x \in waves[v][j].kept => v = w /\ j = i
<1> DEFINE tasks == wave_tasks[d]
           n == Len(tasks)
<1>1. PICK at : Dealt(tasks, n, waves, at)
  BY DEF WavesOf
<1>2. /\ tasks \in Seq(WaveTask) /\ DOMAIN tasks = DOMAIN Tasks[d] /\ DOMAIN tasks = 1 .. n
      /\ \A i \in DOMAIN Tasks[d] : tasks[i].kept = KeptOf[Tasks[d][i]]
  <2>1. \A i \in DOMAIN Tasks[d] : tasks[i] = Entry(Tasks[d][i])
    BY WaveTasksAre
  <2>2. \A p : Entry(p).kept = KeptOf[p]
    BY DEF Entry
  <2>3. tasks \in Seq(WaveTask) /\ DOMAIN tasks = DOMAIN Tasks[d]
    BY WaveTasksAre
  <2>4. QED
    BY <2>1, <2>2, <2>3
<1>3. PICK i \in 1 .. n :
         x \in tasks[i].kept /\ \A j \in 1 .. n : x \in tasks[j].kept => j = i
  <2>1. d \in 0 .. Deepest
    BY DeepestType
  <2>2. PICK i \in DOMAIN Tasks[d] :
           /\ x \in KeptOf[Tasks[d][i]]
           /\ \A j \in DOMAIN Tasks[d] : x \in KeptOf[Tasks[d][j]] => j = i
    BY <2>1, OneTask
  <2>3. QED
    BY <1>2, <2>2
<1> HIDE DEF tasks, n
<1>4. /\ at[i][1] \in DOMAIN waves /\ at[i][2] \in DOMAIN waves[at[i][1]]
      /\ waves[at[i][1]][at[i][2]] = tasks[i]
  BY <1>1 DEF Dealt
<1>5. ASSUME NEW v \in DOMAIN waves, NEW j \in DOMAIN waves[v], x \in waves[v][j].kept
      PROVE  v = at[i][1] /\ j = at[i][2]
  <2>1. PICK k \in 1 .. n : at[k] = <<v, j>>
    BY <1>1 DEF Dealt
  <2>2. waves[v][j] = tasks[k]
    BY <1>1, <2>1 DEF Dealt
  <2>3. k = i
    BY <1>3, <1>5, <2>2
  <2>4. QED
    BY <2>1, <2>3
<1>6. QED
  BY <1>3, <1>4, <1>5

-----------------------------------------------------------------------------
(* The host and its pool.                                                    *)

Cells(c) == (0 .. c.n_slots - 1) \X Tensor

\* The work the host issues.
Op(c) == [op : {"zero"}]
         \cup [op : {"h2d"}, buf : 0 .. 1, src : Nat \X Chunk \X Tensor, dst : Cells(c)]
         \cup [op : {"forward"}, b : Nat, w : Nat, slot_of : [Chunk -> -1 .. c.n_slots - 1]]
         \cup [op : {"merge"}, w : Nat]
         \cup [op : {"out"}, b : Nat]
         \cup [op : {"backward"}, b : Nat, w : Nat]

Control == {"zero", "wave", "load", "fold", "backward", "done"}

\* Where the host can be: within a wave when it loads or folds.
HostInv ==
    /\ call \in Calls
    /\ pc \in Control
    /\ b \in 0 .. call.batch - 1
    /\ issued \in Nat
    /\ pc # "backward" => issued <= Len(Waves)
    /\ pc \in {"load", "fold"} => issued < Len(Waves)
    /\ pc \in {"zero", "done"} => issued = 0
    /\ pc = "load" => call.host
    /\ pc = "fold" => ~call.acc_gpu
    /\ pc = "backward" => issued < Len(BwdWaves[call]) /\ call.kernel = "cuda"

\* No two chunks share a slot, and every chunk of the wave being loaded has one.
SlotInv ==
    /\ slot_of \in [Chunk -> -1 .. call.n_slots - 1]
    /\ \A j, k \in Chunk : j # k /\ slot_of[j] # -1 => slot_of[j] # slot_of[k]
    /\ todo \in Seq(Chunk \X Tensor)
    /\ \A x \in DOMAIN todo : slot_of[todo[x][1]] # -1
    /\ pc # "load" => todo = <<>>
    /\ pc = "load" => \A k \in ChunksOf(Wave) : slot_of[k] # -1
    /\ copied \in Nat

\* What is issued, and what the stream works on.
DeviceInv ==
    /\ queue \in Seq(Op(call))
    /\ DOMAIN stage = 0 .. 1
    /\ DOMAIN pool = Cells(call)
    /\ DOMAIN part = Token /\ DOMAIN acc = Token
    /\ DOMAIN out = 0 .. call.batch - 1 /\ DOMAIN grad = 0 .. call.batch - 1

TypeInv == HostInv /\ SlotInv /\ DeviceInv

\* The chunks of a wave are chunks, and with a pool no more than it has slots.
LEMMA WaveChunks ==
    ASSUME NEW c \in Calls, NEW w \in DOMAIN FwdWaves[c]
    PROVE  /\ ChunksOf(FwdWaves[c][w]) \subseteq Chunk /\ IsFiniteSet(ChunksOf(FwdWaves[c][w]))
           /\ c.host => Cardinality(ChunksOf(FwdWaves[c][w])) <= c.n_slots
<1>1. FwdWaves[c] \in Seq(Seq(WaveTask)) /\ FwdWaves[c][w] \in Seq(WaveTask)
  BY WavesAre DEF WavesOf
<1>2. \A i \in DOMAIN FwdWaves[c][w] : FwdWaves[c][w][i].chunks \subseteq Chunk
  BY <1>1, EntryIs
<1>3. ChunksOf(FwdWaves[c][w]) \in SUBSET Chunk
  BY <1>2 DEF ChunksOf
<1>4. IsFiniteSet(Chunk)
  BY DecompositionAssumption, FS_Interval DEF Chunk
<1>5. c.host => Cardinality(ChunksOf(FwdWaves[c][w])) <= c.n_slots
  BY WavesAre DEF WavesOf
<1>6. QED
  BY <1>3, <1>4, <1>5, FS_Subset

\* The numbers of a call.
LEMMA CallIs ==
    ASSUME NEW c \in Calls
    PROVE  /\ c.batch \in Nat \ {0} /\ c.n_slots \in Nat
           /\ c.host \in BOOLEAN /\ c.causal \in BOOLEAN /\ c.acc_gpu \in BOOLEAN
           /\ c.kernel \in {"cuda", "triton"}
           /\ Len(FwdWaves[c]) \in Nat /\ DOMAIN FwdWaves[c] = 1 .. Len(FwdWaves[c])
           /\ Len(BwdWaves[c]) \in Nat /\ DOMAIN BwdWaves[c] = 1 .. Len(BwdWaves[c])
<1>1. IsFiniteSet(InterestSet)
  <2>1. IsFiniteSet(Chunk) /\ InterestSet \in SUBSET Chunk
    BY DecompositionAssumption, FS_Interval DEF Chunk
  <2>2. QED
    BY <2>1, FS_Subset
<1>2. Cardinality(InterestSet) \in Nat
  BY <1>1, FS_CardinalityType
<1>3. FwdWaves[c] \in Seq(Seq(WaveTask)) /\ BwdWaves[c] \in Seq(Seq(WaveTask))
  BY WavesAre DEF WavesOf
<1>4. QED
  BY <1>2, <1>3, WaveAssumption

\* There is a free slot for every chunk the wave misses (ChunkPool.load), another one
\* for each.
LEMMA LoadSlots ==
    ASSUME HostInv, SlotInv, BeginLoad
    PROVE  /\ slot_of' \in [Chunk -> -1 .. call.n_slots - 1]
           /\ \A j, k \in Chunk : j # k /\ slot_of'[j] # -1 => slot_of'[j] # slot_of'[k]
           /\ \A k \in Resident : slot_of'[k] = slot_of[k]
           /\ \A k \in ChunksOf(Wave) : slot_of'[k] # -1
           /\ \A k \in Chunk : k \notin ChunksOf(Wave) => slot_of'[k] = -1
           /\ todo' \in Seq(Chunk \X Tensor)
           /\ Range(todo') = (ChunksOf(Wave) \ Resident) \X Tensor
<1> DEFINE W == ChunksOf(Wave)
           n == call.n_slots
           R == Resident
           M == W \ R
           Used == {slot_of[k] : k \in R}
           Free == FreeSlots
           missing == Ascending(M)
           free == Reverse(Ascending(Free))
           at(k) == CHOOSE x \in DOMAIN missing : missing[x] = k
<1>1. /\ call \in Calls /\ call.host /\ n \in Nat /\ issued + 1 \in DOMAIN FwdWaves[call]
      /\ slot_of \in [Chunk -> -1 .. n - 1]
  BY CallIs DEF HostInv, SlotInv, BeginLoad, Waves
<1>2. W \subseteq Chunk /\ IsFiniteSet(W) /\ Cardinality(W) <= n /\ Cardinality(W) \in Nat
  BY <1>1, WaveChunks, FS_CardinalityType DEF Wave, Waves
<1>3. R \subseteq W /\ \A k \in W : k \in R <=> slot_of[k] # -1
  BY DEF Resident
<1> HIDE DEF W, R, n
<1>4. /\ IsFiniteSet(R) /\ IsFiniteSet(M) /\ Cardinality(R) \in Nat /\ Cardinality(M) \in Nat
      /\ Cardinality(M) = Cardinality(W) - Cardinality(R)
  <2>1. R \in SUBSET W /\ W \cap R = R
    BY <1>3
  <2>2. IsFiniteSet(R)
    BY <2>1, <1>2, FS_Subset
  <2>3. IsFiniteSet(M) /\ Cardinality(M) = Cardinality(W) - Cardinality(W \cap R)
    BY <1>2, FS_Difference
  <2>4. QED
    BY <2>1, <2>2, <2>3, FS_CardinalityType
<1>5. IsFiniteSet(Used) /\ Cardinality(Used) = Cardinality(R) /\ Used \subseteq 0 .. n - 1
  <2> DEFINE f == [k \in R |-> slot_of[k]]
  <2>1. f \in Surjection(R, Used)
    BY DEF Surjection
  <2>2. \A j, k \in R : j # k => slot_of[j] # slot_of[k]
    BY <1>2, <1>3 DEF SlotInv
  <2>3. f \in Injection(R, Used)
    BY <2>1, <2>2 DEF Injection, IsInjective, Surjection
  <2>4. IsFiniteSet(Used) /\ Cardinality(Used) = Cardinality(R)
    BY <2>1, <2>3, <1>4, FS_Surjection
  <2>5. Used \subseteq 0 .. n - 1
    <3>1. \A k \in R : slot_of[k] \in -1 .. n - 1 /\ slot_of[k] # -1
      BY <1>1, <1>2, <1>3
    <3>2. QED
      BY <3>1, <1>1
  <2>6. QED
    BY <2>4, <2>5
<1>6. Free = (0 .. n - 1) \ Used
  BY DEF FreeSlots, R, n
<1>7. IsFiniteSet(Free) /\ Free \subseteq 0 .. n - 1 /\ Cardinality(Free) = n - Cardinality(R)
  <2>1. IsFiniteSet(0 .. n - 1) /\ Cardinality(0 .. n - 1) = n
    BY <1>1, FS_Interval
  <2>2. (0 .. n - 1) \cap Used = Used
    BY <1>5
  <2>3. IsFiniteSet((0 .. n - 1) \ Used)
    BY <2>1, FS_Difference
  <2>4. Cardinality((0 .. n - 1) \ Used) = Cardinality(0 .. n - 1) - Cardinality((0 .. n - 1) \cap Used)
    BY <2>1, FS_Difference
  <2>5. QED
    BY <1>5, <1>6, <2>1, <2>2, <2>3, <2>4
<1>8. Cardinality(M) <= Cardinality(Free)
  BY <1>1, <1>2, <1>4, <1>7
<1> DEFINE m == Cardinality(M)
           l == Cardinality(Free)
<1>9. M \subseteq Int /\ Free \subseteq Int
  <2>1. Chunk \subseteq Int /\ 0 .. n - 1 \subseteq Int
    BY <1>1, DecompositionAssumption DEF Chunk
  <2>2. QED
    BY <2>1, <1>2, <1>7 DEF M
<1>10. /\ m \in Nat /\ DOMAIN missing = 1 .. m /\ Len(missing) = m /\ missing \in Seq(M)
       /\ \A x \in 1 .. m : missing[x] \in M /\ Rank(M, missing[x]) = x - 1
       /\ \A k \in M : Rank(M, k) \in 0 .. m - 1 /\ missing[Rank(M, k) + 1] = k
  BY <1>4, <1>9, AscendingIs
<1>11. /\ l \in Nat /\ DOMAIN Ascending(Free) = 1 .. l /\ Len(Ascending(Free)) = l
       /\ \A x \in 1 .. l : Ascending(Free)[x] \in Free /\ Rank(Free, Ascending(Free)[x]) = x - 1
  BY <1>7, <1>9, AscendingIs
<1> HIDE DEF M, Free, m, l
<1>12. \A x \in 1 .. l : free[x] = Ascending(Free)[l - x + 1] /\ l - x + 1 \in 1 .. l
  BY <1>11 DEF Reverse
<1>13. /\ \A x \in 1 .. l : free[x] \in Free
       /\ \A x, y \in 1 .. l : free[x] = free[y] => x = y
  <2>1. \A x \in 1 .. l : free[x] \in Free /\ Rank(Free, free[x]) = (l - x + 1) - 1
    BY <1>11, <1>12
  <2>2. QED
    BY <2>1, <1>11
<1>14. \A k \in M : at(k) \in 1 .. m /\ missing[at(k)] = k
  <2> TAKE k \in M
  <2>1. Rank(M, k) + 1 \in 1 .. m /\ missing[Rank(M, k) + 1] = k
    BY <1>10
  <2>2. \E x \in DOMAIN missing : missing[x] = k
    BY <2>1, <1>10
  <2>3. at(k) \in DOMAIN missing /\ missing[at(k)] = k
    BY <2>2
  <2>4. QED
    BY <2>3, <1>10
<1>15. m <= l
  BY <1>8 DEF m, l
<1>16. slot_of' = [k \in Chunk |-> IF k \in R THEN slot_of[k] ELSE IF k \in W THEN free[at(k)] ELSE -1]
  BY DEF BeginLoad, Missing, R, W, M, Free
<1> HIDE DEF missing, free, at
<1>17. \A k \in M : free[at(k)] \in Free /\ free[at(k)] \in 0 .. n - 1 /\ free[at(k)] \notin Used
  <2> TAKE k \in M
  <2>1. at(k) \in 1 .. l
    BY <1>10, <1>11, <1>14, <1>15
  <2>2. QED
    BY <2>1, <1>6, <1>13
<1>18. \A j, k \in M : free[at(j)] = free[at(k)] => j = k
  <2> TAKE j, k \in M
  <2>1. at(j) \in 1 .. l /\ at(k) \in 1 .. l
    BY <1>10, <1>11, <1>14, <1>15
  <2>2. QED
    BY <2>1, <1>13, <1>14
<1>19. \A k \in W : k \in R \/ k \in M
  BY DEF M
<1>20. /\ \A k \in R : slot_of'[k] = slot_of[k] /\ slot_of'[k] \in Used /\ slot_of'[k] # -1
       /\ \A k \in M : slot_of'[k] = free[at(k)] /\ slot_of'[k] \in 0 .. n - 1 /\ slot_of'[k] \notin Used
       /\ \A k \in Chunk : k \notin W => slot_of'[k] = -1
  <2>1. \A k \in R : k \in Chunk /\ slot_of[k] # -1
    BY <1>2, <1>3
  <2>2. \A k \in M : k \in Chunk /\ k \in W /\ k \notin R
    BY <1>2 DEF M
  <2>3. \A k \in R : slot_of'[k] = slot_of[k]
    BY <2>1, <1>16
  <2>4. \A k \in M : slot_of'[k] = free[at(k)]
    BY <2>2, <1>16
  <2>5. \A k \in Chunk : k \notin W => slot_of'[k] = -1
    BY <1>16, <1>3
  <2>6. QED
    BY <2>1, <2>3, <2>4, <2>5, <1>17
<1>21. \A j, k \in Chunk : j # k /\ slot_of'[j] # -1 => slot_of'[j] # slot_of'[k]
  <2> TAKE j, k \in Chunk
  <2> HAVE j # k /\ slot_of'[j] # -1
  <2>1. j \in W
    BY <1>20
  <2>2. CASE k \notin W
    BY <2>2, <1>20
  <2>3. CASE j \in R /\ k \in R
    BY <2>3, <1>20 DEF SlotInv
  <2>4. CASE j \in R /\ k \in M
    BY <2>4, <1>20
  <2>5. CASE j \in M /\ k \in R
    BY <2>5, <1>20
  <2>6. CASE j \in M /\ k \in M
    BY <2>6, <1>18, <1>20
  <2>7. QED
    BY <2>1, <2>2, <2>3, <2>4, <2>5, <2>6, <1>19
<1>22. \A k \in W : slot_of'[k] # -1
  <2>1. \A k \in M : slot_of'[k] \in 0 .. n - 1 => slot_of'[k] # -1
    BY <1>1
  <2>2. QED
    BY <2>1, <1>19, <1>20
<1>23. slot_of' \in [Chunk -> -1 .. n - 1]
  <2>1. \A k \in Chunk : slot_of'[k] \in -1 .. n - 1
    <3> TAKE k \in Chunk
    <3>1. CASE k \in R
      BY <3>1, <1>1, <1>20
    <3>2. CASE k \in M
      BY <3>2, <1>1, <1>20
    <3>3. CASE k \notin W
      BY <3>3, <1>1, <1>20
    <3>4. QED
      BY <3>1, <3>2, <3>3, <1>19
  <2>2. slot_of' = [k \in Chunk |-> slot_of'[k]]
    BY <1>16
  <2>3. QED
    BY <2>1, <2>2
<1>24. todo' \in Seq(Chunk \X Tensor) /\ Range(todo') = M \X Tensor
  <2> DEFINE three(x) == <<<<missing[x], "q">>, <<missing[x], "k">>, <<missing[x], "v">>>>
             seqs == [x \in 1 .. m |-> three(x)]
  <2>1. todo' = FlattenSeq([x \in DOMAIN missing |-> three(x)])
    BY DEF BeginLoad, Missing, missing, M, R, W
  <2>2. todo' = FlattenSeq(seqs)
    BY <2>1, <1>10
  <2>3. \A x \in 1 .. m : missing[x] \in M /\ missing[x] \in Chunk
    BY <1>2, <1>10 DEF M
  <2>4. \A x, y \in 1 .. m : missing[x] = missing[y] => x = y
    BY <1>10
  <2>5. \A x \in 1 .. m : /\ seqs[x] \in Seq(Chunk \X Tensor) /\ Distinct(seqs[x])
                           /\ Range(seqs[x]) = {missing[x]} \X Tensor
    <3> TAKE x \in 1 .. m
    <3> DEFINE k == missing[x]
               s == <<<<k, "q">>, <<k, "k">>, <<k, "v">>>>
    <3>1. k \in Chunk /\ seqs[x] = s
      BY <2>3
    <3> HIDE DEF k
    <3>2. DOMAIN s = {1, 2, 3} /\ s[1] = <<k, "q">> /\ s[2] = <<k, "k">> /\ s[3] = <<k, "v">>
      OBVIOUS
    <3>3. s \in Seq(Chunk \X Tensor)
      BY <3>1 DEF Tensor
    <3> HIDE DEF s
    <3>4. Distinct(s)
      BY <3>2 DEF Distinct
    <3>5. Range(s) = {k} \X Tensor
      BY <3>2 DEF Range, Tensor
    <3>6. QED
      BY <3>1, <3>3, <3>4, <3>5 DEF k
  <2>6. \A x, y \in 1 .. m : x # y => Range(seqs[x]) \cap Range(seqs[y]) = {}
    BY <2>4, <2>5
  <2>7. seqs \in [1 .. m -> Seq(Chunk \X Tensor)]
    BY <2>5
  <2> HIDE DEF seqs
  <2>8. /\ FlattenSeq(seqs) \in Seq(Chunk \X Tensor)
        /\ Range(FlattenSeq(seqs)) = UNION {Range(seqs[x]) : x \in 1 .. m}
    <3>1. m \in Nat /\ \A x \in 1 .. m : Distinct(seqs[x])
      BY <2>5, <1>10
    <3>2. QED
      BY <3>1, <2>6, <2>7, FlattenIs
  <2>9. UNION {Range(seqs[x]) : x \in 1 .. m} = M \X Tensor
    <3>1. \A k \in M : \E x \in 1 .. m : missing[x] = k
      <4> TAKE k \in M
      <4>1. Rank(M, k) + 1 \in 1 .. m /\ missing[Rank(M, k) + 1] = k
        BY <1>10
      <4>2. QED
        BY <4>1
    <3>2. QED
      BY <3>1, <2>3, <2>5
  <2>10. QED
    BY <2>2, <2>8, <2>9
<1>25. QED
  BY <1>20, <1>21, <1>22, <1>23, <1>24 DEF W, R, M, n

\* The host keeps to the waves of its call.
LEMMA HostStays ==
    ASSUME HostInv, [Next]_vars
    PROVE  HostInv'
<1> USE DEF HostInv, Control, hostVars, deviceVars
<1>0. call \in Calls /\ Len(Waves) \in Nat /\ Len(BwdWaves[call]) \in Nat
  BY CallIs DEF Waves
<1>1. CASE ZeroAcc
  BY <1>0, <1>1 DEF ZeroAcc, Waves
<1>2. CASE BeginLoad
  BY <1>0, <1>2 DEF BeginLoad, Waves
<1>3. CASE CopyChunk
  BY <1>0, <1>3 DEF CopyChunk, Waves
<1>4. CASE Launch
  <2>1. issued < Len(Waves)
    BY <1>4 DEF Launch
  <2>2. QED
    BY <1>0, <1>4, <2>1 DEF Launch, Waves
<1>5. CASE Fold
  BY <1>0, <1>5 DEF Fold, Waves
<1>6. CASE Output
  <2>1. call.batch \in Nat \ {0}
    BY <1>0, CallIs
  <2>2. BwdWaves[call] # <<>> => 0 < Len(BwdWaves[call])
    <3>1. BwdWaves[call] \in Seq(Seq(WaveTask))
      BY <1>0, WavesAre DEF WavesOf
    <3>2. QED
      BY <3>1
  <2>3. call' = call /\ issued' = 0 /\ pc = "wave" /\ issued = Len(Waves)
    BY <1>6 DEF Output
  <2>4. CASE b + 1 < call.batch
    BY <1>0, <1>6, <2>1, <2>3, <2>4 DEF Output, Waves
  <2>5. CASE ~(b + 1 < call.batch)
    BY <1>0, <1>6, <2>1, <2>2, <2>3, <2>5 DEF Output, Waves
  <2>6. QED
    BY <2>4, <2>5
<1>7. CASE IssueBackward
  <2>1. call.batch \in Nat \ {0}
    BY <1>0, CallIs
  <2>2. call' = call /\ pc = "backward"
    BY <1>7 DEF IssueBackward
  <2>3. CASE issued + 1 < Len(BwdWaves[call])
    BY <1>0, <1>7, <2>1, <2>2, <2>3 DEF IssueBackward, Waves
  <2>4. CASE ~(issued + 1 < Len(BwdWaves[call]))
    BY <1>0, <1>7, <2>1, <2>2, <2>4 DEF IssueBackward, Waves
  <2>5. QED
    BY <2>3, <2>4
<1>8. CASE DeviceStep
  BY <1>8 DEF DeviceStep, Zero, HostToDevice, ForwardKernel, Merge, CopyOut, BackwardKernel, Waves
<1>9. CASE Complete \/ UNCHANGED vars
  BY <1>9 DEF Complete, vars, Waves
<1>10. QED
  BY <1>1, <1>2, <1>3, <1>4, <1>5, <1>6, <1>7, <1>8, <1>9 DEF Next, HostStep

\* The pool keeps its slots apart through every load.
LEMMA SlotsStay ==
    ASSUME HostInv, SlotInv, [Next]_vars
    PROVE  SlotInv'
<1> USE DEF hostVars, deviceVars
<1>1. CASE BeginLoad
  <2>1. /\ slot_of' \in [Chunk -> -1 .. call.n_slots - 1]
        /\ \A j, k \in Chunk : j # k /\ slot_of'[j] # -1 => slot_of'[j] # slot_of'[k]
        /\ \A k \in ChunksOf(Wave) : slot_of'[k] # -1
        /\ todo' \in Seq(Chunk \X Tensor)
        /\ Range(todo') = (ChunksOf(Wave) \ Resident) \X Tensor
    BY <1>1, LoadSlots
  <2>2. \A x \in DOMAIN todo' : slot_of'[todo'[x][1]] # -1
    <3> TAKE x \in DOMAIN todo'
    <3>1. todo'[x] \in Range(todo')
      BY DEF Range
    <3>2. todo'[x][1] \in ChunksOf(Wave)
      BY <2>1, <3>1
    <3>3. QED
      BY <2>1, <3>2
  <2>3. call' = call /\ pc' = "load" /\ Wave' = Wave /\ copied' = 0
    BY <1>1 DEF BeginLoad, Wave, Waves
  <2>4. ChunksOf(Wave)' = ChunksOf(Wave)
    BY <2>3
  <2>5. QED
    BY <2>1, <2>2, <2>3, <2>4 DEF SlotInv
<1>2. CASE CopyChunk
  <2>1. todo # <<>> /\ todo \in Seq(Chunk \X Tensor) /\ todo' = Tail(todo) /\ copied' = copied + 1
    BY <1>2 DEF CopyChunk, SlotInv
  <2>2. /\ Tail(todo) \in Seq(Chunk \X Tensor)
        /\ \A k \in DOMAIN Tail(todo) : k + 1 \in DOMAIN todo /\ Tail(todo)[k] = todo[k + 1]
    BY <2>1, TailIs
  <2>3. pc = "load" /\ pc' = pc /\ call' = call /\ slot_of' = slot_of /\ Wave' = Wave
    BY <1>2 DEF CopyChunk, Wave, Waves
  <2>4. ChunksOf(Wave)' = ChunksOf(Wave)
    BY <2>3
  <2>5. QED
    BY <2>1, <2>2, <2>3, <2>4 DEF SlotInv
<1>3. CASE Launch
  <2>1. todo' = todo /\ slot_of' = slot_of /\ call' = call /\ copied' = copied /\ pc' # "load"
    BY <1>3 DEF Launch
  <2>2. todo = <<>>
    BY <1>3 DEF Launch, SlotInv
  <2>3. QED
    BY <2>1, <2>2 DEF SlotInv
<1>4. ASSUME slot_of' = slot_of, call' = call, todo' = todo, copied' = copied, pc # "load", pc' # "load"
      PROVE  SlotInv'
  BY <1>4 DEF SlotInv
<1>5. CASE ZeroAcc \/ Fold \/ Output \/ IssueBackward
  BY <1>4, <1>5 DEF ZeroAcc, Fold, Output, IssueBackward
<1>6. ASSUME UNCHANGED hostVars PROVE SlotInv'
  <2>1. Wave' = Wave
    BY <1>6 DEF Wave, Waves
  <2>2. ChunksOf(Wave)' = ChunksOf(Wave)
    BY <2>1
  <2>3. QED
    BY <1>6, <2>2 DEF SlotInv
<1>7. CASE DeviceStep \/ Complete \/ UNCHANGED vars
  BY <1>6, <1>7 DEF DeviceStep, Zero, HostToDevice, ForwardKernel, Merge, CopyOut, BackwardKernel,
                    Complete, vars
<1>8. QED
  BY <1>1, <1>2, <1>3, <1>5, <1>7 DEF Next, HostStep

\* The queue holds work, and what the stream works on keeps its shape.
LEMMA DeviceStays ==
    ASSUME HostInv, SlotInv, DeviceInv, [Next]_vars
    PROVE  DeviceInv'
<1> USE DEF hostVars, deviceVars
<1>0. /\ call \in Calls /\ call.batch \in Nat \ {0} /\ b \in Nat /\ issued + 1 \in Nat
      /\ queue \in Seq(Op(call))
  BY CallIs DEF HostInv, DeviceInv
<1>1. ASSUME NEW o \in Op(call), queue' = Append(queue, o), call' = call,
             UNCHANGED <<deviceVars, acc, out>>, DOMAIN stage' = DOMAIN stage
      PROVE  DeviceInv'
  <2>1. queue' \in Seq(Op(call))
    BY <1>0, <1>1
  <2>2. QED
    BY <1>1, <2>1 DEF DeviceInv, Cells
<1>2. CASE ZeroAcc
  <2>1. CASE call.acc_gpu
    <3>1. [op |-> "zero"] \in Op(call)
      BY DEF Op
    <3>2. QED
      BY <1>1, <1>2, <2>1, <3>1 DEF ZeroAcc
  <2>2. CASE ~call.acc_gpu
    BY <1>2, <2>2 DEF ZeroAcc, DeviceInv, Zeros, Cells
  <2>3. QED
    BY <2>1, <2>2
<1>3. CASE BeginLoad
  BY <1>3 DEF BeginLoad, DeviceInv, Cells
<1>4. CASE CopyChunk
  <2> DEFINE o == [op |-> "h2d", buf |-> copied % 2, src |-> <<b, todo[1][1], todo[1][2]>>,
                   dst |-> <<slot_of[todo[1][1]], todo[1][2]>>]
  <2>1. todo \in Seq(Chunk \X Tensor) /\ todo # <<>> /\ 1 \in DOMAIN todo
    BY <1>4 DEF CopyChunk, SlotInv
  <2>2. todo[1] \in Chunk \X Tensor /\ slot_of[todo[1][1]] # -1
    BY <2>1 DEF SlotInv
  <2>3. todo[1][1] \in Chunk /\ todo[1][2] \in Tensor
    BY <2>2
  <2>4. slot_of[todo[1][1]] \in 0 .. call.n_slots - 1
    <3>1. slot_of[todo[1][1]] \in -1 .. call.n_slots - 1 /\ call.n_slots \in Nat
      BY <1>0, <2>3, CallIs DEF SlotInv
    <3>2. QED
      BY <2>2, <3>1
  <2>5. copied % 2 \in 0 .. 1
    BY DEF SlotInv
  <2>6. o \in Op(call)
    BY <1>0, <2>3, <2>4, <2>5 DEF Op, Cells
  <2>7. queue' = Append(queue, o)
    BY <1>4 DEF CopyChunk
  <2>8. call' = call /\ UNCHANGED <<deviceVars, acc, out>> /\ DOMAIN stage' = DOMAIN stage
    BY <1>4 DEF CopyChunk
  <2> HIDE DEF o
  <2>9. QED
    BY <1>1, <2>6, <2>7, <2>8
<1>5. CASE Launch
  <2> DEFINE o == [op |-> "forward", b |-> b, w |-> issued + 1, slot_of |-> slot_of]
             m == [op |-> "merge", w |-> issued + 1]
  <2>1. o \in Op(call) /\ m \in Op(call)
    BY <1>0 DEF Op, SlotInv
  <2>2. queue' = queue \o <<o, m>>
    BY <1>5 DEF Launch
  <2> HIDE DEF o, m
  <2>3. queue' \in Seq(Op(call))
    BY <1>0, <2>1, <2>2
  <2>4. QED
    BY <1>5, <2>3 DEF Launch, DeviceInv, Cells
<1>6. CASE Fold
  BY <1>6 DEF Fold, DeviceInv, Cells
<1>7. CASE Output
  <2>1. CASE call.acc_gpu
    <3>1. [op |-> "out", b |-> b] \in Op(call)
      BY <1>0 DEF Op
    <3>2. QED
      BY <1>1, <1>7, <2>1, <3>1 DEF Output
  <2>2. CASE ~call.acc_gpu
    BY <1>7, <2>2 DEF Output, DeviceInv, Cells
  <2>3. QED
    BY <2>1, <2>2
<1>8. CASE IssueBackward
  <2>1. [op |-> "backward", b |-> b, w |-> issued + 1] \in Op(call)
    BY <1>0 DEF Op
  <2>2. QED
    BY <1>1, <1>8, <2>1 DEF IssueBackward
<1>9. CASE DeviceStep
  <2>1. queue # <<>> /\ queue' = Tail(queue) /\ call' = call /\ stage' = stage
    BY <1>9 DEF DeviceStep, Zero, HostToDevice, ForwardKernel, Merge, CopyOut, BackwardKernel, Execute
  <2>2. queue' \in Seq(Op(call))
    BY <1>0, <2>1, TailIs
  <2>3. /\ DOMAIN pool' = DOMAIN pool
        /\ DOMAIN out' = DOMAIN out
        /\ DOMAIN grad' = DOMAIN grad
    BY <1>9 DEF DeviceStep, Zero, HostToDevice, ForwardKernel, Merge, CopyOut, BackwardKernel, Scattered
  <2>4. DOMAIN part' = Token /\ DOMAIN acc' = Token
    BY <1>9 DEF DeviceStep, Zero, HostToDevice, ForwardKernel, Merge, CopyOut, BackwardKernel,
                DeviceInv, Zeros
  <2>5. QED
    BY <2>1, <2>2, <2>3, <2>4 DEF DeviceInv, Cells
<1>10. CASE Complete \/ UNCHANGED vars
  BY <1>10 DEF Complete, vars, DeviceInv, Cells
<1>11. QED
  BY <1>2, <1>3, <1>4, <1>5, <1>6, <1>7, <1>8, <1>9, <1>10 DEF Next, HostStep

-----------------------------------------------------------------------------
(* Staging buffers and block maps.                                           *)

\* What a step does to the queue: the stream takes the first entry, or the host adds
\* one, or a kernel with its merge, or neither.
LEMMA QueueStep ==
    ASSUME TypeInv, [Next]_vars
    PROVE  \/ queue' = queue
           \/ queue # <<>> /\ queue' = Tail(queue) /\ UNCHANGED hostVars
           \/ /\ UNCHANGED stage
              /\ \E o \in {[op |-> "zero"], [op |-> "out", b |-> b],
                          [op |-> "backward", b |-> b, w |-> issued + 1]} : queue' = Append(queue, o)
           \/ CopyChunk
           \/ Launch
  BY DEF Next, HostStep, DeviceStep, ZeroAcc, BeginLoad, Fold, Output, IssueBackward, Zero, HostToDevice,
         ForwardKernel, Merge, CopyOut, BackwardKernel, Execute, Complete, vars, hostVars, deviceVars

\* The buffer a copy refills belongs to no copy that waits.
LEMMA StagingStays ==
    ASSUME TypeInv, StagingOwned, [Next]_vars
    PROVE  StagingOwned'
<1>0. queue \in Seq(Op(call)) /\ call \in Calls
  BY DEF TypeInv, DeviceInv, HostInv
<1>1. ASSUME queue' = queue, ~CopyChunk PROVE stage' = stage
  BY <1>1 DEF Next, HostStep, DeviceStep, ZeroAcc, BeginLoad, Launch, Fold, Output, IssueBackward, Zero,
              HostToDevice, ForwardKernel, Merge, CopyOut, BackwardKernel, Complete, vars, hostVars,
              deviceVars
<1>2. CASE CopyChunk
  <2> DEFINE s == copied % 2
             o == [op |-> "h2d", buf |-> s, src |-> <<b, todo[1][1], todo[1][2]>>,
                   dst |-> <<slot_of[todo[1][1]], todo[1][2]>>]
  <2>1. queue' = Append(queue, o) /\ stage' = [stage EXCEPT ![s] = o.src]
    BY <1>2 DEF CopyChunk
  <2>2. s \in 0 .. 1 /\ DOMAIN stage = 0 .. 1
    BY DEF TypeInv, SlotInv, DeviceInv
  <2>3. \A x \in DOMAIN queue : queue[x].op = "h2d" => queue[x].buf # s
    BY <1>2 DEF CopyChunk, EventFired
  <2>4. o.buf = s /\ o.op = "h2d"
    OBVIOUS
  <2> HIDE DEF o, s
  <2>5. /\ \A x \in DOMAIN queue' : x \in DOMAIN queue \/ x = Len(queue) + 1
        /\ \A x \in DOMAIN queue : queue'[x] = queue[x]
        /\ queue'[Len(queue) + 1] = o
    BY <1>0, <2>1
  <2>6. \A x \in DOMAIN queue : queue[x].op = "h2d" => stage'[queue[x].buf] = queue[x].src
    BY <2>1, <2>3 DEF StagingOwned
  <2>7. stage'[s] = o.src
    BY <2>1, <2>2
  <2>8. QED
    BY <2>4, <2>5, <2>6, <2>7 DEF StagingOwned
<1>3. CASE Launch
  <2> DEFINE o == [op |-> "forward", b |-> b, w |-> issued + 1, slot_of |-> slot_of]
             m == [op |-> "merge", w |-> issued + 1]
  <2>1. queue' = queue \o <<o, m>> /\ stage' = stage
    BY <1>3 DEF Launch
  <2>2. o.op # "h2d" /\ m.op # "h2d"
    OBVIOUS
  <2> HIDE DEF o, m
  <2>3. \A x \in DOMAIN queue' : \/ x \in DOMAIN queue /\ queue'[x] = queue[x]
                                 \/ queue'[x] = o
                                 \/ queue'[x] = m
    BY <1>0, <2>1
  <2>4. QED
    BY <2>1, <2>2, <2>3 DEF StagingOwned
<1>4. ASSUME NEW o, o.op # "h2d", queue' = Append(queue, o), stage' = stage PROVE StagingOwned'
  <2>1. \A x \in DOMAIN queue' : \/ x \in DOMAIN queue /\ queue'[x] = queue[x]
                                 \/ queue'[x] = o
    BY <1>0, <1>4
  <2>2. QED
    BY <1>4, <2>1 DEF StagingOwned
<1>5. ASSUME queue # <<>>, queue' = Tail(queue), UNCHANGED hostVars PROVE StagingOwned'
  <2>1. \A x \in DOMAIN queue' : x + 1 \in DOMAIN queue /\ queue'[x] = queue[x + 1]
    BY <1>0, <1>5, TailIs
  <2>2. QED
    BY <1>5, <2>1 DEF StagingOwned, hostVars
<1>6. CASE queue' = queue
  <2>1. CASE CopyChunk
    BY <2>1, <1>2
  <2>2. CASE ~CopyChunk
    BY <1>1, <1>6, <2>2 DEF StagingOwned
  <2>3. QED
    BY <2>1, <2>2
<1>7. CASE UNCHANGED stage /\ \E o \in {[op |-> "zero"], [op |-> "out", b |-> b],
                                       [op |-> "backward", b |-> b, w |-> issued + 1]} :
                              queue' = Append(queue, o)
  <2>1. PICK o \in {[op |-> "zero"], [op |-> "out", b |-> b],
                    [op |-> "backward", b |-> b, w |-> issued + 1]} : queue' = Append(queue, o)
    BY <1>7
  <2>2. o.op # "h2d"
    OBVIOUS
  <2>3. QED
    BY <1>4, <1>7, <2>1, <2>2
<1>8. QED
  BY QueueStep, <1>2, <1>3, <1>5, <1>6, <1>7

\* Every launched kernel has a slot for each chunk of its wave.
MapsInv ==
    \A x \in DOMAIN queue : call.host /\ queue[x].op = "forward" =>
        /\ queue[x].w \in DOMAIN Waves
        /\ \A k \in ChunksOf(Waves[queue[x].w]) : queue[x].slot_of[k] # -1

LEMMA MapsStay ==
    ASSUME TypeInv, MapsInv, [Next]_vars
    PROVE  MapsInv'
<1>0. queue \in Seq(Op(call)) /\ call \in Calls
  BY DEF TypeInv, DeviceInv, HostInv
<1>1. call' = call /\ Waves' = Waves
  <2>1. call' = call
    BY DEF Next, HostStep, DeviceStep, ZeroAcc, BeginLoad, CopyChunk, Launch, Fold, Output, IssueBackward,
           Zero, HostToDevice, ForwardKernel, Merge, CopyOut, BackwardKernel, Complete, vars, hostVars
  <2>2. QED
    BY <2>1 DEF Waves
<1>2. ASSUME NEW o, call.host /\ o.op = "forward" =>
                        o.w \in DOMAIN Waves /\ \A k \in ChunksOf(Waves[o.w]) : o.slot_of[k] # -1,
             NEW m, m.op # "forward",
             \A x \in DOMAIN queue' : \/ x \in DOMAIN queue /\ queue'[x] = queue[x]
                                     \/ queue'[x] = o
                                     \/ queue'[x] = m
      PROVE  MapsInv'
  <2> SUFFICES ASSUME NEW x \in DOMAIN queue', call.host, queue'[x].op = "forward"
               PROVE  /\ queue'[x].w \in DOMAIN Waves
                      /\ \A k \in ChunksOf(Waves[queue'[x].w]) : queue'[x].slot_of[k] # -1
    BY <1>1 DEF MapsInv
  <2>1. CASE x \in DOMAIN queue /\ queue'[x] = queue[x]
    BY <2>1 DEF MapsInv
  <2>2. CASE queue'[x] = o
    BY <2>2, <1>2
  <2>3. QED
    BY <1>2, <2>1, <2>2
<1>3. CASE CopyChunk
  <2> DEFINE o == [op |-> "h2d", buf |-> copied % 2, src |-> <<b, todo[1][1], todo[1][2]>>,
                   dst |-> <<slot_of[todo[1][1]], todo[1][2]>>]
  <2>1. queue' = Append(queue, o) /\ o.op # "forward"
    BY <1>3 DEF CopyChunk
  <2> HIDE DEF o
  <2>2. \A x \in DOMAIN queue' : (x \in DOMAIN queue /\ queue'[x] = queue[x]) \/ queue'[x] = o
    BY <1>0, <2>1
  <2>3. QED
    BY <1>2, <2>1, <2>2
<1>4. CASE Launch
  <2> DEFINE o == [op |-> "forward", b |-> b, w |-> issued + 1, slot_of |-> slot_of]
             m == [op |-> "merge", w |-> issued + 1]
  <2>1. queue' = queue \o <<o, m>> /\ m.op # "forward"
    BY <1>4 DEF Launch
  <2>2. issued < Len(Waves) /\ issued \in Nat /\ Len(Waves) \in Nat /\ DOMAIN Waves = 1 .. Len(Waves)
    BY <1>0, <1>4, CallIs DEF Launch, TypeInv, HostInv, Waves
  <2>3. o.w = issued + 1 /\ o.w \in DOMAIN Waves /\ o.slot_of = slot_of
    BY <2>2
  <2>4. call.host => \A k \in ChunksOf(Wave) : slot_of[k] # -1
    BY <1>4 DEF Launch, TypeInv, SlotInv
  <2>5. call.host /\ o.op = "forward" =>
           o.w \in DOMAIN Waves /\ \A k \in ChunksOf(Waves[o.w]) : o.slot_of[k] # -1
    BY <2>3, <2>4 DEF Wave
  <2> HIDE DEF o, m
  <2>6. \A x \in DOMAIN queue' : \/ x \in DOMAIN queue /\ queue'[x] = queue[x]
                                 \/ queue'[x] = o
                                 \/ queue'[x] = m
    BY <1>0, <2>1
  <2>7. m.op # "forward"
    BY <2>1
  <2>8. QED
    BY ONLY <1>2, <2>5, <2>6, <2>7
<1>5. ASSUME queue # <<>>, queue' = Tail(queue) PROVE MapsInv'
  <2>1. \A x \in DOMAIN queue' : x + 1 \in DOMAIN queue /\ queue'[x] = queue[x + 1]
    BY <1>0, <1>5, TailIs
  <2>2. QED
    BY <1>1, <2>1 DEF MapsInv
<1>6. CASE queue' = queue
  BY <1>1, <1>6 DEF MapsInv
<1>7. CASE \E o \in {[op |-> "zero"], [op |-> "out", b |-> b],
                    [op |-> "backward", b |-> b, w |-> issued + 1]} : queue' = Append(queue, o)
  <2>1. PICK o \in {[op |-> "zero"], [op |-> "out", b |-> b],
                    [op |-> "backward", b |-> b, w |-> issued + 1]} : queue' = Append(queue, o)
    BY <1>7
  <2>2. o.op # "forward"
    OBVIOUS
  <2>3. \A x \in DOMAIN queue' : (x \in DOMAIN queue /\ queue'[x] = queue[x]) \/ queue'[x] = o
    BY <1>0, <2>1
  <2>4. QED
    BY <1>2, <2>2, <2>3
<1>8. QED
  BY QueueStep, <1>3, <1>4, <1>5, <1>6, <1>7

PoolInv == TypeInv /\ StagingOwned /\ MapsInv

\* The three hold from the start and in every state.
LEMMA PoolStart == Init => PoolInv
<1> SUFFICES ASSUME Init PROVE PoolInv
  OBVIOUS
<1>1. call \in Calls /\ call.batch \in Nat \ {0} /\ call.n_slots \in Nat /\ Len(FwdWaves[call]) \in Nat
  BY CallIs DEF Init
<1>2. HostInv
  BY <1>1 DEF Init, HostInv, Control, Waves
<1>3. SlotInv
  <2>1. <<>> \in Seq(Chunk \X Tensor) /\ DOMAIN <<>> = {}
    OBVIOUS
  <2>2. todo = <<>> /\ slot_of = [k \in Chunk |-> -1] /\ pc = "zero" /\ copied = 0
    BY DEF Init
  <2>3. -1 \in -1 .. call.n_slots - 1
    BY <1>1
  <2>4. slot_of \in [Chunk -> -1 .. call.n_slots - 1]
    BY <2>2, <2>3
  <2>5. QED
    BY <2>1, <2>2, <2>4 DEF SlotInv
<1>4. DeviceInv
  BY DEF Init, DeviceInv, Cells, Zeros
<1>5. queue = <<>> /\ DOMAIN <<>> = {}
  BY DEF Init
<1>6. QED
  BY <1>2, <1>3, <1>4, <1>5 DEF PoolInv, TypeInv, StagingOwned, MapsInv

LEMMA PoolStays == PoolInv /\ [Next]_vars => PoolInv'
  BY HostStays, SlotsStay, DeviceStays, StagingStays, MapsStay DEF PoolInv, TypeInv

LEMMA PoolHolds == Spec => []PoolInv
  BY PoolStart, PoolStays, PTL DEF Spec

\* Type correctness: the host keeps to its waves and no two chunks share a slot
\* (ChunkPool.load).
THEOREM TypeCorrect == Spec => []TypeOK
<1>1. ASSUME PoolInv PROVE TypeOK
  <2>1. /\ Len(Waves) \in Nat /\ Len(BwdWaves[call]) \in Nat
    BY <1>1, CallIs DEF PoolInv, TypeInv, HostInv, Waves
  <2>2. issued \in 0 .. Len(IF pc = "backward" THEN BwdWaves[call] ELSE Waves)
    BY <1>1, <2>1 DEF PoolInv, TypeInv, HostInv
  <2>3. QED
    BY <1>1, <2>2 DEF PoolInv, TypeInv, HostInv, SlotInv, DeviceInv, TypeOK, Control
<1>2. QED
  BY <1>1, PoolHolds, PTL

\* A copy finds in its pinned buffer what the host put there for it: the two buffers of
\* ChunkPool.load are refilled only after the event of the copy before.
THEOREM StagingSafe == Spec => []StagingOwned
<1>1. PoolInv => StagingOwned
  BY DEF PoolInv
<1>2. QED
  BY <1>1, PoolHolds, PTL

\* The assertions of ChunkPool.load and of its block map never fire: waves are planned so
\* that their chunks fit, and a kernel refers to chunks that have a slot.
THEOREM AssertsHold == Spec => []NeverAsserts
<1>1. ASSUME PoolInv PROVE NeverAsserts
  <2>1. call \in Calls /\ HostInv
    BY <1>1 DEF PoolInv, TypeInv, HostInv
  <2>2. ASSUME call.host, pc = "wave", issued < Len(Waves)
        PROVE  Cardinality(ChunksOf(Wave)) <= call.n_slots
    <3>1. issued + 1 \in DOMAIN FwdWaves[call]
      BY <2>1, <2>2, CallIs DEF HostInv, Waves
    <3>2. QED
      BY <2>1, <2>2, <3>1, WaveChunks DEF Wave, Waves
  <2>3. ASSUME NEW x \in DOMAIN queue, call.host, queue[x].op = "forward",
               NEW y \in WaveRows(Waves[queue[x].w])
        PROVE  queue[x].slot_of[ChunkAt(N, Tok(Waves[queue[x].w], y))] # -1
    <3> DEFINE wave == Waves[queue[x].w]
               k == ChunkAt(N, Tok(wave, y))
    <3>1. queue[x].w \in DOMAIN FwdWaves[call] /\ \A j \in ChunksOf(wave) : queue[x].slot_of[j] # -1
      BY <1>1, <2>3 DEF PoolInv, MapsInv, Waves
    <3>2. wave \in Seq(WaveTask)
      BY <2>1, <3>1, WavesAre DEF WavesOf, Waves
    <3> HIDE DEF wave
    <3>3. PICK i \in DOMAIN wave : y \in {i} \X (0 .. Len(wave[i].rows) - 1)
      BY <2>3 DEF WaveRows, wave
    <3>4. y[1] = i /\ y[2] \in RowsIn(wave[i]) /\ wave[i] \in WaveTask
      BY <3>2, <3>3 DEF RowsIn
    <3>5. ChunkAt(N, wave[i].rows[y[2] + 1]) \in wave[i].chunks
      BY <3>4, EntryIs
    <3>6. k \in ChunksOf(wave)
      BY <3>3, <3>4, <3>5 DEF ChunksOf, Tok
    <3>7. QED
      BY <3>1, <3>6 DEF wave
  <2>4. QED
    BY <2>2, <2>3 DEF NeverAsserts
<1>2. QED
  BY <1>1, PoolHolds, PTL

-----------------------------------------------------------------------------
(* The work on the stream, and what has come of it.                          *)

\* A position of the stream in the work of a call: batch element, waves merged, and what
\* the pool holds there.
Pos(at, bb, w, p) == [at |-> at, b |-> bb, w |-> w, pool |-> p]

Position(c, s) == s.b \in 0 .. c.batch - 1 /\ s.w \in Nat /\ DOMAIN s.pool = Cells(c)

NextBatch(c, s) ==
    IF s.b + 1 < c.batch THEN Pos("zero", s.b + 1, 0, s.pool)
    ELSE Pos(IF c.kernel = "cuda" /\ BwdWaves[c] # <<>> THEN "backward" ELSE "done", 0, 0, s.pool)

NextBackward(c, s) ==
    IF s.w + 1 < Len(BwdWaves[c]) THEN Pos("backward", s.b, s.w + 1, s.pool)
    ELSE IF s.b + 1 < c.batch THEN Pos("backward", s.b + 1, 0, s.pool)
    ELSE Pos("done", s.b, 0, s.pool)

\* The pool holds every chunk of the wave where the block map says.
Loaded(c, o, p) ==
    c.host => \A k \in ChunksOf(FwdWaves[c][o.w]), x \in Tensor :
                 o.slot_of[k] # -1 /\ (c.batch = 1 => p[<<o.slot_of[k], x>>] = <<0, k>>)

\* The work the stream may find at a position, and where it is afterwards.
Runs(c, s, o, t) ==
    /\ Position(c, s)
    /\ \/ /\ o.op = "zero" /\ c.acc_gpu /\ s.at = "zero" /\ s.w = 0
          /\ t = Pos("wave", s.b, 0, s.pool)
       \/ /\ o.op = "h2d" /\ s.at = "wave"
          /\ t = Pos("wave", s.b, s.w, [s.pool EXCEPT ![o.dst] = SubSeq(o.src, 1, 2)])
       \/ /\ o.op = "forward" /\ s.at = "wave" /\ s.w < Len(FwdWaves[c])
          /\ o.b = s.b /\ o.w = s.w + 1 /\ Loaded(c, o, s.pool)
          /\ t = Pos("packed", s.b, s.w, s.pool)
       \/ /\ o.op = "merge" /\ s.at = "packed" /\ s.w < Len(FwdWaves[c]) /\ o.w = s.w + 1
          /\ t = IF c.acc_gpu THEN Pos("wave", s.b, s.w + 1, s.pool) ELSE Pos("fold", s.b, s.w, s.pool)
       \/ /\ o.op = "out" /\ c.acc_gpu /\ s.at = "wave" /\ s.w = Len(FwdWaves[c]) /\ o.b = s.b
          /\ t = NextBatch(c, s)
       \/ /\ o.op = "backward" /\ c.kernel = "cuda" /\ s.at = "backward" /\ s.w < Len(BwdWaves[c])
          /\ o.b = s.b /\ o.w = s.w + 1
          /\ t = NextBackward(c, s)

\* The keys a query meets in a wave and in the first waves, and the terms it gets from
\* keys.
Sees(c, u, v)    == c.causal => v <= u
KeysIn(c, w, u)  == {v \in Token : Sees(c, u, v) /\ \E i \in DOMAIN FwdWaves[c][w] :
                                                       <<u, v>> \in FwdWaves[c][w][i].kept}
KeysTo(c, w, u)  == UNION {KeysIn(c, x, u) : x \in 1 .. w}
Terms(bb, u, K)  == {<<<<bb, u>>, <<bb, v>>, <<bb, v>>>> : v \in K}

\* The pairs a wave of the backward adds, and the first waves, and their products.
PairsIn(c, w) == {u \in Pairs : Sees(c, u[1], u[2]) /\ \E i \in DOMAIN BwdWaves[c][w] :
                                                         u \in BwdWaves[c][w][i].kept}
PairsTo(c, w) == UNION {PairsIn(c, x) : x \in 1 .. w}
Products(P)   == {<<u[1], u[2], {u[1]}>> : u \in P}

\* A call outside the two known defects: with inputs on the host one batch element, and
\* with accumulators on the host a key for every token by the first wave that has it.
Sound(c) ==
    /\ c.host => c.batch = 1
    /\ ~c.acc_gpu => \A w \in DOMAIN FwdWaves[c] : \A u \in Uniq(FwdWaves[c][w]) :
                         KeysTo(c, w, u) # {}

\* What the accumulators, the packed output, the staged result and the gradients are when
\* the stream is at s.
AccAt(s) ==
    s.at \in {"wave", "packed", "fold"} =>
        \A u \in Token : acc[u] = SetToBag(Terms(s.b, u, KeysTo(call, s.w, u)))

PackAt(s) ==
    s.at = "packed" =>
        LET wave == FwdWaves[call][s.w + 1]
        IN  \A x \in WaveRows(wave) :
                pack[x] = Terms(s.b, Tok(wave, x),
                                {v \in Token : Sees(call, Tok(wave, x), v)
                                               /\ <<Tok(wave, x), v>> \in wave[x[1]].kept})

PartAt(s) ==
    s.at = "fold" =>
        \A u \in Token : part[u] = SetToBag(Terms(s.b, u, KeysIn(call, s.w + 1, u)))

BackwardDone(s, x) ==
    IF call.kernel = "cuda" /\ (s.at = "done" \/ (s.at = "backward" /\ x < s.b))
    THEN Len(BwdWaves[call])
    ELSE IF s.at = "backward" /\ x = s.b THEN s.w ELSE 0

GradAt(s) ==
    \A x \in 0 .. call.batch - 1 : grad[x] = SetToBag(Products(PairsTo(call, BackwardDone(s, x))))

\* Every resident chunk is in its slot once what is issued has run, up to the copies that
\* are still to be issued.
Resides(p) ==
    call.host /\ call.batch = 1 =>
        \A k \in Chunk, x \in Tensor :
            slot_of[k] # -1 /\ <<k, x>> \notin Range(todo) => p[<<slot_of[k], x>>] = <<0, k>>

HostPos(p) == Pos(IF pc = "load" THEN "wave" ELSE pc, b, issued, p)

\* Host accumulators are touched only while the stream is idle.
QuietInv == ~call.acc_gpu /\ pc \in {"zero", "wave"} => queue = <<>>

-----------------------------------------------------------------------------
\* What is issued leads the stream from one position to another.
Linked(c, q, s, t) ==
    \E at : /\ at[1] = s /\ at[Len(q) + 1] = t
            /\ \A i \in 1 .. Len(q) : Runs(c, at[i], q[i], at[i + 1])

LEMMA Idle ==
    ASSUME NEW c, NEW s, NEW t
    PROVE  Linked(c, <<>>, s, t) <=> s = t
<1>1. Len(<<>>) = 0
  OBVIOUS
<1>2. ASSUME s = t PROVE Linked(c, <<>>, s, t)
  <2> DEFINE at == [i \in 1 .. 1 |-> s]
  <2>1. at[1] = s /\ at[Len(<<>>) + 1] = t
    BY <1>1, <1>2
  <2>2. 1 .. Len(<<>>) = {}
    BY <1>1
  <2> HIDE DEF at
  <2>3. QED
    BY <2>1, <2>2 DEF Linked
<1>3. QED
  BY <1>1, <1>2 DEF Linked

LEMMA Issued ==
    ASSUME NEW c, NEW X, NEW q \in Seq(X), NEW o \in X, NEW s, NEW t, NEW u,
           Linked(c, q, s, t), Runs(c, t, o, u)
    PROVE  Linked(c, Append(q, o), s, u)
<1>1. PICK at : /\ at[1] = s /\ at[Len(q) + 1] = t
                /\ \A i \in 1 .. Len(q) : Runs(c, at[i], q[i], at[i + 1])
  BY DEF Linked
<1> DEFINE n  == Len(q)
           to == [i \in 1 .. n + 2 |-> IF i = n + 2 THEN u ELSE at[i]]
<1>2. n \in Nat /\ Len(Append(q, o)) = n + 1 /\ Append(q, o)[n + 1] = o
      /\ \A i \in 1 .. n : Append(q, o)[i] = q[i]
  OBVIOUS
<1> HIDE DEF n
<1>3. to[1] = s /\ to[n + 2] = u /\ \A i \in 1 .. n + 1 : to[i] = at[i]
  BY <1>1, <1>2
<1> HIDE DEF to
<1>4. ASSUME NEW i \in 1 .. n + 1 PROVE Runs(c, to[i], Append(q, o)[i], to[i + 1])
  <2>1. CASE i = n + 1
    <3>1. to[i] = t /\ to[i + 1] = u /\ Append(q, o)[i] = o
      <4>1. to[n + 1] = at[n + 1]
        BY <1>2, <1>3
      <4>2. i + 1 = n + 2
        BY <2>1, <1>2
      <4>3. QED
        BY <4>1, <4>2, <2>1, <1>1, <1>2, <1>3 DEF n
    <3>2. QED
      BY <3>1
  <2>2. CASE i # n + 1
    <3>1. i \in 1 .. n /\ i \in 1 .. n + 1 /\ i + 1 \in 1 .. n + 1
      BY <1>2, <2>2
    <3>2. Runs(c, at[i], q[i], at[i + 1])
      BY <3>1, <1>1 DEF n
    <3>3. to[i] = at[i] /\ to[i + 1] = at[i + 1] /\ Append(q, o)[i] = q[i]
      BY <3>1, <1>2, <1>3
    <3>4. QED
      BY <3>2, <3>3
  <2>3. QED
    BY <2>1, <2>2
<1>5. to[Len(Append(q, o)) + 1] = u /\ 1 .. Len(Append(q, o)) = 1 .. n + 1
  BY <1>2, <1>3
<1>6. QED
  BY <1>3, <1>4, <1>5 DEF Linked

LEMMA Executed ==
    ASSUME NEW c, NEW X, NEW q \in Seq(X), q # <<>>, NEW s, NEW t, Linked(c, q, s, t)
    PROVE  \E u : Runs(c, s, Head(q), u) /\ Linked(c, Tail(q), u, t)
<1>1. PICK at : /\ at[1] = s /\ at[Len(q) + 1] = t
                /\ \A i \in 1 .. Len(q) : Runs(c, at[i], q[i], at[i + 1])
  BY DEF Linked
<1> DEFINE n  == Len(q)
           to == [i \in 1 .. n |-> at[i + 1]]
<1>2. n \in Nat \ {0} /\ Head(q) = q[1] /\ Len(Tail(q)) = n - 1
      /\ \A i \in 1 .. n - 1 : Tail(q)[i] = q[i + 1]
  OBVIOUS
<1>3. Runs(c, s, Head(q), at[2])
  <2>1. 1 \in 1 .. n /\ 1 + 1 = 2
    BY <1>2
  <2>2. QED
    BY <1>1, <1>2, <2>1
<1>4. at[n + 1] = t /\ \A i \in 1 .. n : Runs(c, at[i], q[i], at[i + 1])
  BY <1>1
<1> HIDE DEF n
<1>5. to[1] = at[2] /\ to[n] = t /\ \A i \in 1 .. n : to[i] = at[i + 1]
  BY <1>2, <1>4
<1> HIDE DEF to
<1>6. ASSUME NEW i \in 1 .. n - 1 PROVE Runs(c, to[i], Tail(q)[i], to[i + 1])
  <2>1. i \in 1 .. n /\ i + 1 \in 1 .. n
    BY <1>2
  <2>2. Runs(c, at[i + 1], q[i + 1], at[(i + 1) + 1])
    BY <2>1, <1>4
  <2>3. to[i] = at[i + 1] /\ to[i + 1] = at[(i + 1) + 1] /\ Tail(q)[i] = q[i + 1]
    BY <2>1, <1>2, <1>5
  <2>4. QED
    BY <2>2, <2>3
<1>7. Len(Tail(q)) + 1 = n /\ 1 .. Len(Tail(q)) = 1 .. n - 1
  BY <1>2
<1>8. Linked(c, Tail(q), at[2], t)
  BY <1>5, <1>6, <1>7 DEF Linked
<1>9. QED
  BY <1>3, <1>8

-----------------------------------------------------------------------------
(* Rows of a wave and where the kernels find them.                           *)

\* A row of a wave is a row of one of its subproblems.
LEMMA RowIs ==
    ASSUME NEW wave \in Seq(WaveTask)
    PROVE  /\ \A x \in WaveRows(wave) :
                 /\ x[1] \in DOMAIN wave /\ wave[x[1]] \in WaveTask
                 /\ x[2] \in RowsIn(wave[x[1]]) /\ x[2] \in Nat
                 /\ x = <<x[1], x[2]>>
                 /\ Tok(wave, x) = wave[x[1]].rows[x[2] + 1]
                 /\ Tok(wave, x) \in Token
           /\ \A i \in DOMAIN wave : \A r \in RowsIn(wave[i]) :
                 <<i, r>> \in WaveRows(wave) /\ Tok(wave, <<i, r>>) = wave[i].rows[r + 1]
<1>1. ASSUME NEW x \in WaveRows(wave)
      PROVE  /\ x[1] \in DOMAIN wave /\ wave[x[1]] \in WaveTask
             /\ x[2] \in RowsIn(wave[x[1]]) /\ x[2] \in Nat
             /\ x = <<x[1], x[2]>>
             /\ Tok(wave, x) = wave[x[1]].rows[x[2] + 1]
             /\ Tok(wave, x) \in Token
  <2>1. PICK i \in DOMAIN wave : x \in {i} \X (0 .. Len(wave[i].rows) - 1)
    BY DEF WaveRows
  <2>2. x[1] = i /\ x[2] \in RowsIn(wave[i]) /\ wave[i] \in WaveTask /\ x = <<x[1], x[2]>>
    BY <2>1 DEF RowsIn
  <2>3. wave[i].rows[x[2] + 1] \in Token /\ Len(wave[i].rows) \in Nat
    BY <2>2, EntryIs
  <2>4. x[2] \in Nat
    BY <2>2, <2>3 DEF RowsIn
  <2>5. QED
    BY <2>1, <2>2, <2>3, <2>4 DEF Tok
<1>2. ASSUME NEW i \in DOMAIN wave, NEW r \in RowsIn(wave[i])
      PROVE  <<i, r>> \in WaveRows(wave) /\ Tok(wave, <<i, r>>) = wave[i].rows[r + 1]
  BY DEF WaveRows, RowsIn, Tok
<1>3. QED
  BY <1>1, <1>2

\* The rows before a subproblem.
LEMMA RowsBeforeIs ==
    ASSUME NEW wave \in Seq(WaveTask)
    PROVE  /\ \A i \in 0 .. Len(wave) : RowsBefore(wave, i) \in Nat
           /\ \A i \in 1 .. Len(wave) :
                 RowsBefore(wave, i) = RowsBefore(wave, i - 1) + Len(wave[i].rows)
           /\ \A i \in DOMAIN wave : RowsBefore(wave, i - 1) \in Nat /\ Len(wave[i].rows) \in Nat
<1> DEFINE rows(i) == Len(wave[i].rows)
           n == Len(wave)
<1>1. n \in Nat /\ DOMAIN wave = 1 .. n /\ \A i \in 1 .. n : rows(i) \in Nat
  <2>1. n \in Nat /\ DOMAIN wave = 1 .. n /\ \A i \in 1 .. n : wave[i] \in WaveTask
    OBVIOUS
  <2>2. QED
    BY <2>1, EntryIs
<1> HIDE DEF rows, n
<1> DEFINE Sums(k, f) == f = [j \in 0 .. k |-> IF j = 0 THEN 0 ELSE f[j - 1] + rows(j)]
           H == {k \in Nat : \E f : Sums(k, f)}
<1>2. 0 \in H
  <2> DEFINE f == [j \in 0 .. 0 |-> 0]
  <2>1. f = [j \in 0 .. 0 |-> IF j = 0 THEN 0 ELSE f[j - 1] + rows(j)]
    OBVIOUS
  <2> HIDE DEF f
  <2>2. QED
    BY <2>1
<1>3. ASSUME NEW k \in Nat, k \in H PROVE k + 1 \in H
  <2>1. PICK f : Sums(k, f)
    BY <1>3
  <2> DEFINE g == [j \in 0 .. k + 1 |-> IF j = 0 THEN 0 ELSE f[j - 1] + rows(j)]
  <2>2. \A i \in 0 .. k : g[i] = f[i]
    BY <2>1
  <2>3. \A i \in 0 .. k + 1 : i # 0 => i - 1 \in 0 .. k
    OBVIOUS
  <2>4. \A i \in 0 .. k + 1 : g[i] = IF i = 0 THEN 0 ELSE g[i - 1] + rows(i)
    BY <2>2, <2>3
  <2>5. DOMAIN g = 0 .. k + 1 /\ g = [i \in DOMAIN g |-> g[i]]
    OBVIOUS
  <2> HIDE DEF g
  <2>6. Sums(k + 1, g)
    BY <2>4, <2>5
  <2>7. QED
    BY <2>6
<1> HIDE DEF H
<1>4. n \in H
  BY <1>1, <1>2, <1>3, Induction
<1>5. PICK f : Sums(n, f)
  BY <1>4 DEF H
<1> DEFINE total == CHOOSE h : Sums(n, h)
<1>6. Sums(n, total)
  BY <1>5
<1>7. \A i : RowsBefore(wave, i) = total[i]
  BY DEF RowsBefore, rows, n
<1> HIDE DEF total
<1>8. total[0] = 0 /\ \A i \in 1 .. n : total[i] = total[i - 1] + rows(i)
  BY <1>1, <1>6
<1> DEFINE G == {k \in Nat : k <= n => total[k] \in Nat}
<1>9. 0 \in G
  BY <1>8
<1>10. ASSUME NEW k \in Nat, k \in G PROVE k + 1 \in G
  <2> SUFFICES ASSUME k + 1 <= n PROVE total[k + 1] \in Nat
    OBVIOUS
  <2>1. k + 1 \in 1 .. n /\ k <= n /\ (k + 1) - 1 = k
    BY <1>1
  <2>2. total[k + 1] = total[k] + rows(k + 1) /\ total[k] \in Nat /\ rows(k + 1) \in Nat
    BY <2>1, <1>1, <1>8, <1>10
  <2>3. QED
    BY <2>2
<1> HIDE DEF G
<1>11. \A k \in Nat : k \in G
  BY <1>9, <1>10, Induction
<1>12. \A i \in 0 .. n : total[i] \in Nat
  BY <1>1, <1>11 DEF G
<1>13. \A i \in DOMAIN wave : i - 1 \in 0 .. n
  BY <1>1
<1>14. QED
  BY <1>1, <1>7, <1>8, <1>12, <1>13 DEF rows, n

\* Later subproblems have more rows before them.
LEMMA RowsGrow ==
    ASSUME NEW wave \in Seq(WaveTask), NEW i \in DOMAIN wave, NEW j \in DOMAIN wave, i < j
    PROVE  RowsBefore(wave, i) <= RowsBefore(wave, j - 1)
<1> DEFINE n == Len(wave)
           G == {k \in Nat : i + k <= n => RowsBefore(wave, i) <= RowsBefore(wave, i + k)}
<1>1. n \in Nat /\ DOMAIN wave = 1 .. n
  OBVIOUS
<1>2. \A m \in 0 .. n : RowsBefore(wave, m) \in Nat
  BY RowsBeforeIs
<1>3. \A m \in 1 .. n : RowsBefore(wave, m) = RowsBefore(wave, m - 1) + Len(wave[m].rows)
                        /\ Len(wave[m].rows) \in Nat
  BY <1>1, RowsBeforeIs
<1> HIDE DEF n
<1>4. 0 \in G
  BY <1>1, <1>2
<1>5. ASSUME NEW k \in Nat, k \in G PROVE k + 1 \in G
  <2> SUFFICES ASSUME i + (k + 1) <= n PROVE RowsBefore(wave, i) <= RowsBefore(wave, i + (k + 1))
    OBVIOUS
  <2> DEFINE m == i + (k + 1)
  <2>1. m \in 1 .. n /\ m - 1 = i + k /\ i + k <= n /\ i \in 0 .. n /\ m - 1 \in 0 .. n
    BY <1>1
  <2>2. RowsBefore(wave, i) <= RowsBefore(wave, m - 1)
    BY <2>1, <1>5
  <2> HIDE DEF m
  <2>3. RowsBefore(wave, m) = RowsBefore(wave, m - 1) + Len(wave[m].rows) /\ Len(wave[m].rows) \in Nat
        /\ RowsBefore(wave, i) \in Nat /\ RowsBefore(wave, m - 1) \in Nat
    BY <2>1, <1>2, <1>3
  <2>4. RowsBefore(wave, i) <= RowsBefore(wave, m)
    BY <2>2, <2>3
  <2>5. QED
    BY <2>4 DEF m
<1> HIDE DEF G
<1>6. (j - 1) - i \in Nat /\ (j - 1) - i \in G
  <2>1. (j - 1) - i \in Nat
    BY <1>1
  <2>2. QED
    BY <2>1, <1>4, <1>5, Induction
<1>7. i + ((j - 1) - i) = j - 1 /\ j - 1 <= n
  BY <1>1
<1>8. QED
  BY <1>6, <1>7 DEF G

\* No two rows of a wave of the backward share a dpsum.
LEMMA DpsumIs ==
    ASSUME NEW wave \in Seq(WaveTask), NEW x \in WaveRows(wave)
    PROVE  Dpsum(wave, x) = {Tok(wave, x)}
<1> DEFINE at(i) == RowsBefore(wave, i - 1) + Align * (i - 1)
<1>1. \A y \in WaveRows(wave) : DpsWritten(wave, y) = at(y[1]) + y[2] /\ DpsRead(wave, y) = at(y[1]) + y[2]
  BY DEF DpsWritten, DpsRead, bwd_cu
<1>2. \A i \in DOMAIN wave : i \in Nat \ {0} /\ at(i) \in Nat
  <2>1. \A i \in DOMAIN wave : i \in Nat \ {0} /\ i - 1 \in Nat /\ RowsBefore(wave, i - 1) \in Nat
    BY RowsBeforeIs
  <2>2. \A m \in Nat : Align * m \in Nat
    BY DecompositionAssumption
  <2>3. ASSUME NEW i \in DOMAIN wave PROVE at(i) \in Nat
    <3>1. RowsBefore(wave, i - 1) \in Nat /\ Align * (i - 1) \in Nat
      BY <2>1, <2>2
    <3>2. QED
      BY <3>1
  <2>4. QED
    BY <2>1, <2>3
<1>3. ASSUME NEW i \in DOMAIN wave, NEW j \in DOMAIN wave, i < j
      PROVE  at(i) + Len(wave[i].rows) <= at(j)
  <2>1. RowsBefore(wave, i) <= RowsBefore(wave, j - 1)
    BY <1>3, RowsGrow
  <2>2. RowsBefore(wave, i) = RowsBefore(wave, i - 1) + Len(wave[i].rows)
        /\ RowsBefore(wave, i - 1) \in Nat /\ Len(wave[i].rows) \in Nat /\ RowsBefore(wave, j - 1) \in Nat
    BY RowsBeforeIs
  <2>3. Align * (i - 1) \in Nat /\ Align * (j - 1) \in Nat /\ Align * (i - 1) <= Align * (j - 1)
    <3>1. i - 1 \in Nat /\ j - 1 \in Nat /\ i - 1 <= j - 1 /\ Align \in Nat
      BY <1>2, <1>3, DecompositionAssumption
    <3>2. \A p, q \in Nat : p <= q => Align * p \in Nat /\ Align * q \in Nat /\ Align * p <= Align * q
      BY <3>1
    <3>3. QED
      BY <3>1, <3>2
  <2>4. QED
    BY <2>1, <2>2, <2>3
<1> HIDE DEF at
<1>4. ASSUME NEW y \in WaveRows(wave), DpsWritten(wave, y) = DpsRead(wave, x)
      PROVE  y = x
  <2>1. /\ x[1] \in DOMAIN wave /\ x[2] \in RowsIn(wave[x[1]]) /\ x[2] \in Nat /\ x = <<x[1], x[2]>>
        /\ y[1] \in DOMAIN wave /\ y[2] \in RowsIn(wave[y[1]]) /\ y[2] \in Nat /\ y = <<y[1], y[2]>>
    BY RowIs
  <2>2. at(y[1]) + y[2] = at(x[1]) + x[2]
    BY <1>1, <1>4
  <2>3. Len(wave[x[1]].rows) \in Nat /\ x[2] < Len(wave[x[1]].rows)
        /\ Len(wave[y[1]].rows) \in Nat /\ y[2] < Len(wave[y[1]].rows)
    BY <2>1, RowsBeforeIs DEF RowsIn
  <2>4. at(x[1]) \in Nat /\ at(y[1]) \in Nat /\ x[1] \in Nat /\ y[1] \in Nat
    BY <1>2, <2>1
  <2>5. ~ (x[1] < y[1])
    BY <1>3, <2>1, <2>2, <2>3, <2>4
  <2>6. ~ (y[1] < x[1])
    BY <1>3, <2>1, <2>2, <2>3, <2>4
  <2>7. x[1] = y[1]
    BY <2>4, <2>5, <2>6
  <2>8. x[2] = y[2]
    BY <2>1, <2>2, <2>4, <2>7
  <2>9. QED
    BY <2>1, <2>7, <2>8
<1>5. DpsWritten(wave, x) = DpsRead(wave, x)
  BY <1>1
<1>6. {y \in WaveRows(wave) : DpsWritten(wave, y) = DpsRead(wave, x)} = {x}
  BY <1>4, <1>5
<1>7. QED
  BY <1>6 DEF Dpsum

\* A chunk starts at a number.
LEMMA StartType == \A j \in Int : ChunkStart(N, j) \in Int
<1> DEFINE q == (N \div Align) \div C
           x == (N \div Align) % C
<1>1. N \div Align \in Nat
  BY DecompositionAssumption
<1>2. q \in Nat /\ x \in Nat
  BY <1>1, DecompositionAssumption
<1>3. \A j \in Int : ChunkStart(N, j) = Align * (j * q + (IF j < x THEN j ELSE x))
  BY DEF ChunkStart
<1> HIDE DEF q, x
<1>4. \A j \in Int : j * q \in Int
  BY <1>2
<1>5. \A j \in Int : j * q + (IF j < x THEN j ELSE x) \in Int
  BY <1>2, <1>4
<1>6. \A m \in Int : Align * m \in Int
  BY DecompositionAssumption
<1>7. QED
  BY <1>3, <1>5, <1>6

\* A slot holds the largest chunk.
LEMMA SlotLen ==
    ASSUME NEW k \in Chunk, ChunkSize(k) > 0
    PROVE  slot_len \in Nat /\ ChunkSize(k) <= slot_len
<1> DEFINE sizes == {ChunkSize(j) : j \in Chunk}
           T     == {x \in sizes : x > 0}
<1>1. \A j \in Chunk : ChunkSize(j) \in Int
  <2>1. \A j \in Int : ChunkStart(N, j) \in Int
    BY StartType
  <2>2. \A j \in Chunk : j \in Int /\ j + 1 \in Int /\ N \in Int
    BY DecompositionAssumption DEF Chunk
  <2>3. QED
    BY <2>1, <2>2 DEF ChunkEnd, ChunkSize
<1>2. IsFiniteSet(sizes)
  <2>1. IsFiniteSet(Chunk)
    BY FS_Interval, DecompositionAssumption DEF Chunk
  <2> DEFINE f == [j \in Chunk |-> ChunkSize(j)]
  <2>2. f \in Surjection(Chunk, sizes)
    BY DEF Surjection
  <2> HIDE DEF f, sizes
  <2>3. QED
    BY <2>1, <2>2, FS_Surjection
<1>3. sizes \subseteq Int /\ T \subseteq sizes /\ T \subseteq Nat /\ ChunkSize(k) \in T
  BY <1>1
<1>4. \A x \in sizes : x \in T \/ x <= 0
  BY <1>3
<1> HIDE DEF sizes, T
<1>5. PICK m \in T : \A x \in T : x <= m
  BY <1>2, <1>3, FS_Subset, LargestNatural
<1>6. m \in sizes /\ \A x \in sizes : m >= x
  BY <1>3, <1>4, <1>5
<1>7. Max(sizes) \in sizes /\ \A x \in sizes : Max(sizes) >= x
  BY <1>6, Zenon DEF Max
<1> DEFINE l == Max(sizes)
<1>8. l \in Nat \ {0} /\ ChunkSize(k) <= l
  <2>1. l \in Int /\ ChunkSize(k) \in Int /\ l >= ChunkSize(k)
    BY <1>3, <1>7
  <2> HIDE DEF l
  <2>2. QED
    BY <2>1
<1>9. slot_len = Align * ((l + Align - 1) \div Align)
  BY DEF slot_len, CeilTo, sizes
<1> HIDE DEF l
<1> DEFINE u == l + Align - 1
<1>10. u \in Nat /\ l \in Nat /\ u = l + Align - 1
  BY <1>8, DecompositionAssumption
<1>11. slot_len = Align * (u \div Align)
  BY <1>9
<1> HIDE DEF u
<1>12. /\ Align \in Nat \ {0} /\ u % Align \in 0 .. Align - 1
       /\ u = Align * (u \div Align) + (u % Align) /\ Align * (u \div Align) \in Nat
  BY <1>10, BlockOf
<1>13. slot_len \in Nat /\ l <= slot_len
  BY <1>10, <1>11, <1>12
<1>14. QED
  BY <1>1, <1>8, <1>13

\* A pool row is a slot and a place in it.
LEMMA InSlot ==
    ASSUME NEW s \in Nat, NEW n \in Nat, NEW r \in 0 .. n - 1
    PROVE  (s * n + r) \div n = s /\ (s * n + r) % n = r
<1>1. n \in Nat \ {0} /\ r \in Nat /\ r < n
  OBVIOUS
<1> DEFINE x == s * n + r
           q == x \div n
           m == x % n
<1>2. s * n \in Nat
  OBVIOUS
<1>3. x \in Nat
  BY <1>1, <1>2
<1>4. q \in Nat /\ m \in 0 .. n - 1 /\ x = n * q + m
  BY <1>1, <1>3
<1>5. s * n = n * s
  OBVIOUS
<1> HIDE DEF q, m
<1>6. n * s + r = n * q + m
  BY <1>4, <1>5
<1>7. q = s
  <2>1. ASSUME q < s PROVE FALSE
    <3>1. n * s >= n * (q + 1) /\ n * (q + 1) = n * q + n
      BY <2>1, <1>1, <1>4
    <3>2. n * s \in Nat /\ n * q \in Nat
      BY <1>1, <1>4
    <3>3. QED
      BY <3>1, <3>2, <1>1, <1>4, <1>6
  <2>2. ASSUME s < q PROVE FALSE
    <3>1. n * q >= n * (s + 1) /\ n * (s + 1) = n * s + n
      BY <2>2, <1>1, <1>4
    <3>2. n * s \in Nat /\ n * q \in Nat
      BY <1>1, <1>4
    <3>3. QED
      BY <3>1, <3>2, <1>1, <1>4, <1>6
  <2>3. QED
    BY <2>1, <2>2, <1>4
<1>8. m = r
  <2>1. n * s \in Nat
    BY <1>1
  <2>2. QED
    BY <2>1, <1>1, <1>4, <1>6, <1>7
<1>9. QED
  BY <1>7, <1>8 DEF q, m

\* What a kernel reads of a row is that row of the input: through the gather, the inputs
\* themselves or the pool, wherever the block map finds the chunk of the row.
LEMMA OperandIs ==
    ASSUME call \in Calls, NEW op, NEW x, NEW t \in Tensor,
           op.w \in DOMAIN Waves, x \in WaveRows(Waves[op.w]),
           call.host => \A k \in ChunksOf(Waves[op.w]) :
                           /\ op.slot_of[k] \in Nat
                           /\ pool[<<op.slot_of[k], t>>] = <<op.b, k>>
    PROVE  Operand(op, x, t) = <<op.b, Tok(Waves[op.w], x)>>
<1> DEFINE wave == Waves[op.w]
           i == x[1]
           g == Tok(wave, x)
           base == Align * (x[2] \div Align)
           off == x[2] % Align
           g0 == seg_base(wave, x)
<1>1. wave \in Seq(WaveTask)
  BY WavesAre DEF WavesOf, Waves
<1> HIDE DEF wave
<1>2. /\ i \in DOMAIN wave /\ wave[i] \in WaveTask /\ x[2] \in RowsIn(wave[i]) /\ x[2] \in Nat
      /\ g = wave[i].rows[x[2] + 1] /\ g \in Token
  BY <1>1, RowIs DEF wave
<1>3. /\ base \in RowsIn(wave[i]) /\ wave[i].rows[base + 1] % Align = 0
      /\ wave[i].rows[x[2] + 1] = wave[i].rows[base + 1] + off
      /\ wave[i].rows[base + 1] \in Token
      /\ ChunkAt(N, g) \in wave[i].chunks
  BY <1>2, EntryIs
<1>4. g0 = wave[i].rows[base + 1]
  BY DEF seg_base, Tok
<1> HIDE DEF g, g0, base, off
<1>5. g \in Token /\ g0 \in Token /\ g = g0 + off /\ g0 % Align = 0
  BY <1>2, <1>3, <1>4
<1>6. off \in 0 .. Align - 1 /\ Align \in Nat \ {0}
  BY <1>2, BlockOf DEF off
<1>7. ChunkAt(N, g0) = ChunkAt(N, g)
  <2> DEFINE q == g0 \div Align
  <2>1. q \in Nat /\ g0 = Align * q + (g0 % Align) /\ Align * q \in Nat
    BY <1>5, BlockOf DEF Token
  <2> HIDE DEF q
  <2>2. g0 = Align * q + 0 /\ g = Align * q + off
    BY <1>5, <1>6, <2>1
  <2>3. 0 \in 0 .. Align - 1 /\ N \in Nat /\ Align * q + 0 < N /\ Align * q + off < N
    BY <1>5, <1>6, <2>2, DecompositionAssumption DEF Token
  <2>4. ChunkAt(N, Align * q + 0) = ChunkAt(N, Align * q + off)
    BY <1>6, <2>1, <2>3, SameChunk
  <2>5. QED
    BY <2>2, <2>4
<1>8. ASSUME NEW r \in Int
      PROVE  SequenceOffset(call, wave, i) + block_base_for(call, wave, i, r) + off = r + off
  <2>1. CASE Uniform(call)
    BY <2>1, <1>6 DEF SequenceOffset, block_base_for
  <2>2. CASE ~Uniform(call)
    <3>1. cu(call, wave, i) \in Int
      BY <1>1, <1>2, <2>2, RowsBeforeIs DEF cu
    <3>2. SequenceOffset(call, wave, i) = cu(call, wave, i)
          /\ block_base_for(call, wave, i, r) = r - cu(call, wave, i)
      BY <2>2 DEF SequenceOffset, block_base_for
    <3> DEFINE z == cu(call, wave, i)
    <3> HIDE DEF z
    <3>3. z \in Int /\ SequenceOffset(call, wave, i) = z /\ block_base_for(call, wave, i, r) = r - z
      BY <3>1, <3>2 DEF z
    <3>4. z + (r - z) + off = r + off
      BY <1>6, <3>3
    <3>5. QED
      BY <3>3, <3>4
  <2>3. QED
    BY <2>1, <2>2
<1> DEFINE k == ChunkAt(N, g)
           place == g - ChunkStart(N, k)
           row(u) == IF call.host THEN rows_of_global(op.slot_of, u) ELSE u
<1>9. k \in Chunk /\ ChunkStart(N, k) <= g /\ g < ChunkEnd(N, k) /\ ChunkStart(N, k) \in Int
      /\ ChunkEnd(N, k) \in Int
  <2>1. g \in 0 .. N - 1 /\ N \in Nat
    BY <1>5, DecompositionAssumption DEF Token
  <2>2. k \in Chunk /\ ChunkStart(N, k) <= g /\ g < ChunkEnd(N, k)
    BY <2>1, ChunkAtType
  <2>3. \A j \in Int : ChunkStart(N, j) \in Int
    BY StartType
  <2>4. k \in Int /\ k + 1 \in Int
    BY <2>2, DecompositionAssumption DEF Chunk
  <2> HIDE DEF k
  <2>5. QED
    BY <2>1, <2>2, <2>3, <2>4 DEF ChunkEnd
<1> HIDE DEF k, place
<1>10. place \in Nat /\ place < ChunkSize(k) /\ ChunkSize(k) \in Nat /\ ChunkStart(N, k) + place = g
       /\ place = g - ChunkStart(N, k)
  <2>1. g \in Int
    BY <1>5 DEF Token
  <2>2. QED
    BY <2>1, <1>9 DEF place, ChunkSize
<1>11. slot_len \in Nat /\ ChunkSize(k) <= slot_len
  BY <1>9, <1>10, SlotLen
<1>12. k \in ChunksOf(wave)
  BY <1>2, <1>3 DEF ChunksOf, k
<1>13. CASE call.host
  <2> DEFINE s == op.slot_of[k]
             r == s * slot_len + place
  <2>1. s \in Nat /\ pool[<<s, t>>] = <<op.b, k>>
    BY <1>12, <1>13 DEF wave
  <2> HIDE DEF s
  <2>2. rows_of_global(op.slot_of, g) = r
    BY <1>10 DEF rows_of_global, k, s
  <2>3. rows_of_global(op.slot_of, g0) + off = r
    <3>1. rows_of_global(op.slot_of, g0) = s * slot_len + (g0 - ChunkStart(N, k))
      BY <1>7 DEF rows_of_global, k, s
    <3>2. s * slot_len \in Nat
      BY <1>11, <2>1
    <3> DEFINE y == s * slot_len
    <3> HIDE DEF y
    <3>3. y + (g0 - ChunkStart(N, k)) + off = y + place
      <4>1. y \in Nat /\ g0 \in Int /\ g \in Int /\ off \in Int
        BY <1>5, <1>6, <3>2 DEF y, Token
      <4>2. QED
        BY <4>1, <1>5, <1>9, <1>10
    <3>4. QED
      BY <3>1, <3>3 DEF y
  <2>4. r \in Nat /\ r \div slot_len = s /\ r % slot_len = place
    <3>1. place \in 0 .. slot_len - 1
      BY <1>10, <1>11
    <3>2. s * slot_len \in Nat
      BY <1>11, <2>1
    <3>3. (s * slot_len + place) \div slot_len = s /\ (s * slot_len + place) % slot_len = place
      BY <3>1, <1>11, <2>1, InSlot, Zenon
    <3>4. s * slot_len + place \in Nat
      BY <3>2, <1>10
    <3>5. QED
      BY <3>3, <3>4
  <2>5. rows_of_global(op.slot_of, g0) \in Int
    <3>1. rows_of_global(op.slot_of, g0) = s * slot_len + (g0 - ChunkStart(N, k))
      BY <1>7 DEF rows_of_global, k, s
    <3>2. s * slot_len \in Nat /\ g0 \in Int
      BY <1>5, <1>11, <2>1 DEF Token
    <3>3. QED
      BY <3>1, <3>2, <1>9
  <2> HIDE DEF r
  <2>6. KernelRow(call, wave, op.slot_of, x) = r
    <3>1. KernelRow(call, wave, op.slot_of, x)
             = SequenceOffset(call, wave, i)
               + block_base_for(call, wave, i, rows_of_global(op.slot_of, g0)) + off
      BY <1>13 DEF KernelRow, g0, off
    <3>2. QED
      BY <3>1, <2>3, <2>5, <1>8
  <2>7. ReadRow(op.b, r, t) = <<op.b, g>>
    <3>1. <<op.b, k>> # <<>> /\ <<op.b, k>>[1] = op.b /\ <<op.b, k>>[2] = k
      OBVIOUS
    <3>2. PoolRow(r, t) = <<op.b, ChunkStart(N, k) + place>>
      BY <2>1, <2>4, <3>1, <1>10 DEF PoolRow
    <3>3. QED
      BY <3>2, <1>10, <1>13 DEF ReadRow
  <2>8. Operand(op, x, t) = ReadRow(op.b, r, t)
    BY <2>2, <2>6, <1>13 DEF Operand, g, wave
  <2>9. QED
    BY <2>7, <2>8 DEF g, wave
<1>14. CASE ~call.host
  <2>1. KernelRow(call, wave, op.slot_of, x) = g
    <3>1. KernelRow(call, wave, op.slot_of, x)
             = SequenceOffset(call, wave, i) + block_base_for(call, wave, i, g0) + off
      BY <1>14 DEF KernelRow, g0, off
    <3>2. g0 \in Int
      BY <1>5 DEF Token
    <3>3. QED
      BY <3>1, <3>2, <1>5, <1>8
  <2>2. Operand(op, x, t) = ReadRow(op.b, g, t)
    BY <2>1, <1>14 DEF Operand, g, wave
  <2>3. ReadRow(op.b, g, t) = <<op.b, g>>
    BY <1>5, <1>14 DEF ReadRow
  <2>4. QED
    BY <2>2, <2>3 DEF g, wave
<1>15. QED
  BY <1>13, <1>14

-----------------------------------------------------------------------------
(* The sums of a wave.                                                       *)

\* The columns a row attends to are the kept pairs of its token that the mask lets see.
LEMMA AttendedIs ==
    ASSUME NEW c \in Calls, c = call, NEW wave \in Seq(WaveTask), NEW x \in WaveRows(wave)
    PROVE  /\ Attended(wave, x) \subseteq WaveRows(wave)
           /\ {Tok(wave, y) : y \in Attended(wave, x)}
                = {v \in Token : Sees(c, Tok(wave, x), v)
                                 /\ <<Tok(wave, x), v>> \in wave[x[1]].kept}
           /\ \A y, z \in Attended(wave, x) : Tok(wave, y) = Tok(wave, z) => y = z
<1> DEFINE t == wave[x[1]]
<1>1. /\ x[1] \in DOMAIN wave /\ t \in WaveTask /\ x[2] \in RowsIn(t)
      /\ Tok(wave, x) = t.rows[x[2] + 1] /\ Tok(wave, x) \in Token
  BY RowIs
<1>2. \A r, s \in RowsIn(t) : r <= s <=> t.rows[r + 1] <= t.rows[s + 1]
  BY <1>1, EntryIs
<1>3. \A r \in RowsIn(t) : r \in Nat /\ t.rows[r + 1] \in Token
  BY <1>1, EntryIs DEF RowsIn
<1>4. \A p \in t.kept : \E r, s \in RowsIn(t) : p = <<t.rows[r + 1], t.rows[s + 1]>>
  BY <1>1, EntryIs
<1>5. \A r, s \in RowsIn(t) : t.rows[r + 1] = t.rows[s + 1] => r = s
  <2>1. ASSUME NEW r \in RowsIn(t), NEW s \in RowsIn(t), t.rows[r + 1] = t.rows[s + 1] PROVE r = s
    <3>1. r \in Nat /\ s \in Nat /\ t.rows[r + 1] \in Int
      BY <1>3 DEF Token
    <3>2. r <= s /\ s <= r
      BY <3>1, <2>1, <1>2
    <3>3. QED
      BY <3>1, <3>2
  <2>2. QED
    BY <2>1
<1>6. \A y \in Attended(wave, x) :
         /\ y \in WaveRows(wave) /\ y = <<x[1], y[2]>> /\ y[2] \in RowsIn(t)
         /\ Tok(wave, y) = t.rows[y[2] + 1]
         /\ call.causal => y[2] <= x[2]
         /\ <<Tok(wave, x), Tok(wave, y)>> \in t.kept
  BY RowIs DEF Attended
<1> HIDE DEF t
<1>7. ASSUME NEW y \in Attended(wave, x)
      PROVE  Tok(wave, y) \in Token /\ Sees(c, Tok(wave, x), Tok(wave, y))
             /\ <<Tok(wave, x), Tok(wave, y)>> \in t.kept
  <2>1. y[2] \in RowsIn(t) /\ Tok(wave, y) = t.rows[y[2] + 1] /\ (call.causal => y[2] <= x[2])
        /\ <<Tok(wave, x), Tok(wave, y)>> \in t.kept
    BY <1>6
  <2>2. y[2] <= x[2] <=> Tok(wave, y) <= Tok(wave, x)
    BY <2>1, <1>1, <1>2
  <2>3. QED
    BY <2>1, <2>2, <1>3 DEF Sees
<1>8. ASSUME NEW v \in Token, Sees(c, Tok(wave, x), v), <<Tok(wave, x), v>> \in t.kept
      PROVE  \E y \in Attended(wave, x) : Tok(wave, y) = v
  <2>1. PICK r \in RowsIn(t), s \in RowsIn(t) : <<Tok(wave, x), v>> = <<t.rows[r + 1], t.rows[s + 1]>>
    BY <1>4, <1>8
  <2>2. r = x[2] /\ v = t.rows[s + 1]
    BY <2>1, <1>1, <1>5
  <2>3. <<x[1], s>> \in WaveRows(wave) /\ Tok(wave, <<x[1], s>>) = v
    BY <1>1, <2>2, RowIs DEF t
  <2>4. call.causal => s <= x[2]
    BY <1>1, <1>2, <1>8, <2>2 DEF Sees
  <2>5. <<x[1], s>>[1] = x[1] /\ <<x[1], s>>[2] = s
    OBVIOUS
  <2>6. <<x[1], s>> \in Attended(wave, x)
    BY <2>3, <2>4, <2>5, <1>8 DEF Attended, t
  <2>7. QED
    BY <2>3, <2>6
<1>9. {Tok(wave, y) : y \in Attended(wave, x)}
         = {v \in Token : Sees(c, Tok(wave, x), v) /\ <<Tok(wave, x), v>> \in t.kept}
  BY <1>7, <1>8
<1>10. \A y, z \in Attended(wave, x) : Tok(wave, y) = Tok(wave, z) => y = z
  BY <1>5, <1>6
<1>11. QED
  BY <1>6, <1>9, <1>10 DEF t

\* Bags of distinct things.
LEMMA BagsJoin ==
    ASSUME NEW P, NEW Q, P \cap Q = {}
    PROVE  SetToBag(P) (+) SetToBag(Q) = SetToBag(P \cup Q)
  BY DEF SetToBag, (+)

LEMMA BagsEqual ==
    ASSUME NEW P
    PROVE  /\ DOMAIN SetToBag(P) = P
           /\ SetToBag({}) = EmptyBag
           /\ SetToBag(P) = EmptyBag <=> P = {}
  BY DEF SetToBag, EmptyBag

\* Two rows of a subproblem hold two tokens.
LEMMA SameRow ==
    ASSUME NEW wave \in Seq(WaveTask), NEW x \in WaveRows(wave), NEW y \in WaveRows(wave),
           x[1] = y[1], Tok(wave, x) = Tok(wave, y)
    PROVE  x = y
<1> DEFINE t == wave[x[1]]
<1>1. /\ t \in WaveTask /\ x[2] \in RowsIn(t) /\ y[2] \in RowsIn(t) /\ x[2] \in Nat /\ y[2] \in Nat
      /\ t.rows[x[2] + 1] = t.rows[y[2] + 1] /\ t.rows[x[2] + 1] \in Int
      /\ x = <<x[1], x[2]>> /\ y = <<y[1], y[2]>>
  BY RowIs DEF Token
<1> HIDE DEF t
<1>2. x[2] <= y[2] /\ y[2] <= x[2]
  <2>1. t.rows[x[2] + 1] <= t.rows[y[2] + 1] /\ t.rows[y[2] + 1] <= t.rows[x[2] + 1]
    BY <1>1
  <2>2. QED
    BY <1>1, <2>1, EntryIs
<1>3. x[2] = y[2]
  BY <1>1, <1>2
<1>4. QED
  BY <1>1, <1>3

\* Every term of a packed row is merged once: a pair is kept by one subproblem.
LEMMA MergedIs ==
    ASSUME call \in Calls, NEW w \in DOMAIN FwdWaves[call], NEW bb, NEW u \in Token,
           \A x \in WaveRows(FwdWaves[call][w]) :
              pack[x] = Terms(bb, Tok(FwdWaves[call][w], x),
                              {v \in Token : Sees(call, Tok(FwdWaves[call][w], x), v)
                                             /\ <<Tok(FwdWaves[call][w], x), v>>
                                                  \in FwdWaves[call][w][x[1]].kept})
    PROVE  Merged(FwdWaves[call][w], u) = SetToBag(Terms(bb, u, KeysIn(call, w, u)))
<1> DEFINE wave == FwdWaves[call][w]
           seen(i) == {v \in Token : Sees(call, u, v) /\ <<u, v>> \in wave[i].kept}
           Z == UNION {{x} \X pack[x] : x \in Order(wave, u)}
           term(v) == <<<<bb, u>>, <<bb, v>>, <<bb, v>>>>
<1>1. /\ call.itr \in 1 .. Deepest /\ WavesOf(call, FwdWaves[call], call.itr, call.host)
      /\ wave \in Seq(WaveTask)
  BY WavesAre DEF WavesOf
<1>2. \A x \in Order(wave, u) : x \in WaveRows(wave) /\ Tok(wave, x) = u /\ pack[x] = Terms(bb, u, seen(x[1]))
  BY DEF Order
<1>3. \A i \in DOMAIN wave : \A r \in RowsIn(wave[i]) :
         wave[i].rows[r + 1] = u => <<i, r>> \in Order(wave, u) /\ <<i, r>>[1] = i
  BY <1>1, RowIs DEF Order
<1>4. \A x \in WaveRows(wave) : x[1] \in DOMAIN wave
  BY <1>1, RowIs
<1>5. \A i \in DOMAIN wave : wave[i] \in WaveTask
  BY <1>1
<1>6. KeysIn(call, w, u) = {v \in Token : Sees(call, u, v) /\ \E i \in DOMAIN wave : <<u, v>> \in wave[i].kept}
  BY DEF KeysIn
<1> HIDE DEF wave
<1>7. \A v, k : term(v) = term(k) => v = k
  OBVIOUS
<1>8. \A K : Terms(bb, u, K) = {term(v) : v \in K}
  BY DEF Terms
<1> HIDE DEF term
<1>9. \A z \in Z : /\ z = <<z[1], z[2]>> /\ z[1] \in Order(wave, u)
                   /\ \E v \in seen(z[1][1]) : z[2] = term(v)
  <2> SUFFICES ASSUME NEW z \in Z
               PROVE  /\ z = <<z[1], z[2]>> /\ z[1] \in Order(wave, u)
                      /\ \E v \in seen(z[1][1]) : z[2] = term(v)
    OBVIOUS
  <2>1. PICK x \in Order(wave, u) : z \in {x} \X pack[x]
    OBVIOUS
  <2>2. z[1] = x /\ z = <<z[1], z[2]>> /\ z[2] \in pack[x]
    BY <2>1
  <2>3. pack[x] = {term(v) : v \in seen(x[1])}
    BY <1>2, <1>8
  <2> HIDE DEF seen
  <2>4. QED
    BY <2>2, <2>3
<1>10. \A x \in Order(wave, u) : \A v \in seen(x[1]) : <<x, term(v)>> \in Z
  <2> SUFFICES ASSUME NEW x \in Order(wave, u), NEW v \in seen(x[1]) PROVE <<x, term(v)>> \in Z
    OBVIOUS
  <2>1. pack[x] = {term(k) : k \in seen(x[1])}
    BY <1>2, <1>8
  <2>2. term(v) \in pack[x]
    BY <2>1
  <2>3. <<x, term(v)>> \in {x} \X pack[x]
    BY <2>2
  <2>4. QED
    BY <2>3
<1> HIDE DEF Z
<1>11. ASSUME NEW y \in Z, NEW z \in Z, y[2] = z[2] PROVE y = z
  <2>1. PICK v \in seen(y[1][1]) : y[2] = term(v)
    BY <1>9
  <2>2. PICK k \in seen(z[1][1]) : z[2] = term(k)
    BY <1>9
  <2>3. v = k
    BY <2>1, <2>2, <1>7, <1>11
  <2>4. /\ y[1] \in WaveRows(wave) /\ z[1] \in WaveRows(wave)
        /\ Tok(wave, y[1]) = u /\ Tok(wave, z[1]) = u
        /\ y = <<y[1], y[2]>> /\ z = <<z[1], z[2]>>
    BY <1>2, <1>9
  <2>5. y[1][1] \in DOMAIN wave /\ z[1][1] \in DOMAIN wave
    BY <2>4, <1>4
  <2>6. <<u, v>> \in Pairs /\ <<u, v>> \in wave[y[1][1]].kept /\ <<u, v>> \in wave[z[1][1]].kept
    BY <2>3 DEF Pairs
  <2>7. y[1][1] = z[1][1]
    <3> DEFINE waves == FwdWaves[call]
    <3>1. waves[w] = wave /\ w \in DOMAIN waves /\ WavesOf(call, waves, call.itr, call.host)
      BY <1>1 DEF wave
    <3> DEFINE p == <<u, v>>
    <3>2. p \in Pairs
      BY <2>6
    <3> HIDE DEF waves, p
    <3>3. \E m \in DOMAIN waves : \E i \in DOMAIN waves[m] :
             /\ p \in waves[m][i].kept
             /\ \A n \in DOMAIN waves : \A j \in DOMAIN waves[n] :
                   p \in waves[n][j].kept => n = m /\ j = i
      BY <1>1, <3>1, <3>2, OneInWaves, Zenon
    <3>4. p \in wave[y[1][1]].kept /\ p \in wave[z[1][1]].kept
      BY <2>6 DEF p
    <3>5. QED
      BY <2>5, <3>1, <3>3, <3>4
  <2>8. y[1] = z[1]
    BY <1>1, <2>4, <2>7, SameRow
  <2>9. QED
    BY <2>4, <2>8, <1>11
<1>12. {z[2] : z \in Z} = Terms(bb, u, KeysIn(call, w, u))
  <2>1. ASSUME NEW z \in Z PROVE z[2] \in Terms(bb, u, KeysIn(call, w, u))
    <3>1. PICK v \in seen(z[1][1]) : z[2] = term(v)
      BY <1>9
    <3>2. z[1][1] \in DOMAIN wave
      BY <1>2, <1>4, <1>9
    <3>3. v \in KeysIn(call, w, u)
      BY <3>2, <1>6
    <3>4. QED
      BY <3>1, <3>3, <1>8
  <2>2. ASSUME NEW v \in KeysIn(call, w, u) PROVE \E z \in Z : z[2] = term(v)
    <3>1. PICK i \in DOMAIN wave : v \in seen(i)
      BY <1>6
    <3>2. wave[i] \in WaveTask /\ <<u, v>> \in wave[i].kept
      BY <1>5, <3>1
    <3>3. PICK r \in RowsIn(wave[i]), s \in RowsIn(wave[i]) :
             <<u, v>> = <<wave[i].rows[r + 1], wave[i].rows[s + 1]>>
      BY <3>2, EntryIs
    <3>4. <<i, r>> \in Order(wave, u) /\ <<i, r>>[1] = i
      BY <1>3, <3>3
    <3>5. <<(<<i, r>>), term(v)>> \in Z
      BY <1>10, <3>1, <3>4
    <3>6. QED
      BY <3>5
  <2>3. QED
    BY <2>1, <2>2, <1>8
<1>13. ASSUME NEW e \in Terms(bb, u, KeysIn(call, w, u)) PROVE Cardinality({z \in Z : z[2] = e}) = 1
  <2>1. PICK y \in Z : y[2] = e
    BY <1>12
  <2>2. {z \in Z : z[2] = e} = {y}
    BY <2>1, <1>11
  <2>3. QED
    BY <2>2, FS_Singleton
<1>14. Merged(wave, u) = [e \in {z[2] : z \in Z} |-> Cardinality({z \in Z : z[2] = e})]
  BY DEF Merged, BagOf, Z
<1>15. Merged(wave, u) = SetToBag(Terms(bb, u, KeysIn(call, w, u)))
  BY <1>12, <1>13, <1>14 DEF SetToBag
<1>16. QED
  BY <1>15 DEF wave

\* Every kept pair of a wave of the backward is added once, with the dpsum of its query.
LEMMA BackwardIs ==
    ASSUME call \in Calls, NEW w \in DOMAIN BwdWaves[call]
    PROVE  LET wave    == BwdWaves[call][w]
               pairs   == UNION {{x} \X Attended(wave, x) : x \in WaveRows(wave)}
               term(p) == <<Tok(wave, p[1]), Tok(wave, p[2]), Dpsum(wave, p[1])>>
           IN  BagOf(term, pairs) = SetToBag(Products(PairsIn(call, w)))
<1> DEFINE waves   == BwdWaves[call]
           wave    == waves[w]
           pairs   == UNION {{x} \X Attended(wave, x) : x \in WaveRows(wave)}
           term(p) == <<Tok(wave, p[1]), Tok(wave, p[2]), Dpsum(wave, p[1])>>
           I       == Products(PairsIn(call, w))
<1>1. /\ call.bwd_itr \in 1 .. Deepest /\ WavesOf(call, waves, call.bwd_itr, FALSE)
      /\ waves \in Seq(Seq(WaveTask))
  BY WavesAre DEF WavesOf
<1>2. wave \in Seq(WaveTask) /\ w \in DOMAIN waves
  BY <1>1
<1>3. PairsIn(call, w) = {p \in Pairs : Sees(call, p[1], p[2]) /\ \E i \in DOMAIN wave : p \in wave[i].kept}
  BY DEF PairsIn
<1> HIDE DEF waves
<1>4. ASSUME NEW p \in pairs
      PROVE  /\ p = <<p[1], p[2]>> /\ p[1] \in WaveRows(wave) /\ p[2] \in Attended(wave, p[1])
             /\ p[2] \in WaveRows(wave) /\ p[2][1] = p[1][1] /\ p[1][1] \in DOMAIN wave
             /\ <<Tok(wave, p[1]), Tok(wave, p[2])>> \in wave[p[1][1]].kept
             /\ Tok(wave, p[1]) \in Token /\ Tok(wave, p[2]) \in Token
             /\ Sees(call, Tok(wave, p[1]), Tok(wave, p[2]))
             /\ term(p) = <<Tok(wave, p[1]), Tok(wave, p[2]), {Tok(wave, p[1])}>>
  <2>1. PICK x \in WaveRows(wave) : p \in {x} \X Attended(wave, x)
    BY <1>4
  <2>2. p[1] = x /\ p = <<p[1], p[2]>> /\ p[2] \in Attended(wave, x)
    BY <2>1
  <2>3. p[2] \in WaveRows(wave) /\ p[2][1] = x[1]
        /\ <<Tok(wave, x), Tok(wave, p[2])>> \in wave[x[1]].kept
    BY <2>2 DEF Attended
  <2>4. Tok(wave, x) \in Token /\ Tok(wave, p[2]) \in Token /\ x[1] \in DOMAIN wave
    BY <1>2, <2>3, RowIs
  <2>5. {Tok(wave, y) : y \in Attended(wave, x)}
           = {v \in Token : Sees(call, Tok(wave, x), v) /\ <<Tok(wave, x), v>> \in wave[x[1]].kept}
    BY <1>2, AttendedIs
  <2>6. Sees(call, Tok(wave, x), Tok(wave, p[2]))
    BY <2>2, <2>5
  <2>7. Dpsum(wave, x) = {Tok(wave, x)}
    BY <1>2, DpsumIs
  <2>8. QED
    BY <2>2, <2>3, <2>4, <2>6, <2>7
<1>5. ASSUME NEW p \in pairs, NEW q \in pairs, term(p) = term(q) PROVE p = q
  <2> DEFINE u == Tok(wave, p[1])
             v == Tok(wave, p[2])
             e == <<u, v>>
  <2>1. u = Tok(wave, q[1]) /\ v = Tok(wave, q[2])
    BY <1>4, <1>5
  <2>2. /\ p[1] \in WaveRows(wave) /\ q[1] \in WaveRows(wave) /\ p[1][1] \in DOMAIN wave
        /\ p[2] \in WaveRows(wave) /\ q[2] \in WaveRows(wave) /\ q[1][1] \in DOMAIN wave
        /\ p[2][1] = p[1][1] /\ q[2][1] = q[1][1]
        /\ p = <<p[1], p[2]>> /\ q = <<q[1], q[2]>>
    BY <1>4
  <2>3. e \in Pairs /\ e \in wave[p[1][1]].kept /\ e \in wave[q[1][1]].kept
    BY <2>1, <1>4 DEF Pairs
  <2> HIDE DEF u, v, e
  <2>4. \E m \in DOMAIN waves : \E i \in DOMAIN waves[m] :
             /\ e \in waves[m][i].kept
             /\ \A n \in DOMAIN waves : \A j \in DOMAIN waves[n] :
                   e \in waves[n][j].kept => n = m /\ j = i
    BY <1>1, <2>3, OneInWaves, Zenon
  <2>5. p[1][1] = q[1][1]
    BY <1>2, <2>2, <2>3, <2>4
  <2>6. p[1] = q[1] /\ p[2] = q[2]
    BY <1>2, <2>1, <2>2, <2>5, SameRow DEF u, v
  <2>7. QED
    BY <2>2, <2>6
<1>6. ASSUME NEW p \in pairs PROVE term(p) \in I
  <2> DEFINE e == <<Tok(wave, p[1]), Tok(wave, p[2])>>
  <2>1. e \in PairsIn(call, w) /\ term(p) = <<e[1], e[2], {e[1]}>>
    BY <1>3, <1>4 DEF Pairs
  <2>2. QED
    BY <2>1 DEF Products
<1>7. ASSUME NEW e \in PairsIn(call, w) PROVE \E p \in pairs : term(p) = <<e[1], e[2], {e[1]}>>
  <2>1. PICK i \in DOMAIN wave : e \in wave[i].kept
    BY <1>3
  <2>2. e \in Token \X Token /\ Sees(call, e[1], e[2]) /\ wave[i] \in WaveTask
    BY <1>2, <1>3 DEF Pairs
  <2>3. PICK r \in RowsIn(wave[i]), s \in RowsIn(wave[i]) : e = <<wave[i].rows[r + 1], wave[i].rows[s + 1]>>
    BY <2>1, <2>2, EntryIs
  <2> DEFINE x == <<i, r>>
  <2>4. x \in WaveRows(wave) /\ Tok(wave, x) = e[1] /\ x[1] = i
    BY <1>2, <2>3, RowIs
  <2>5. e[2] \in {Tok(wave, y) : y \in Attended(wave, x)}
    <3>1. {Tok(wave, y) : y \in Attended(wave, x)}
           = {v \in Token : Sees(call, Tok(wave, x), v) /\ <<Tok(wave, x), v>> \in wave[x[1]].kept}
      BY <1>2, <2>4, AttendedIs
    <3>2. <<Tok(wave, x), e[2]>> = e
      BY <2>2, <2>4
    <3>3. e[2] \in Token /\ Sees(call, Tok(wave, x), e[2]) /\ <<Tok(wave, x), e[2]>> \in wave[x[1]].kept
      BY <2>1, <2>2, <2>4, <3>2
    <3>4. QED
      BY <3>1, <3>3
  <2>6. PICK y \in Attended(wave, x) : Tok(wave, y) = e[2]
    BY <2>5
  <2>7. <<x, y>> \in pairs
    BY <2>4, <2>6
  <2>8. <<x, y>>[1] = x /\ <<x, y>>[2] = y
    OBVIOUS
  <2> HIDE DEF x
  <2>9. term(<<x, y>>) = <<e[1], e[2], {e[1]}>>
    BY <1>2, <2>4, <2>6, <2>8, DpsumIs
  <2>10. QED
    BY <2>7, <2>9
<1> HIDE DEF pairs, wave
<1>8. I = {<<e[1], e[2], {e[1]}>> : e \in PairsIn(call, w)}
  BY DEF Products
<1>9. {term(p) : p \in pairs} = I
  <2> HIDE DEF term, I
  <2>1. \A e \in I : \E p \in pairs : term(p) = e
    BY <1>7, <1>8
  <2>2. QED
    BY <1>6, <2>1
<1>10. ASSUME NEW e \in I PROVE Cardinality({p \in pairs : term(p) = e}) = 1
  <2> HIDE DEF term, I
  <2>1. PICK q \in pairs : term(q) = e
    BY <1>9, <1>10
  <2>2. {p \in pairs : term(p) = e} = {q}
    BY <2>1, <1>5
  <2>3. QED
    BY <2>2, FS_Singleton
<1>11. BagOf(term, pairs) = [e \in {term(p) : p \in pairs} |-> Cardinality({p \in pairs : term(p) = e})]
  BY DEF BagOf
<1> HIDE DEF term, I
<1>12. BagOf(term, pairs) = SetToBag(I)
  BY <1>9, <1>10, <1>11 DEF SetToBag
<1>13. QED
  BY <1>12 DEF term, I, pairs, wave, waves

\* The keys of the first waves: each wave adds keys of its own, and together they are the
\* keys a query sees.
LEMMA KeysAre ==
    ASSUME NEW c \in Calls, NEW u \in Token
    PROVE  /\ KeysTo(c, 0, u) = {}
           /\ \A w \in Nat : w + 1 \in DOMAIN FwdWaves[c] =>
                 /\ KeysTo(c, w + 1, u) = KeysTo(c, w, u) \cup KeysIn(c, w + 1, u)
                 /\ KeysTo(c, w, u) \cap KeysIn(c, w + 1, u) = {}
           /\ KeysTo(c, Len(FwdWaves[c]), u) = {v \in Token : Sees(c, u, v)}
<1> DEFINE waves == FwdWaves[c]
           n == Len(waves)
           in(w) == KeysIn(c, w, u)
<1>1. /\ c.itr \in 1 .. Deepest /\ WavesOf(c, waves, c.itr, c.host) /\ waves \in Seq(Seq(WaveTask))
  BY WavesAre DEF WavesOf
<1>2. n \in Nat /\ DOMAIN waves = 1 .. n
  BY <1>1
<1>3. \A w : in(w) = {v \in Token : Sees(c, u, v) /\ \E i \in DOMAIN waves[w] : <<u, v>> \in waves[w][i].kept}
  BY DEF KeysIn
<1>4. \A w : KeysTo(c, w, u) = UNION {in(x) : x \in 1 .. w}
  BY DEF KeysTo
<1> HIDE DEF waves, in, n
<1>5. ASSUME NEW v \in Token
      PROVE  \E m \in DOMAIN waves : \E i \in DOMAIN waves[m] :
                /\ <<u, v>> \in waves[m][i].kept
                /\ \A k \in DOMAIN waves : \A j \in DOMAIN waves[k] :
                      <<u, v>> \in waves[k][j].kept => k = m /\ j = i
  <2> DEFINE p == <<u, v>>
  <2>1. p \in Pairs
    BY DEF Pairs
  <2> HIDE DEF p
  <2>2. \E m \in DOMAIN waves : \E i \in DOMAIN waves[m] :
             /\ p \in waves[m][i].kept
             /\ \A k \in DOMAIN waves : \A j \in DOMAIN waves[k] :
                   p \in waves[k][j].kept => k = m /\ j = i
    BY <1>1, <2>1, OneInWaves, Zenon
  <2>3. QED
    BY <2>2 DEF p
<1>6. ASSUME NEW v \in Token, NEW w \in DOMAIN waves, NEW x \in DOMAIN waves, v \in in(w), v \in in(x)
      PROVE  w = x
  BY <1>3, <1>5, <1>6
<1>7. KeysTo(c, 0, u) = {}
  <2>1. 1 .. 0 = {}
    OBVIOUS
  <2>2. QED
    BY <1>4, <2>1
<1>8. ASSUME NEW w \in Nat, w + 1 \in DOMAIN waves
      PROVE  /\ KeysTo(c, w + 1, u) = KeysTo(c, w, u) \cup in(w + 1)
             /\ KeysTo(c, w, u) \cap in(w + 1) = {}
  <2>1. 1 .. w + 1 = (1 .. w) \cup {w + 1} /\ 1 .. w \subseteq DOMAIN waves /\ w + 1 \notin 1 .. w
    BY <1>2, <1>8
  <2>2. KeysTo(c, w + 1, u) = KeysTo(c, w, u) \cup in(w + 1)
    BY <1>4, <2>1
  <2>3. ASSUME NEW v \in KeysTo(c, w, u), v \in in(w + 1) PROVE FALSE
    <3>1. PICK x \in 1 .. w : v \in in(x)
      BY <1>4
    <3>2. v \in Token
      BY <1>3, <3>1
    <3>3. x = w + 1
      BY <1>6, <1>8, <2>1, <2>3, <3>1, <3>2
    <3>4. QED
      BY <2>1, <3>3
  <2>4. QED
    BY <2>2, <2>3
<1>9. KeysTo(c, n, u) = {v \in Token : Sees(c, u, v)}
  <2>1. ASSUME NEW v \in KeysTo(c, n, u) PROVE v \in Token /\ Sees(c, u, v)
    <3>1. PICK x \in 1 .. n : v \in in(x)
      BY <1>4
    <3>2. QED
      BY <3>1, <1>3
  <2>2. ASSUME NEW v \in Token, Sees(c, u, v) PROVE v \in KeysTo(c, n, u)
    <3>1. PICK m \in DOMAIN waves : \E i \in DOMAIN waves[m] : <<u, v>> \in waves[m][i].kept
      BY <1>5
    <3>2. v \in in(m) /\ m \in 1 .. n
      BY <1>2, <1>3, <2>2, <3>1
    <3>3. QED
      BY <1>4, <3>2
  <2>3. QED
    BY <2>1, <2>2
<1>10. QED
  BY <1>7, <1>8, <1>9 DEF in, waves, n

\* The same for the pairs of the waves of the backward.
LEMMA PairsAre ==
    ASSUME NEW c \in Calls
    PROVE  /\ PairsTo(c, 0) = {}
           /\ \A w \in Nat : w + 1 \in DOMAIN BwdWaves[c] =>
                 /\ PairsTo(c, w + 1) = PairsTo(c, w) \cup PairsIn(c, w + 1)
                 /\ PairsTo(c, w) \cap PairsIn(c, w + 1) = {}
           /\ PairsTo(c, Len(BwdWaves[c])) = {p \in Pairs : Sees(c, p[1], p[2])}
<1> DEFINE waves == BwdWaves[c]
           n == Len(waves)
           in(w) == PairsIn(c, w)
<1>1. /\ c.bwd_itr \in 1 .. Deepest /\ WavesOf(c, waves, c.bwd_itr, FALSE) /\ waves \in Seq(Seq(WaveTask))
  BY WavesAre DEF WavesOf
<1>2. n \in Nat /\ DOMAIN waves = 1 .. n
  BY <1>1
<1>3. \A w : in(w) = {p \in Pairs : Sees(c, p[1], p[2]) /\ \E i \in DOMAIN waves[w] : p \in waves[w][i].kept}
  BY DEF PairsIn
<1>4. \A w : PairsTo(c, w) = UNION {in(x) : x \in 1 .. w}
  BY DEF PairsTo
<1> HIDE DEF waves, in, n
<1>5. ASSUME NEW p \in Pairs
      PROVE  \E m \in DOMAIN waves : \E i \in DOMAIN waves[m] :
                /\ p \in waves[m][i].kept
                /\ \A k \in DOMAIN waves : \A j \in DOMAIN waves[k] :
                      p \in waves[k][j].kept => k = m /\ j = i
  BY <1>1, OneInWaves, Zenon
<1>6. ASSUME NEW p \in Pairs, NEW w \in DOMAIN waves, NEW x \in DOMAIN waves, p \in in(w), p \in in(x)
      PROVE  w = x
  BY <1>3, <1>5, <1>6
<1>7. PairsTo(c, 0) = {}
  <2>1. 1 .. 0 = {}
    OBVIOUS
  <2>2. QED
    BY <1>4, <2>1
<1>8. ASSUME NEW w \in Nat, w + 1 \in DOMAIN waves
      PROVE  /\ PairsTo(c, w + 1) = PairsTo(c, w) \cup in(w + 1)
             /\ PairsTo(c, w) \cap in(w + 1) = {}
  <2>1. 1 .. w + 1 = (1 .. w) \cup {w + 1} /\ 1 .. w \subseteq DOMAIN waves /\ w + 1 \notin 1 .. w
    BY <1>2, <1>8
  <2>2. PairsTo(c, w + 1) = PairsTo(c, w) \cup in(w + 1)
    BY <1>4, <2>1
  <2>3. ASSUME NEW p \in PairsTo(c, w), p \in in(w + 1) PROVE FALSE
    <3>1. PICK x \in 1 .. w : p \in in(x)
      BY <1>4
    <3>2. p \in Pairs
      BY <1>3, <3>1
    <3>3. x = w + 1
      BY <1>6, <1>8, <2>1, <2>3, <3>1, <3>2
    <3>4. QED
      BY <2>1, <3>3
  <2>4. QED
    BY <2>2, <2>3
<1>9. PairsTo(c, n) = {p \in Pairs : Sees(c, p[1], p[2])}
  <2>1. ASSUME NEW p \in PairsTo(c, n) PROVE p \in Pairs /\ Sees(c, p[1], p[2])
    <3>1. PICK x \in 1 .. n : p \in in(x)
      BY <1>4
    <3>2. QED
      BY <3>1, <1>3
  <2>2. ASSUME NEW p \in Pairs, Sees(c, p[1], p[2]) PROVE p \in PairsTo(c, n)
    <3>1. PICK m \in DOMAIN waves : \E i \in DOMAIN waves[m] : p \in waves[m][i].kept
      BY <1>5
    <3>2. p \in in(m) /\ m \in 1 .. n
      BY <1>2, <1>3, <2>2, <3>1
    <3>3. QED
      BY <1>4, <3>2
  <2>3. QED
    BY <2>1, <2>2
<1>10. QED
  BY <1>7, <1>8, <1>9 DEF in, waves, n

\* Terms of different keys, and products of different pairs, are added up.
LEMMA SumsJoin ==
    /\ \A bb, u, K, L : K \cap L = {} =>
          SetToBag(Terms(bb, u, K)) (+) SetToBag(Terms(bb, u, L)) = SetToBag(Terms(bb, u, K \cup L))
    /\ \A P, Q : P \subseteq Pairs /\ Q \subseteq Pairs /\ P \cap Q = {} =>
          SetToBag(Products(P)) (+) SetToBag(Products(Q)) = SetToBag(Products(P \cup Q))
    /\ \A bb, u, K : Terms(bb, u, K) = {} <=> K = {}
<1>1. ASSUME NEW bb, NEW u, NEW K, NEW L, K \cap L = {}
      PROVE  SetToBag(Terms(bb, u, K)) (+) SetToBag(Terms(bb, u, L)) = SetToBag(Terms(bb, u, K \cup L))
  <2>1. Terms(bb, u, K) \cup Terms(bb, u, L) = Terms(bb, u, K \cup L)
    BY DEF Terms
  <2>2. Terms(bb, u, K) \cap Terms(bb, u, L) = {}
    BY <1>1 DEF Terms
  <2>3. SetToBag(Terms(bb, u, K)) (+) SetToBag(Terms(bb, u, L))
           = SetToBag(Terms(bb, u, K) \cup Terms(bb, u, L))
    BY <2>2, BagsJoin
  <2>4. QED
    BY <2>1, <2>3
<1>2. ASSUME NEW P, NEW Q, P \subseteq Pairs, Q \subseteq Pairs, P \cap Q = {}
      PROVE  SetToBag(Products(P)) (+) SetToBag(Products(Q)) = SetToBag(Products(P \cup Q))
  <2>1. Products(P) \cup Products(Q) = Products(P \cup Q)
    BY DEF Products
  <2>2. ASSUME NEW e \in Products(P), e \in Products(Q) PROVE FALSE
    <3>1. PICK x \in P : e = <<x[1], x[2], {x[1]}>>
      BY DEF Products
    <3>2. PICK y \in Q : e = <<y[1], y[2], {y[1]}>>
      BY <2>2 DEF Products
    <3>3. x[1] = y[1] /\ x[2] = y[2]
      BY <3>1, <3>2
    <3>4. x = y
      BY <3>3, <1>2 DEF Pairs
    <3>5. QED
      BY <3>4, <1>2
  <2>3. SetToBag(Products(P)) (+) SetToBag(Products(Q)) = SetToBag(Products(P) \cup Products(Q))
    BY <2>2, BagsJoin
  <2>4. QED
    BY <2>1, <2>3
<1>3. \A bb, u, K : Terms(bb, u, K) = {} <=> K = {}
  BY DEF Terms
<1>4. QED
  BY <1>1, <1>2, <1>3

-----------------------------------------------------------------------------
(* The stream at a position of the call.                                     *)

\* The stream is at s, and what is issued takes it to where the host is, with the pool as p.
At(s, p) ==
    /\ Position(call, s)
    /\ DOMAIN p = Cells(call)
    /\ Linked(call, queue, s, HostPos(p))
    /\ s.pool = pool
    /\ Resides(p)
    /\ GradAt(s)
    /\ Sound(call) => AccAt(s) /\ PackAt(s) /\ PartAt(s)

SimInv == \E s, p : At(s, p)

OutInv == Sound(call) => ReturnedExact

LEMMA PosIs ==
    \A at, bb, w, p : /\ Pos(at, bb, w, p).at = at /\ Pos(at, bb, w, p).b = bb
                      /\ Pos(at, bb, w, p).w = w /\ Pos(at, bb, w, p).pool = p
  BY DEF Pos

\* Work of the host: the sums stay, and the end of the queue is where the host goes.
LEMMA Issues ==
    ASSUME NEW s, NEW p, At(s, p), NEW q,
           UNCHANGED <<call, pool, pack, acc, part, grad>>,
           DOMAIN q = Cells(call),
           Linked(call, queue', s, HostPos(q)'),
           Resides(q)'
    PROVE  At(s, q)'
<1>1. Position(call, s)' /\ (DOMAIN q = Cells(call))' /\ Linked(call, queue, s, HostPos(q))'
      /\ (s.pool = pool)'
  BY DEF At
<1>2. GradAt(s)'
  BY DEF At, GradAt, BackwardDone
<1>3. Sound(call)' => AccAt(s)' /\ PackAt(s)' /\ PartAt(s)'
  BY DEF At, AccAt, PackAt, PartAt
<1>4. QED
  BY <1>1, <1>2, <1>3 DEF At

\* The stream executes the head of the queue.
LEMMA Executes ==
    ASSUME TypeInv, NEW s, NEW p, At(s, p), queue # <<>>, queue' = Tail(queue), UNCHANGED hostVars
    PROVE  \E u : /\ Runs(call, s, Head(queue), u)
                  /\ Linked(call, queue, u, HostPos(p))'
                  /\ Resides(p)' /\ (DOMAIN p = Cells(call))'
<1>1. queue \in Seq(Op(call))
  BY DEF TypeInv, DeviceInv
<1>2. PICK u : Runs(call, s, Head(queue), u) /\ Linked(call, Tail(queue), u, HostPos(p))
  BY <1>1, Executed DEF At
<1>3. UNCHANGED <<call, pc, b, issued, slot_of, todo>>
  BY DEF hostVars
<1>4. Linked(call, queue, u, HostPos(p))'
  BY <1>2, <1>3 DEF HostPos
<1>5. Resides(p)' /\ (DOMAIN p = Cells(call))'
  BY <1>3 DEF At, Resides
<1>6. QED
  BY <1>2, <1>4, <1>5

\* A position of the call leads to one.
LEMMA RunsTo ==
    ASSUME NEW c \in Calls, NEW s, NEW o, NEW t, Runs(c, s, o, t)
    PROVE  Position(c, s) /\ Position(c, t)
<1>1. s.b \in 0 .. c.batch - 1 /\ s.w \in Nat /\ DOMAIN s.pool = Cells(c) /\ c.batch \in Nat \ {0}
  BY CallIs DEF Runs, Position
<1>2. \A d \in Cells(c) : \A v : DOMAIN [s.pool EXCEPT ![d] = v] = DOMAIN s.pool
  OBVIOUS
<1>3. 0 \in 0 .. c.batch - 1 /\ (s.b + 1 < c.batch => s.b + 1 \in 0 .. c.batch - 1)
  BY <1>1
<1>4. Position(c, NextBatch(c, s)) /\ Position(c, NextBackward(c, s))
  BY <1>1, <1>3, PosIs DEF NextBatch, NextBackward, Position
<1>5. QED
  <2>1. CASE t = Pos("wave", s.b, s.w, [s.pool EXCEPT ![o.dst] = SubSeq(o.src, 1, 2)])
    BY <1>1, <2>1, PosIs DEF Position
  <2>2. CASE t = Pos("wave", s.b, 0, s.pool) \/ t = Pos("packed", s.b, s.w, s.pool)
             \/ t = Pos("wave", s.b, s.w + 1, s.pool) \/ t = Pos("fold", s.b, s.w, s.pool)
    BY <1>1, <2>2, PosIs DEF Position
  <2>3. QED
    BY <1>1, <1>4, <2>1, <2>2 DEF Runs, Position

\* Where the host is.
LEMMA HostAt ==
    ASSUME PoolInv
    PROVE  /\ call \in Calls /\ call.batch \in Nat \ {0}
           /\ b \in 0 .. call.batch - 1 /\ issued \in Nat
           /\ call.acc_gpu \in BOOLEAN /\ call.host \in BOOLEAN
           /\ Len(FwdWaves[call]) \in Nat /\ DOMAIN FwdWaves[call] = 1 .. Len(FwdWaves[call])
           /\ Len(BwdWaves[call]) \in Nat /\ DOMAIN BwdWaves[call] = 1 .. Len(BwdWaves[call])
           /\ queue \in Seq(Op(call)) /\ DOMAIN pool = Cells(call)
           /\ pc \in Control
           /\ pc \in {"load", "fold"} => issued < Len(FwdWaves[call])
           /\ pc \in {"zero", "done"} => issued = 0
           /\ pc = "fold" => ~call.acc_gpu
           /\ pc = "backward" => issued < Len(BwdWaves[call]) /\ call.kernel = "cuda"
  BY CallIs DEF PoolInv, TypeInv, HostInv, DeviceInv, Waves

\* acc.zero_.
LEMMA ZeroAccKeeps ==
    ASSUME PoolInv, QuietInv, SimInv, ZeroAcc
    PROVE  SimInv'
<1>1. PICK s, p : At(s, p)
  BY DEF SimInv
<1>2. UNCHANGED <<call, pool, pack, part, grad, b, issued, slot_of, todo>> /\ pc = "zero" /\ pc' = "wave"
      /\ issued = 0
  BY HostAt DEF ZeroAcc, deviceVars
<1>3. HostPos(p) = Pos("zero", b, 0, p) /\ HostPos(p)' = Pos("wave", b, 0, p)
  BY <1>2 DEF HostPos
<1>4. CASE call.acc_gpu
  <2> DEFINE o == [op |-> "zero"]
  <2>1. queue' = Append(queue, o) /\ acc' = acc
    BY <1>4 DEF ZeroAcc
  <2>2. o \in Op(call) /\ o.op = "zero"
    BY DEF Op
  <2> HIDE DEF o
  <2>3. Runs(call, HostPos(p), o, HostPos(p)')
    <3>1. Position(call, HostPos(p))
      BY <1>1, <1>3, HostAt, PosIs DEF Position, At
    <3>2. QED
      BY <1>3, <1>4, <2>2, <3>1, PosIs DEF Runs
  <2>4. Linked(call, queue', s, HostPos(p)')
    BY <1>1, <2>1, <2>2, <2>3, HostAt, Issued DEF At
  <2>5. Resides(p)' /\ DOMAIN p = Cells(call)
    BY <1>1, <1>2 DEF At, Resides
  <2>6. At(s, p)'
    BY <1>1, <1>2, <2>1, <2>4, <2>5, Issues
  <2>7. QED
    BY <2>6 DEF SimInv
<1>5. CASE ~call.acc_gpu
  <2>1. queue = <<>> /\ queue' = <<>> /\ acc' = Zeros
    BY <1>2, <1>5 DEF ZeroAcc, QuietInv
  <2>2. s = Pos("zero", b, 0, p) /\ p = pool
    BY <1>1, <1>3, <2>1, Idle, PosIs DEF At
  <2> DEFINE u == Pos("wave", b, 0, p)
  <2>3. PICK t : t = u
    OBVIOUS
  <2>4. t.at = "wave" /\ t.b = b /\ t.w = 0 /\ t.pool = p
    BY <2>3, PosIs
  <2>5. Position(call, t)'
    BY <1>1, <1>2, <2>4, HostAt DEF At, Position
  <2>6. Linked(call, queue, t, HostPos(p))'
    BY <1>3, <2>1, <2>3, Idle
  <2>7. Resides(p)' /\ (DOMAIN p = Cells(call))'
    BY <1>1, <1>2 DEF At, Resides
  <2>8. GradAt(t)'
    <3>1. GradAt(s) /\ s.at = "zero"
      BY <1>1, <2>2, PosIs DEF At
    <3>2. \A x : BackwardDone(t, x)' = BackwardDone(s, x)
      BY <1>2, <2>4, <3>1 DEF BackwardDone
    <3>3. QED
      BY <1>2, <3>1, <3>2 DEF GradAt
  <2>9. AccAt(t)' /\ PackAt(t)' /\ PartAt(t)'
    <3>1. \A u1 \in Token : Terms(b, u1, KeysTo(call, 0, u1)) = {}
      BY HostAt, KeysAre, SumsJoin
    <3>2. \A u1 \in Token : acc'[u1] = SetToBag(Terms(b, u1, KeysTo(call, 0, u1)))
      BY <2>1, <3>1, BagsEqual DEF Zeros
    <3>3. AccAt(t)'
      BY <1>2, <2>4, <3>2 DEF AccAt
    <3>4. QED
      BY <2>4, <3>3 DEF PackAt, PartAt
  <2>10. At(t, p)'
    BY <1>2, <2>2, <2>4, <2>5, <2>6, <2>7, <2>8, <2>9 DEF At
  <2>11. QED
    BY <2>10 DEF SimInv
<1>6. QED
  BY <1>4, <1>5

\* Chunks that stay keep their slots, and the others are still to be copied.
LEMMA BeginLoadKeeps ==
    ASSUME PoolInv, SimInv, BeginLoad
    PROVE  SimInv'
<1>1. PICK s, p : At(s, p)
  BY DEF SimInv
<1>2. UNCHANGED <<call, pool, pack, acc, part, grad, b, issued, queue>> /\ pc = "wave" /\ pc' = "load"
  BY DEF BeginLoad, deviceVars
<1>3. HostPos(p)' = HostPos(p)
  BY <1>2 DEF HostPos
<1>4. Linked(call, queue', s, HostPos(p)')
  BY <1>1, <1>2, <1>3 DEF At
<1>5. Resides(p)'
  <2> SUFFICES ASSUME call.host, call.batch = 1, NEW k \in Chunk, NEW x \in Tensor,
                      slot_of'[k] # -1, <<k, x>> \notin Range(todo')
               PROVE  p[<<slot_of'[k], x>>] = <<0, k>>
    BY <1>2 DEF Resides
  <2>1. /\ \A j \in Resident : slot_of'[j] = slot_of[j]
        /\ \A j \in Chunk : j \notin ChunksOf(Wave) => slot_of'[j] = -1
        /\ Range(todo') = (ChunksOf(Wave) \ Resident) \X Tensor
    BY LoadSlots DEF PoolInv, TypeInv
  <2>2. k \in Resident
    BY <2>1
  <2>3. slot_of[k] # -1 /\ slot_of'[k] = slot_of[k]
    BY <2>1, <2>2 DEF Resident
  <2>4. todo = <<>>
    BY <1>2 DEF PoolInv, TypeInv, SlotInv
  <2>5. <<k, x>> \notin Range(todo)
    BY <2>4 DEF Range
  <2>6. QED
    BY <1>1, <2>3, <2>5 DEF At, Resides
<1>6. DOMAIN p = Cells(call)
  BY <1>1 DEF At
<1>7. At(s, p)'
  BY <1>1, <1>2, <1>4, <1>5, <1>6, Issues
<1>8. QED
  BY <1>7 DEF SimInv

\* The batch and the chunk of a copy.
LEMMA FirstTwo ==
    ASSUME NEW x, NEW y, NEW z
    PROVE  SubSeq(<<x, y, z>>, 1, 2) = <<x, y>>
<1> DEFINE s == <<x, y, z>>
           r == SubSeq(s, 1, 2)
           Elems == {x, y, z}
<1>1. s \in Seq(Elems) /\ Len(s) = 3 /\ s[1] = x /\ s[2] = y
  OBVIOUS
<1> HIDE DEF s
<1>2. r \in Seq(Elems) /\ Len(r) = 2 /\ r[1] = s[1] /\ r[2] = s[2]
  <2>1. 1 \in 1 .. Len(s) + 1 /\ 2 \in 1 - 1 .. Len(s) /\ 2 - 1 + 1 = 2
    BY <1>1
  <2>2. r \in Seq(Elems) /\ Len(r) = 2 - 1 + 1 /\ \A i \in 1 .. 2 - 1 + 1 : r[i] = s[1 + i - 1]
    BY <1>1, <2>1, SubSeqProperties
  <2> HIDE DEF r
  <2>3. 1 \in 1 .. 2 /\ 2 \in 1 .. 2 /\ 1 + 1 - 1 = 1 /\ 1 + 2 - 1 = 2
    OBVIOUS
  <2>4. r[1] = s[1] /\ r[2] = s[2]
    BY <2>1, <2>2, <2>3
  <2>5. QED
    BY <2>1, <2>2, <2>4
<1> HIDE DEF r
<1>3. r = <<x, y>>
  BY <1>1, <1>2
<1>4. QED
  BY <1>3 DEF r, s

\* A copy brings a chunk to its slot and disturbs no other.
LEMMA CopyChunkKeeps ==
    ASSUME PoolInv, SimInv, CopyChunk
    PROVE  SimInv'
<1>1. PICK s, p : At(s, p)
  BY DEF SimInv
<1> DEFINE k == todo[1][1]
           t == todo[1][2]
           o == [op |-> "h2d", buf |-> copied % 2, src |-> <<b, k, t>>, dst |-> <<slot_of[k], t>>]
<1>2. /\ UNCHANGED <<call, pool, pack, acc, part, grad, b, issued, pc, slot_of>> /\ pc = "load"
      /\ todo # <<>> /\ todo' = Tail(todo) /\ queue' = Append(queue, o)
  BY DEF CopyChunk, deviceVars
<1>3. todo \in Seq(Chunk \X Tensor) /\ slot_of \in [Chunk -> -1 .. call.n_slots - 1]
      /\ (\A x \in DOMAIN todo : slot_of[todo[x][1]] # -1)
      /\ copied \in Nat
      /\ (\A i, j \in Chunk : i # j /\ slot_of[i] # -1 => slot_of[i] # slot_of[j])
  BY DEF PoolInv, TypeInv, SlotInv
<1>4. 1 \in DOMAIN todo /\ todo[1] = <<k, t>> /\ k \in Chunk /\ t \in Tensor /\ slot_of[k] # -1
  BY <1>2, <1>3
<1>5. <<slot_of[k], t>> \in Cells(call)
  <2>1. slot_of[k] \in 0 .. call.n_slots - 1
    BY <1>3, <1>4, CallIs, HostAt
  <2>2. QED
    BY <1>4, <2>1 DEF Cells
<1>6. o \in Op(call)
  <2>1. b \in Nat /\ copied % 2 \in 0 .. 1 /\ <<b, k, t>> \in Nat \X Chunk \X Tensor
    BY <1>3, <1>4, HostAt
  <2>2. QED
    BY <1>5, <2>1 DEF Op
<1>7. o.op = "h2d" /\ o.dst = <<slot_of[k], t>> /\ SubSeq(o.src, 1, 2) = <<b, k>>
  BY FirstTwo
<1> HIDE DEF k, t, o
<1>8. PICK q : q = [p EXCEPT ![<<slot_of[k], t>>] = <<b, k>>]
  OBVIOUS
<1>9. DOMAIN q = Cells(call) /\ q[<<slot_of[k], t>>] = <<b, k>>
      /\ \A d \in Cells(call) : d # <<slot_of[k], t>> => q[d] = p[d]
  BY <1>1, <1>5, <1>8 DEF At
<1>10. Runs(call, HostPos(p), o, HostPos(q)')
  <2>1. HostPos(p) = Pos("wave", b, issued, p) /\ HostPos(q)' = Pos("wave", b, issued, q)
    BY <1>2 DEF HostPos
  <2>2. Position(call, HostPos(p))
    BY <1>1, <2>1, HostAt, PosIs DEF Position, At
  <2>3. q = [p EXCEPT ![o.dst] = SubSeq(o.src, 1, 2)]
    BY <1>7, <1>8
  <2> DEFINE u == HostPos(p)
             v == HostPos(q)'
  <2>4. u.at = "wave" /\ u.b = b /\ u.w = issued /\ u.pool = p
    BY <2>1, PosIs
  <2>5. v = Pos("wave", u.b, u.w, [u.pool EXCEPT ![o.dst] = SubSeq(o.src, 1, 2)])
    BY <2>1, <2>3, <2>4
  <2> HIDE DEF u, v
  <2>6. Runs(call, u, o, v)
    BY <2>2, <2>4, <2>5, <1>7 DEF Runs, u
  <2>7. QED
    BY <2>6 DEF u, v
<1>11. Linked(call, queue', s, HostPos(q)')
  BY <1>1, <1>2, <1>6, <1>10, HostAt, Issued DEF At
<1>12. Resides(q)'
  <2> SUFFICES ASSUME call.host, call.batch = 1, NEW j \in Chunk, NEW x \in Tensor,
                      slot_of[j] # -1, <<j, x>> \notin Range(todo')
               PROVE  q[<<slot_of[j], x>>] = <<0, j>>
    BY <1>2 DEF Resides
  <2>1. b = 0
    BY HostAt
  <2>2. CASE j = k /\ x = t
    BY <2>1, <2>2, <1>9
  <2>3. CASE j # k \/ x # t
    <3>1. <<slot_of[j], x>> # <<slot_of[k], t>>
      BY <1>3, <1>4, <2>3
    <3>2. slot_of[j] \in 0 .. call.n_slots - 1
      BY <1>3, CallIs, HostAt
    <3>3. q[<<slot_of[j], x>>] = p[<<slot_of[j], x>>]
      BY <1>9, <3>1, <3>2 DEF Cells
    <3>4. <<j, x>> \notin Range(todo)
      <4>1. ASSUME NEW i \in DOMAIN todo, todo[i] = <<j, x>> PROVE FALSE
        <5>1. i # 1
          BY <1>4, <2>3, <4>1
        <5>2. i \in Nat /\ i > 1 /\ i - 1 \in DOMAIN Tail(todo) /\ Tail(todo)[i - 1] = todo[i]
          BY <1>3, <1>2, <4>1, <5>1
        <5>3. <<j, x>> \in Range(todo')
          BY <1>2, <4>1, <5>2 DEF Range
        <5>4. QED
          BY <5>3
      <4>2. QED
        BY <4>1 DEF Range
    <3>5. QED
      BY <1>1, <3>3, <3>4 DEF At, Resides
  <2>4. QED
    BY <2>2, <2>3
<1>13. At(s, q)'
  BY <1>1, <1>2, <1>9, <1>11, <1>12, Issues
<1>14. QED
  BY <1>13 DEF SimInv

\* The work a kernel is part of, and what it finds in the pool.
LEMMA LaunchKeeps ==
    ASSUME PoolInv, SimInv, Launch
    PROVE  SimInv'
<1>1. PICK s, p : At(s, p)
  BY DEF SimInv
<1> DEFINE o == [op |-> "forward", b |-> b, w |-> issued + 1, slot_of |-> slot_of]
           m == [op |-> "merge", w |-> issued + 1]
           x0 == HostPos(p)
           y0 == HostPos(p)'
           z0 == Pos("packed", b, issued, p)
<1>2. /\ UNCHANGED <<call, pool, pack, acc, part, grad, b, slot_of, todo>>
      /\ queue' = queue \o <<o, m>> /\ pc \in {"wave", "load"} /\ issued < Len(FwdWaves[call])
      /\ IF call.acc_gpu THEN pc' = "wave" /\ issued' = issued + 1 ELSE pc' = "fold" /\ issued' = issued
  BY HostAt DEF Launch, deviceVars, Waves
<1>3. o \in Op(call) /\ m \in Op(call) /\ queue \in Seq(Op(call)) /\ b \in Nat /\ issued \in Nat
  <2>1. b \in Nat /\ issued + 1 \in Nat /\ slot_of \in [Chunk -> -1 .. call.n_slots - 1]
    BY HostAt DEF PoolInv, TypeInv, SlotInv
  <2>2. QED
    BY <2>1, HostAt DEF Op
<1>4. /\ o.op = "forward" /\ o.b = b /\ o.w = issued + 1 /\ o.slot_of = slot_of
      /\ m.op = "merge" /\ m.w = issued + 1
  OBVIOUS
<1>5. queue' = Append(Append(queue, o), m)
  <2> HIDE DEF o, m
  <2>1. QED
    BY <1>2, <1>3
<1>6. Loaded(call, o, p)
  <2> SUFFICES ASSUME call.host, NEW k \in ChunksOf(FwdWaves[call][issued + 1]), NEW t \in Tensor
               PROVE  slot_of[k] # -1 /\ (call.batch = 1 => p[<<slot_of[k], t>>] = <<0, k>>)
    BY <1>4 DEF Loaded
  <2>1. pc = "load" /\ todo = <<>>
    BY DEF Launch
  <2>2. slot_of[k] # -1
    BY <2>1 DEF PoolInv, TypeInv, SlotInv, Wave, Waves
  <2>3. k \in Chunk
    <3>1. issued + 1 \in DOMAIN FwdWaves[call]
      BY <1>2, HostAt
    <3>2. QED
      BY <3>1, HostAt, WaveChunks
  <2>4. <<k, t>> \notin Range(todo)
    BY <2>1 DEF Range
  <2>5. QED
    BY <1>1, <2>2, <2>3, <2>4 DEF At, Resides
<1> HIDE DEF o, m
<1>7. x0 = Pos("wave", b, issued, p)
  BY <1>2 DEF HostPos
<1>8. y0 = IF call.acc_gpu THEN Pos("wave", b, issued + 1, p) ELSE Pos("fold", b, issued, p)
  BY <1>2 DEF HostPos
<1>9. Position(call, x0) /\ Position(call, z0)
  BY <1>1, <1>7, HostAt, PosIs DEF Position, At
<1>10. Runs(call, x0, o, z0)
  BY <1>2, <1>4, <1>6, <1>7, <1>9, PosIs DEF Runs
<1>11. Runs(call, z0, m, y0)
  <2>1. z0.at = "packed" /\ z0.b = b /\ z0.w = issued /\ z0.pool = p
    BY PosIs
  <2> HIDE DEF z0, y0
  <2>2. QED
    BY <1>2, <1>4, <1>8, <1>9, <2>1 DEF Runs
<1> HIDE DEF x0, y0, z0
<1>12. Linked(call, Append(queue, o), s, z0)
  BY <1>1, <1>3, <1>10, Issued DEF At, x0
<1>13. Linked(call, queue', s, HostPos(p)')
  <2>1. Append(queue, o) \in Seq(Op(call))
    BY <1>3
  <2>2. QED
    BY <1>3, <1>5, <1>11, <1>12, <2>1, Issued DEF y0
<1>14. Resides(p)' /\ DOMAIN p = Cells(call)
  BY <1>1, <1>2 DEF At, Resides
<1>15. At(s, p)'
  BY <1>1, <1>2, <1>13, <1>14, Issues
<1>16. QED
  BY <1>15 DEF SimInv

\* One wave of the backward.
LEMMA IssueBackwardKeeps ==
    ASSUME PoolInv, SimInv, IssueBackward
    PROVE  SimInv'
<1>1. PICK s, p : At(s, p)
  BY DEF SimInv
<1> DEFINE o == [op |-> "backward", b |-> b, w |-> issued + 1]
           x0 == HostPos(p)
           y0 == HostPos(p)'
<1>2. /\ UNCHANGED <<call, pool, pack, acc, part, grad, slot_of, todo>>
      /\ queue' = Append(queue, o) /\ pc = "backward"
      /\ call.kernel = "cuda" /\ issued < Len(BwdWaves[call])
      /\ IF issued + 1 < Len(BwdWaves[call]) THEN issued' = issued + 1 /\ b' = b /\ pc' = pc
         ELSE /\ issued' = 0
              /\ IF b + 1 < call.batch THEN b' = b + 1 /\ pc' = pc ELSE pc' = "done" /\ b' = b
  BY HostAt DEF IssueBackward, deviceVars
<1>3. o \in Op(call) /\ queue \in Seq(Op(call))
  <2>1. b \in Nat /\ issued + 1 \in Nat
    BY HostAt
  <2>2. QED
    BY <2>1, HostAt DEF Op
<1>4. o.op = "backward" /\ o.b = b /\ o.w = issued + 1
  OBVIOUS
<1> HIDE DEF o
<1>5. x0 = Pos("backward", b, issued, p)
  BY <1>2 DEF HostPos
<1>6. x0.at = "backward" /\ x0.b = b /\ x0.w = issued /\ x0.pool = p
  BY <1>5, PosIs
<1>7. y0 = NextBackward(call, x0)
  BY <1>2, <1>6 DEF HostPos, NextBackward
<1>8. Position(call, x0)
  BY <1>1, <1>6, HostAt DEF Position, At
<1> HIDE DEF x0, y0
<1>9. Runs(call, x0, o, y0)
  BY <1>2, <1>4, <1>6, <1>7, <1>8 DEF Runs
<1>10. Linked(call, queue', s, HostPos(p)')
  BY <1>1, <1>2, <1>3, <1>9, Issued DEF At, x0, y0
<1>11. Resides(p)' /\ DOMAIN p = Cells(call)
  BY <1>1, <1>2 DEF At, Resides
<1>12. At(s, p)'
  BY <1>1, <1>2, <1>10, <1>11, Issues
<1>13. QED
  BY <1>12 DEF SimInv

\* After the last wave of a batch no gradient has changed.
LEMMA GradNext ==
    ASSUME call \in Calls, NEW s, s.at \in {"zero", "wave", "packed", "fold"}, NEW t,
           t.at \in {"zero", "wave", "packed", "fold"} \/ t = NextBatch(call, s)
    PROVE  \A x \in 0 .. call.batch - 1 : BackwardDone(t, x) = BackwardDone(s, x)
<1>1. \A x : BackwardDone(s, x) = 0
  BY DEF BackwardDone
<1>2. \A x \in 0 .. call.batch - 1 : BackwardDone(t, x) = 0
  <2>1. CASE t.at \in {"zero", "wave", "packed", "fold"}
    BY <2>1 DEF BackwardDone
  <2>2. CASE t = Pos("zero", s.b + 1, 0, s.pool)
    BY <2>1, <2>2, PosIs
  <2>3. CASE t = Pos("backward", 0, 0, s.pool)
    <3>1. t.at = "backward" /\ t.b = 0 /\ t.w = 0
      BY <2>3, PosIs
    <3>2. QED
      BY <3>1 DEF BackwardDone
  <2>4. CASE t = Pos("done", 0, 0, s.pool) /\ ~(call.kernel = "cuda" /\ BwdWaves[call] # <<>>)
    <3>1. t.at = "done"
      BY <2>4, PosIs
    <3>2. BwdWaves[call] = <<>> => Len(BwdWaves[call]) = 0
      OBVIOUS
    <3>3. QED
      BY <2>4, <3>1, <3>2 DEF BackwardDone
  <2>5. QED
    BY <2>1, <2>2, <2>3, <2>4 DEF NextBatch
<1>3. QED
  BY <1>1, <1>2

\* The sum of a query.
Whole(c, x, u) == SetToBag({<<<<x, u>>, <<x, v>>, <<x, v>>>> : v \in {v \in Token : c.causal => v <= u}})

\* Batches that are not written keep their sums.
LEMMA OutKeeps ==
    ASSUME OutInv, call' = call,
           Sound(call) => \A x \in DOMAIN out' :
               \/ x \in DOMAIN out /\ out'[x] = out[x]
               \/ \A u \in Token : out'[x][u] = Whole(call, x, u)
    PROVE  OutInv'
<1>1. OutInv <=> (Sound(call) => \A x \in DOMAIN out : out[x] # <<>> =>
                                    \A u \in Token : out[x][u] = Whole(call, x, u))
  BY DEF OutInv, ReturnedExact, Whole
<1>2. OutInv' <=> (Sound(call)' => \A x \in DOMAIN out' : out'[x] # <<>> =>
                                    \A u \in Token : out'[x][u] = Whole(call', x, u))
  BY DEF OutInv, ReturnedExact, Whole
<1>3. Sound(call)' => Sound(call)
  OBVIOUS
<1>4. QED
  BY <1>1, <1>2, <1>3

\* What a batch returns.
LEMMA BatchIs ==
    ASSUME call \in Calls, NEW s, Position(call, s), s.at = "wave", s.w = Len(FwdWaves[call]), AccAt(s)
    PROVE  \A u \in Token : acc[u] = Whole(call, s.b, u)
<1> SUFFICES ASSUME NEW u \in Token PROVE acc[u] = Whole(call, s.b, u)
  OBVIOUS
<1>1. acc[u] = SetToBag(Terms(s.b, u, KeysTo(call, s.w, u)))
  BY DEF AccAt
<1>2. KeysTo(call, s.w, u) = {v \in Token : Sees(call, u, v)}
  BY KeysAre
<1>3. {v \in Token : Sees(call, u, v)} = {v \in Token : call.causal => v <= u}
  BY DEF Sees
<1>4. QED
  BY <1>1, <1>2, <1>3 DEF Terms, Whole

\* A batch of exact sums joins the others.
LEMMA OutJoins ==
    ASSUME PoolInv, OutInv, NEW s, Position(call, s), s.at = "wave", s.w = Len(FwdWaves[call]),
           Sound(call) => AccAt(s),
           call' = call, out' = [out EXCEPT ![s.b] = acc]
    PROVE  OutInv'
<1>1. DOMAIN out' = DOMAIN out /\ s.b \in DOMAIN out
  BY HostAt DEF PoolInv, TypeInv, DeviceInv, Position
<1>2. out'[s.b] = acc /\ \A x \in DOMAIN out' : x = s.b \/ out'[x] = out[x]
  BY <1>1
<1>3. Sound(call) => \A u \in Token : acc[u] = Whole(call, s.b, u)
  BY HostAt, BatchIs
<1>4. QED
  BY <1>1, <1>2, <1>3, OutKeeps

\* out[b].copy_.
LEMMA OutputKeeps ==
    ASSUME PoolInv, QuietInv, SimInv, OutInv, Output
    PROVE  SimInv' /\ OutInv'
<1>1. PICK s, p : At(s, p)
  BY DEF SimInv
<1> DEFINE x0 == HostPos(p)
           y0 == HostPos(p)'
<1>2. /\ UNCHANGED <<call, pool, pack, acc, part, grad, slot_of, todo>>
      /\ pc = "wave" /\ issued = Len(FwdWaves[call]) /\ issued' = 0
      /\ IF b + 1 < call.batch THEN b' = b + 1 /\ pc' = "zero"
         ELSE b' = 0 /\ pc' = IF call.kernel = "cuda" /\ BwdWaves[call] # <<>> THEN "backward" ELSE "done"
  BY DEF Output, deviceVars, Waves
<1>3. x0 = Pos("wave", b, issued, p)
  BY <1>2 DEF HostPos
<1>4. x0.at = "wave" /\ x0.b = b /\ x0.w = issued /\ x0.pool = p
  BY <1>3, PosIs
<1>5. y0 = NextBatch(call, x0)
  BY <1>2, <1>4 DEF HostPos, NextBatch
<1>6. Position(call, x0)
  BY <1>1, <1>4, HostAt DEF Position, At
<1> HIDE DEF x0, y0
<1>7. Resides(p)' /\ DOMAIN p = Cells(call) /\ (DOMAIN p = Cells(call))'
  BY <1>1, <1>2 DEF At, Resides
<1>8. CASE call.acc_gpu
  <2> DEFINE o == [op |-> "out", b |-> b]
  <2>1. queue' = Append(queue, o) /\ out' = out
    BY <1>8 DEF Output
  <2>2. o \in Op(call) /\ o.op = "out" /\ o.b = b
    BY HostAt DEF Op
  <2> HIDE DEF o
  <2>3. Runs(call, x0, o, y0)
    BY <1>2, <1>4, <1>5, <1>6, <1>8, <2>2 DEF Runs
  <2>4. Linked(call, queue', s, HostPos(p)')
    BY <1>1, <2>1, <2>2, <2>3, HostAt, Issued DEF At, x0, y0
  <2>5. At(s, p)'
    BY <1>1, <1>2, <1>7, <2>4, Issues
  <2>6. OutInv'
    BY <1>2, <2>1, OutKeeps
  <2>7. QED
    BY <2>5, <2>6 DEF SimInv
<1>9. CASE ~call.acc_gpu
  <2>1. queue = <<>> /\ queue' = <<>> /\ out' = [out EXCEPT ![b] = acc]
    BY <1>2, <1>9 DEF Output, QuietInv
  <2>2. s = x0 /\ p = pool
    BY <1>1, <1>4, <2>1, Idle DEF At, x0
  <2>3. PICK t : t = NextBatch(call, s)
    OBVIOUS
  <2>4. t.pool = pool /\ t.at \in {"zero", "backward", "done"}
    BY <1>4, <2>2, <2>3, PosIs DEF NextBatch
  <2>5. Position(call, t)'
    <3>1. s.b \in 0 .. call.batch - 1 /\ call.batch \in Nat /\ DOMAIN s.pool = Cells(call)
      BY <1>1, HostAt DEF At, Position
    <3>2. t.b \in 0 .. call.batch - 1 /\ t.w \in Nat /\ t.pool = s.pool
      BY <2>3, <3>1, HostAt, PosIs DEF NextBatch
    <3>3. Position(call, t)
      BY <3>1, <3>2 DEF Position
    <3>4. QED
      BY <1>2, <3>3 DEF Position, Cells
  <2>6. Linked(call, queue, t, HostPos(p))'
    BY <1>5, <2>1, <2>2, <2>3, Idle DEF y0
  <2>7. GradAt(t)'
    <3>1. GradAt(s) /\ s.at = "wave"
      BY <1>1, <1>4, <2>2 DEF At
    <3>2. \A x \in 0 .. call.batch - 1 : BackwardDone(t, x) = BackwardDone(s, x)
      BY <2>3, <3>1, HostAt, GradNext
    <3>3. GradAt(t)
      BY <3>1, <3>2 DEF GradAt
    <3>4. QED
      BY <1>2, <3>3 DEF GradAt, BackwardDone, PairsTo, PairsIn, Sees
  <2>8. AccAt(t)' /\ PackAt(t)' /\ PartAt(t)'
    BY <2>4 DEF AccAt, PackAt, PartAt
  <2>9. At(t, p)'
    BY <1>2, <1>7, <2>4, <2>5, <2>6, <2>7, <2>8 DEF At
  <2>10. OutInv'
    <3>1. Position(call, s) /\ s.at = "wave" /\ s.w = Len(FwdWaves[call]) /\ s.b = b
          /\ (Sound(call) => AccAt(s))
      BY <1>1, <1>2, <1>4, <2>2 DEF At
    <3>2. QED
      BY <1>2, <2>1, <3>1, OutJoins
  <2>11. QED
    BY <2>9, <2>10 DEF SimInv
<1>10. QED
  BY <1>8, <1>9

\* The merge on the host: every token of the wave has a key, so no weight is NaN.
LEMMA FoldKeeps ==
    ASSUME PoolInv, SimInv, Fold
    PROVE  SimInv'
<1>1. PICK s, p : At(s, p)
  BY DEF SimInv
<1>2. /\ UNCHANGED <<call, pool, pack, part, grad, slot_of, todo, b, queue>>
      /\ pc = "fold" /\ pc' = "wave" /\ issued' = issued + 1 /\ queue = <<>>
      /\ acc' = [u \in Token |-> IF u \in Uniq(Wave) THEN Folded(u) ELSE acc[u]]
      /\ issued < Len(FwdWaves[call]) /\ ~call.acc_gpu
  BY HostAt DEF Fold, Synchronized, deviceVars
<1>3. HostPos(p) = Pos("fold", b, issued, p) /\ HostPos(p)' = Pos("wave", b, issued + 1, p)
  BY <1>2 DEF HostPos
<1>4. s = Pos("fold", b, issued, p) /\ p = pool
  BY <1>1, <1>2, <1>3, Idle, PosIs DEF At
<1>5. s.at = "fold" /\ s.b = b /\ s.w = issued /\ s.pool = p
  BY <1>4, PosIs
<1>6. PICK t : t = Pos("wave", b, issued + 1, p)
  OBVIOUS
<1>7. t.at = "wave" /\ t.b = b /\ t.w = issued + 1 /\ t.pool = p
  BY <1>6, PosIs
<1>8. Position(call, t)'
  <2>1. Position(call, t)
    BY <1>1, <1>5, <1>7, HostAt DEF At, Position
  <2>2. QED
    BY <1>2, <2>1 DEF Position, Cells
<1>9. Linked(call, queue, t, HostPos(p))'
  <2>1. Linked(call', <<>>, t, HostPos(p)')
    BY <1>3, <1>6, Idle
  <2>2. QED
    BY <1>2, <2>1
<1>10. GradAt(t)'
  <2>1. GradAt(s)
    BY <1>1 DEF At
  <2>2. \A x \in 0 .. call.batch - 1 : BackwardDone(t, x) = BackwardDone(s, x)
    BY <1>5, <1>7, HostAt, GradNext
  <2>3. GradAt(t)
    BY <2>1, <2>2 DEF GradAt
  <2>4. QED
    BY <1>2, <2>3 DEF GradAt, BackwardDone, PairsTo, PairsIn, Sees
<1>11. ASSUME Sound(call) PROVE AccAt(t)'
  <2> SUFFICES ASSUME NEW u \in Token
               PROVE  acc'[u] = SetToBag(Terms(b, u, KeysTo(call, issued + 1, u)))
    BY <1>2, <1>7 DEF AccAt
  <2> DEFINE K == KeysTo(call, issued, u)
             L == KeysIn(call, issued + 1, u)
  <2>1. AccAt(s) /\ PartAt(s)
    BY <1>1, <1>11 DEF At
  <2>2. acc[u] = SetToBag(Terms(b, u, K)) /\ part[u] = SetToBag(Terms(b, u, L))
    BY <1>5, <2>1 DEF AccAt, PartAt
  <2>3. issued \in Nat /\ issued + 1 \in DOMAIN FwdWaves[call]
    BY <1>2, HostAt
  <2>4. KeysTo(call, issued + 1, u) = K \cup L /\ K \cap L = {}
    BY <2>3, HostAt, KeysAre
  <2> HIDE DEF K, L
  <2>5. acc[u] (+) part[u] = SetToBag(Terms(b, u, KeysTo(call, issued + 1, u)))
    BY <2>2, <2>4, SumsJoin
  <2>6. Wave = FwdWaves[call][issued + 1]
    BY DEF Wave, Waves
  <2>7. CASE u \in Uniq(Wave)
    <3>1. K \cup L # {}
      BY <1>2, <1>11, <2>3, <2>4, <2>6, <2>7 DEF Sound
    <3>2. ~(part[u] = EmptyBag /\ acc[u] = EmptyBag)
      BY <2>2, <3>1, SumsJoin, BagsEqual
    <3>3. Folded(u) = acc[u] (+) part[u]
      BY <3>2 DEF Folded
    <3>4. QED
      BY <1>2, <2>5, <2>7, <3>3
  <2>8. CASE u \notin Uniq(Wave)
    <3>1. ASSUME NEW v \in L PROVE FALSE
      <4> DEFINE wave == FwdWaves[call][issued + 1]
      <4>1. PICK i \in DOMAIN wave : <<u, v>> \in wave[i].kept
        BY DEF L, KeysIn
      <4>2. wave \in Seq(WaveTask)
        BY <2>3, HostAt, WavesAre DEF WavesOf
      <4> HIDE DEF wave
      <4>3. wave[i] \in WaveTask
        BY <4>1, <4>2
      <4>4. PICK r \in RowsIn(wave[i]), q \in RowsIn(wave[i]) : <<u, v>> = <<wave[i].rows[r + 1], wave[i].rows[q + 1]>>
        BY <4>1, <4>3, EntryIs
      <4>5. <<i, r>> \in WaveRows(wave) /\ Tok(wave, <<i, r>>) = u
        BY <4>2, <4>4, RowIs
      <4>6. QED
        BY <2>6, <2>8, <4>5 DEF Uniq, wave
    <3>2. L = {}
      BY <3>1
    <3>3. acc'[u] = acc[u] /\ K \cup L = K
      BY <1>2, <2>8, <3>2
    <3>4. QED
      BY <2>2, <2>4, <3>3
  <2>9. QED
    BY <2>7, <2>8
<1>12. PackAt(t)' /\ PartAt(t)'
  BY <1>7 DEF PackAt, PartAt
<1>13. Resides(p)' /\ (DOMAIN p = Cells(call))'
  BY <1>1, <1>2 DEF At, Resides
<1>14. Sound(call)' => Sound(call)
  BY <1>2
<1>15. At(t, p)'
  BY <1>2, <1>4, <1>7, <1>8, <1>9, <1>10, <1>11, <1>12, <1>13, <1>14 DEF At
<1>16. QED
  BY <1>15 DEF SimInv

\* Steps that do not touch the gradients.
LEMMA GradStays ==
    ASSUME NEW s, GradAt(s), UNCHANGED <<call, grad>>
    PROVE  GradAt(s)'
<1>1. \A x : BackwardDone(s, x)' = BackwardDone(s, x)
  BY DEF BackwardDone
<1>2. QED
  BY <1>1 DEF GradAt

\* The stream clears the accumulators.
LEMMA ZeroKeeps ==
    ASSUME PoolInv, SimInv, Zero
    PROVE  SimInv'
<1>1. PICK s, p : At(s, p)
  BY DEF SimInv
<1>2. /\ queue # <<>> /\ Head(queue).op = "zero" /\ queue' = Tail(queue)
      /\ UNCHANGED hostVars /\ UNCHANGED <<call, pool, pack, part, grad, b>> /\ acc' = Zeros
  BY DEF Zero, Execute, deviceVars, hostVars
<1>3. PICK u : /\ Runs(call, s, Head(queue), u) /\ Linked(call, queue, u, HostPos(p))'
               /\ Resides(p)' /\ (DOMAIN p = Cells(call))'
  BY <1>1, <1>2, Executes DEF PoolInv
<1>4. s.at = "zero" /\ u = Pos("wave", s.b, 0, s.pool)
  BY <1>2, <1>3 DEF Runs
<1>5. u.at = "wave" /\ u.b = s.b /\ u.w = 0 /\ u.pool = s.pool
  BY <1>4, PosIs
<1>6. Position(call, u)'
  <2>1. Position(call, u)
    BY <1>3, HostAt, RunsTo
  <2>2. QED
    BY <1>2, <2>1 DEF Position, Cells
<1>7. GradAt(u)'
  <2>1. GradAt(s)
    BY <1>1 DEF At
  <2>2. \A x \in 0 .. call.batch - 1 : BackwardDone(u, x) = BackwardDone(s, x)
    BY <1>4, <1>5, HostAt, GradNext
  <2>3. GradAt(u)
    BY <2>1, <2>2 DEF GradAt
  <2>4. QED
    BY <1>2, <2>3, GradStays
<1>8. AccAt(u)' /\ PackAt(u)' /\ PartAt(u)'
  <2>1. \A x \in Token : Terms(s.b, x, KeysTo(call, 0, x)) = {}
    BY HostAt, KeysAre, SumsJoin
  <2>2. \A x \in Token : acc'[x] = SetToBag(Terms(s.b, x, KeysTo(call, 0, x)))
    BY <1>2, <2>1, BagsEqual DEF Zeros
  <2>3. AccAt(u)'
    BY <1>2, <1>5, <2>2 DEF AccAt
  <2>4. QED
    BY <1>5, <2>3 DEF PackAt, PartAt
<1>9. (u.pool = pool)'
  BY <1>1, <1>2, <1>5 DEF At
<1>10. At(u, p)'
  BY <1>3, <1>6, <1>7, <1>8, <1>9 DEF At
<1>11. QED
  BY <1>10 DEF SimInv

\* A copy finds its chunk in the staging buffer.
LEMMA HostToDeviceKeeps ==
    ASSUME PoolInv, SimInv, HostToDevice
    PROVE  SimInv'
<1>1. PICK s, p : At(s, p)
  BY DEF SimInv
<1>2. /\ queue # <<>> /\ Head(queue).op = "h2d" /\ queue' = Tail(queue)
      /\ UNCHANGED hostVars /\ UNCHANGED <<call, pack, part, grad, b, acc>>
      /\ pool' = [pool EXCEPT ![Head(queue).dst] = SubSeq(stage[Head(queue).buf], 1, 2)]
  BY DEF HostToDevice, Execute, hostVars
<1>3. PICK u : /\ Runs(call, s, Head(queue), u) /\ Linked(call, queue, u, HostPos(p))'
               /\ Resides(p)' /\ (DOMAIN p = Cells(call))'
  BY <1>1, <1>2, Executes DEF PoolInv
<1>4. s.at = "wave"
      /\ u = Pos("wave", s.b, s.w, [s.pool EXCEPT ![Head(queue).dst] = SubSeq(Head(queue).src, 1, 2)])
  BY <1>2, <1>3 DEF Runs
<1>5. u.at = "wave" /\ u.b = s.b /\ u.w = s.w
      /\ u.pool = [s.pool EXCEPT ![Head(queue).dst] = SubSeq(Head(queue).src, 1, 2)]
  BY <1>4, PosIs
<1>6. stage[Head(queue).buf] = Head(queue).src
  <2>1. 1 \in DOMAIN queue /\ Head(queue) = queue[1]
    BY <1>2, HostAt
  <2>2. QED
    BY <1>2, <2>1 DEF PoolInv, StagingOwned
<1>7. (u.pool = pool)'
  BY <1>1, <1>2, <1>5, <1>6 DEF At
<1>8. Position(call, u)'
  <2>1. Position(call, u)
    BY <1>3, HostAt, RunsTo
  <2>2. QED
    BY <1>2, <2>1 DEF Position, Cells
<1>9. GradAt(u)'
  <2>1. GradAt(s)
    BY <1>1 DEF At
  <2>2. \A x \in 0 .. call.batch - 1 : BackwardDone(u, x) = BackwardDone(s, x)
    BY <1>4, <1>5, HostAt, GradNext
  <2>3. GradAt(u)
    BY <2>1, <2>2 DEF GradAt
  <2>4. QED
    BY <1>2, <2>3, GradStays
<1>10. Sound(call)' => AccAt(u)' /\ PackAt(u)' /\ PartAt(u)'
  <2>1. Sound(call) => AccAt(s)
    BY <1>1 DEF At
  <2>2. Sound(call) => AccAt(u)'
    BY <1>2, <1>4, <1>5, <2>1 DEF AccAt
  <2>3. Sound(call)' => Sound(call)
    BY <1>2
  <2>4. QED
    BY <1>5, <2>2, <2>3 DEF PackAt, PartAt
<1>11. At(u, p)'
  BY <1>3, <1>7, <1>8, <1>9, <1>10 DEF At
<1>12. QED
  BY <1>11 DEF SimInv

\* A kernel sums the pairs of its wave, read from the rows of its batch.
LEMMA ForwardKeeps ==
    ASSUME PoolInv, SimInv, ForwardKernel
    PROVE  SimInv'
<1>1. PICK s, p : At(s, p)
  BY DEF SimInv
<1> DEFINE op == Head(queue)
           wave == Waves[op.w]
           in == [x \in WaveRows(wave) |-> <<Operand(op, x, "q"), Operand(op, x, "k"), Operand(op, x, "v")>>]
<1>2. /\ queue # <<>> /\ op.op = "forward" /\ queue' = Tail(queue)
      /\ UNCHANGED hostVars /\ UNCHANGED <<call, pool, part, grad, b, acc>>
      /\ pack' = [x \in WaveRows(wave) |-> {<<in[x][1], in[y][2], in[y][3]>> : y \in Attended(wave, x)}]
  BY DEF ForwardKernel, Execute, hostVars
<1>3. PICK u : /\ Runs(call, s, Head(queue), u) /\ Linked(call, queue, u, HostPos(p))'
               /\ Resides(p)' /\ (DOMAIN p = Cells(call))'
  BY <1>1, <1>2, Executes DEF PoolInv
<1>4. /\ s.at = "wave" /\ s.w < Len(FwdWaves[call]) /\ op.b = s.b /\ op.w = s.w + 1
      /\ Loaded(call, op, s.pool) /\ u = Pos("packed", s.b, s.w, s.pool)
  BY <1>2, <1>3 DEF Runs
<1>5. u.at = "packed" /\ u.b = s.b /\ u.w = s.w /\ u.pool = s.pool
  BY <1>4, PosIs
<1>6. Position(call, s) /\ s.pool = pool
  BY <1>1 DEF At
<1>7. s.w \in Nat /\ op.w \in DOMAIN Waves /\ Waves = FwdWaves[call] /\ s.b \in 0 .. call.batch - 1
  BY <1>4, <1>6, HostAt DEF Position, Waves
<1>8. wave \in Seq(WaveTask) /\ wave = FwdWaves[call][s.w + 1]
  BY <1>4, <1>7, HostAt, WavesAre DEF WavesOf
<1>9. op.slot_of \in [Chunk -> -1 .. call.n_slots - 1]
  <2>1. op \in Op(call)
    BY <1>2, HostAt
  <2> HIDE DEF op
  <2>2. QED
    BY <1>2, <2>1 DEF Op
<1> HIDE DEF op
<1>10. ASSUME Sound(call), NEW x \in WaveRows(wave), NEW t \in Tensor
       PROVE  Operand(op, x, t) = <<s.b, Tok(wave, x)>>
  <2>1. ASSUME call.host, NEW k \in ChunksOf(Waves[op.w])
        PROVE  op.slot_of[k] \in Nat /\ pool[<<op.slot_of[k], t>>] = <<op.b, k>>
    <3>1. call.batch = 1 /\ s.b = 0
      BY <1>7, <1>10, <2>1, HostAt DEF Sound
    <3>2. op.slot_of[k] # -1 /\ pool[<<op.slot_of[k], t>>] = <<0, k>>
      BY <1>4, <1>6, <1>7, <2>1, <3>1 DEF Loaded
    <3>3. k \in Chunk
      BY <1>7, <2>1, HostAt, WaveChunks
    <3>4. op.slot_of[k] \in -1 .. call.n_slots - 1 /\ call.n_slots \in Nat
      BY <1>9, <3>3, HostAt, CallIs
    <3>5. QED
      BY <1>4, <3>1, <3>2, <3>4
  <2>2. Operand(op, x, t) = <<op.b, Tok(Waves[op.w], x)>>
    BY <1>7, <2>1, HostAt, OperandIs
  <2>3. QED
    BY <1>4, <2>2
<1> HIDE DEF wave
<1>11. ASSUME Sound(call), NEW x \in WaveRows(wave)
       PROVE  pack'[x] = Terms(s.b, Tok(wave, x),
                               {v \in Token : Sees(call, Tok(wave, x), v)
                                              /\ <<Tok(wave, x), v>> \in wave[x[1]].kept})
  <2> DEFINE g == Tok(wave, x)
             K == {v \in Token : Sees(call, g, v) /\ <<g, v>> \in wave[x[1]].kept}
  <2>1. Attended(wave, x) \subseteq WaveRows(wave) /\ {Tok(wave, y) : y \in Attended(wave, x)} = K
    BY <1>8, HostAt, AttendedIs
  <2>2. \A y \in WaveRows(wave) : in[y][1] = <<s.b, Tok(wave, y)>> /\ in[y][2] = <<s.b, Tok(wave, y)>>
                                  /\ in[y][3] = <<s.b, Tok(wave, y)>>
    BY <1>10, <1>11 DEF Tensor
  <2>3. pack'[x] = {<<in[x][1], in[y][2], in[y][3]>> : y \in Attended(wave, x)}
    BY <1>2
  <2> HIDE DEF in, K
  <2>4. pack'[x] = {<<<<s.b, g>>, <<s.b, Tok(wave, y)>>, <<s.b, Tok(wave, y)>>>> : y \in Attended(wave, x)}
    BY <2>1, <2>2, <2>3
  <2>5. pack'[x] = Terms(s.b, g, K)
    BY <2>1, <2>4 DEF Terms
  <2>6. QED
    BY <2>5 DEF K
<1>12. (u.pool = pool)'
  BY <1>2, <1>5, <1>6
<1>13. Position(call, u)'
  <2>1. Position(call, u)
    BY <1>3, HostAt, RunsTo
  <2>2. QED
    BY <1>2, <2>1 DEF Position, Cells
<1>14. GradAt(u)'
  <2>1. GradAt(s)
    BY <1>1 DEF At
  <2>2. \A x \in 0 .. call.batch - 1 : BackwardDone(u, x) = BackwardDone(s, x)
    BY <1>4, <1>5, HostAt, GradNext
  <2>3. GradAt(u)
    BY <2>1, <2>2 DEF GradAt
  <2>4. QED
    BY <1>2, <2>3, GradStays
<1>15. Sound(call)' => AccAt(u)' /\ PackAt(u)' /\ PartAt(u)'
  <2>1. Sound(call) => AccAt(s)
    BY <1>1 DEF At
  <2>2. Sound(call) => AccAt(u)'
    BY <1>2, <1>4, <1>5, <2>1 DEF AccAt
  <2>3. Sound(call)' => Sound(call)
    BY <1>2
  <2>4. ASSUME Sound(call) PROVE PackAt(u)'
    <3> DEFINE K(x) == {v \in Token : Sees(call, Tok(wave, x), v) /\ <<Tok(wave, x), v>> \in wave[x[1]].kept}
    <3>1. PackAt(u)' <=> \A x \in WaveRows(wave) : pack'[x] = Terms(s.b, Tok(wave, x), K(x))
      BY <1>2, <1>5, <1>8 DEF PackAt
    <3>2. \A x \in WaveRows(wave) : pack'[x] = Terms(s.b, Tok(wave, x), K(x))
      BY <1>11, <2>4
    <3>3. QED
      BY <3>1, <3>2
  <2>5. QED
    BY <1>5, <2>2, <2>3, <2>4 DEF PartAt
<1>16. At(u, p)'
  BY <1>3, <1>12, <1>13, <1>14, <1>15 DEF At
<1>17. QED
  BY <1>16 DEF SimInv

\* The sums of a wave are added to those of the waves before, or staged for the host.
LEMMA MergeKeeps ==
    ASSUME PoolInv, SimInv, Merge
    PROVE  SimInv'
<1>1. PICK s, p : At(s, p)
  BY DEF SimInv
<1> DEFINE wave == FwdWaves[call][s.w + 1]
           K(x) == KeysTo(call, s.w, x)
           L(x) == KeysIn(call, s.w + 1, x)
<1>2. /\ queue # <<>> /\ Head(queue).op = "merge" /\ queue' = Tail(queue)
      /\ UNCHANGED hostVars /\ UNCHANGED <<call, pool, pack, grad, b>>
  BY DEF Merge, Execute, hostVars
<1>3. PICK u : /\ Runs(call, s, Head(queue), u) /\ Linked(call, queue, u, HostPos(p))'
               /\ Resides(p)' /\ (DOMAIN p = Cells(call))'
  BY <1>1, <1>2, Executes DEF PoolInv
<1>4. /\ s.at = "packed" /\ s.w < Len(FwdWaves[call]) /\ Head(queue).w = s.w + 1
      /\ u = IF call.acc_gpu THEN Pos("wave", s.b, s.w + 1, s.pool) ELSE Pos("fold", s.b, s.w, s.pool)
  BY <1>2, <1>3 DEF Runs
<1>5. /\ call.acc_gpu => /\ acc' = [x \in Token |-> acc[x] (+) Merged(wave, x)] /\ part' = part
      /\ ~call.acc_gpu => /\ part' = [x \in Token |-> Merged(wave, x)] /\ acc' = acc
  BY <1>4 DEF Merge, Waves
<1>6. Position(call, s) /\ s.pool = pool
  BY <1>1 DEF At
<1>7. s.w \in Nat /\ s.w + 1 \in DOMAIN FwdWaves[call]
  BY <1>4, <1>6, HostAt DEF Position
<1>8. u.at \in {"wave", "fold"} /\ u.b = s.b /\ u.pool = pool
      /\ (call.acc_gpu => u.at = "wave" /\ u.w = s.w + 1)
      /\ (~call.acc_gpu => u.at = "fold" /\ u.w = s.w)
  BY <1>4, <1>6, PosIs
<1>9. ASSUME Sound(call), NEW x \in Token
      PROVE  Merged(wave, x) = SetToBag(Terms(s.b, x, L(x)))
  <2>1. PackAt(s)
    BY <1>1, <1>9 DEF At
  <2>2. \A y \in WaveRows(wave) :
           pack[y] = Terms(s.b, Tok(wave, y),
                           {v \in Token : Sees(call, Tok(wave, y), v) /\ <<Tok(wave, y), v>> \in wave[y[1]].kept})
    BY <1>4, <2>1 DEF PackAt
  <2>3. QED
    BY <1>7, <2>2, HostAt, MergedIs
<1>10. ASSUME Sound(call), NEW x \in Token PROVE acc[x] = SetToBag(Terms(s.b, x, K(x)))
  <2>1. AccAt(s)
    BY <1>1, <1>10 DEF At
  <2>2. QED
    BY <1>4, <2>1 DEF AccAt
<1>11. ASSUME Sound(call) PROVE AccAt(u)' /\ PartAt(u)' /\ PackAt(u)'
  <2>1. CASE call.acc_gpu
    <3>1. ASSUME NEW x \in Token
          PROVE  acc'[x] = SetToBag(Terms(s.b, x, KeysTo(call, s.w + 1, x)))
      <4>1. KeysTo(call, s.w + 1, x) = K(x) \cup L(x) /\ K(x) \cap L(x) = {}
        BY <1>7, HostAt, KeysAre
      <4>2. Merged(wave, x) = SetToBag(Terms(s.b, x, L(x))) /\ acc[x] = SetToBag(Terms(s.b, x, K(x)))
        BY <1>9, <1>10, <1>11
      <4>3. acc'[x] = acc[x] (+) Merged(wave, x)
        BY <1>5, <2>1
      <4> HIDE DEF K, L, wave
      <4>4. QED
        BY <4>1, <4>2, <4>3, SumsJoin
    <3>2. AccAt(u)'
      BY <1>2, <1>8, <2>1, <3>1 DEF AccAt
    <3>3. QED
      BY <1>8, <2>1, <3>2 DEF PartAt, PackAt
  <2>2. CASE ~call.acc_gpu
    <3>1. \A x \in Token : part'[x] = SetToBag(Terms(s.b, x, KeysIn(call, s.w + 1, x)))
      BY <1>5, <1>9, <1>11, <2>2
    <3>2. PartAt(u)'
      BY <1>2, <1>8, <2>2, <3>1 DEF PartAt
    <3>3. AccAt(u)'
      BY <1>2, <1>5, <1>8, <1>10, <1>11, <2>2 DEF AccAt
    <3>4. QED
      BY <1>8, <2>2, <3>2, <3>3 DEF PackAt
  <2>3. QED
    BY <2>1, <2>2
<1>12. (u.pool = pool)'
  BY <1>2, <1>8
<1>13. Position(call, u)'
  <2>1. Position(call, u)
    BY <1>3, HostAt, RunsTo
  <2>2. QED
    BY <1>2, <2>1 DEF Position, Cells
<1>14. GradAt(u)'
  <2>1. GradAt(s)
    BY <1>1 DEF At
  <2>2. \A x \in 0 .. call.batch - 1 : BackwardDone(u, x) = BackwardDone(s, x)
    BY <1>4, <1>8, HostAt, GradNext
  <2>3. GradAt(u)
    BY <2>1, <2>2 DEF GradAt
  <2>4. QED
    BY <1>2, <2>3, GradStays
<1>15. Sound(call)' => Sound(call)
  BY <1>2
<1>16. At(u, p)'
  BY <1>3, <1>11, <1>12, <1>13, <1>14, <1>15 DEF At
<1>17. QED
  BY <1>16 DEF SimInv

\* The sums of a batch are copied out.
LEMMA CopyOutKeeps ==
    ASSUME PoolInv, SimInv, OutInv, CopyOut
    PROVE  SimInv' /\ OutInv'
<1>1. PICK s, p : At(s, p)
  BY DEF SimInv
<1>2. /\ queue # <<>> /\ Head(queue).op = "out" /\ queue' = Tail(queue)
      /\ UNCHANGED hostVars /\ UNCHANGED <<call, pool, pack, part, grad, acc, b>>
      /\ out' = [out EXCEPT ![Head(queue).b] = acc]
  BY DEF CopyOut, Execute, hostVars, deviceVars
<1>3. PICK u : /\ Runs(call, s, Head(queue), u) /\ Linked(call, queue, u, HostPos(p))'
               /\ Resides(p)' /\ (DOMAIN p = Cells(call))'
  BY <1>1, <1>2, Executes DEF PoolInv
<1>4. /\ s.at = "wave" /\ s.w = Len(FwdWaves[call]) /\ Head(queue).b = s.b /\ u = NextBatch(call, s)
  BY <1>2, <1>3 DEF Runs
<1>5. u.at \in {"zero", "backward", "done"} /\ u.pool = s.pool
  BY <1>4, PosIs DEF NextBatch
<1>6. Position(call, s) /\ s.pool = pool /\ GradAt(s) /\ (Sound(call) => AccAt(s))
  BY <1>1 DEF At
<1>7. OutInv'
  BY <1>2, <1>4, <1>6, OutJoins
<1>8. Position(call, u)'
  <2>1. Position(call, u)
    BY <1>3, HostAt, RunsTo
  <2>2. QED
    BY <1>2, <2>1 DEF Position, Cells
<1>9. GradAt(u)'
  <2>1. \A x \in 0 .. call.batch - 1 : BackwardDone(u, x) = BackwardDone(s, x)
    <3>1. call \in Calls /\ s.at \in {"zero", "wave", "packed", "fold"} /\ u = NextBatch(call, s)
      BY <1>4, HostAt
    <3>2. QED
      BY ONLY <3>1, GradNext
  <2>2. GradAt(u)
    BY <1>6, <2>1 DEF GradAt
  <2>3. QED
    BY <1>2, <2>2, GradStays
<1>10. AccAt(u)' /\ PackAt(u)' /\ PartAt(u)'
  BY <1>5 DEF AccAt, PackAt, PartAt
<1>11. (u.pool = pool)'
  BY <1>2, <1>5, <1>6
<1>12. At(u, p)'
  BY <1>3, <1>8, <1>9, <1>10, <1>11 DEF At
<1>13. QED
  BY <1>7, <1>12 DEF SimInv

\* A wave of the backward adds the products of its pairs.
LEMMA BackwardKeeps ==
    ASSUME PoolInv, SimInv, BackwardKernel
    PROVE  SimInv'
<1>1. PICK s, p : At(s, p)
  BY DEF SimInv
<1> DEFINE op == Head(queue)
           add == SetToBag(Products(PairsIn(call, op.w)))
           n == Len(BwdWaves[call])
<1>2. /\ queue # <<>> /\ op.op = "backward" /\ queue' = Tail(queue)
      /\ UNCHANGED hostVars /\ UNCHANGED <<call, pool, pack, part, acc, b>>
  BY DEF BackwardKernel, Execute, hostVars
<1>3. PICK u : /\ Runs(call, s, Head(queue), u) /\ Linked(call, queue, u, HostPos(p))'
               /\ Resides(p)' /\ (DOMAIN p = Cells(call))'
  BY <1>1, <1>2, Executes DEF PoolInv
<1>4. /\ call.kernel = "cuda" /\ s.at = "backward" /\ s.w < n /\ op.b = s.b /\ op.w = s.w + 1
      /\ u = NextBackward(call, s)
  BY <1>2, <1>3 DEF Runs
<1>5. Position(call, s) /\ s.pool = pool /\ GradAt(s)
  BY <1>1 DEF At
<1>6. s.w \in Nat /\ op.w \in DOMAIN BwdWaves[call] /\ s.b \in 0 .. call.batch - 1 /\ n \in Nat
      /\ call.batch \in Nat
  BY <1>4, <1>5, HostAt DEF Position
<1>7. grad' = [grad EXCEPT ![s.b] = @ (+) add]
  <2> DEFINE wave    == BwdWaves[call][op.w]
             pairs   == UNION {{x} \X Attended(wave, x) : x \in WaveRows(wave)}
             term(e) == <<Tok(wave, e[1]), Tok(wave, e[2]), Dpsum(wave, e[1])>>
  <2>1. grad' = [grad EXCEPT ![op.b] = @ (+) BagOf(term, pairs)]
    BY DEF BackwardKernel, Scattered
  <2>2. BagOf(term, pairs) = add
    BY <1>6, HostAt, BackwardIs
  <2> HIDE DEF term, pairs, wave, add, op
  <2>3. QED
    BY <1>4, <2>1, <2>2
<1> HIDE DEF op
<1>8. u.pool = s.pool /\ u.at \in {"backward", "done"}
  BY <1>4, PosIs DEF NextBackward
<1>9. \A x \in 0 .. call.batch - 1 :
         BackwardDone(u, x) = IF x = s.b THEN s.w + 1 ELSE BackwardDone(s, x)
  <2> SUFFICES ASSUME NEW x \in 0 .. call.batch - 1
               PROVE  BackwardDone(u, x) = IF x = s.b THEN s.w + 1 ELSE BackwardDone(s, x)
    OBVIOUS
  <2>1. BackwardDone(s, x) = IF x < s.b THEN n ELSE IF x = s.b THEN s.w ELSE 0
    BY <1>4 DEF BackwardDone
  <2>2. CASE s.w + 1 < n
    <3>1. u.at = "backward" /\ u.b = s.b /\ u.w = s.w + 1
      BY <1>4, <2>2, PosIs DEF NextBackward
    <3>2. BackwardDone(u, x) = IF x < s.b THEN n ELSE IF x = s.b THEN s.w + 1 ELSE 0
      BY <1>4, <3>1 DEF BackwardDone
    <3>3. QED
      BY <1>6, <2>1, <3>2
  <2>3. CASE ~(s.w + 1 < n) /\ s.b + 1 < call.batch
    <3>1. u.at = "backward" /\ u.b = s.b + 1 /\ u.w = 0
      BY <1>4, <2>3, PosIs DEF NextBackward
    <3>2. BackwardDone(u, x) = IF x < s.b + 1 THEN n ELSE 0
      BY <1>4, <3>1 DEF BackwardDone
    <3>3. n = s.w + 1
      BY <1>4, <1>6, <2>3
    <3> HIDE DEF n
    <3>4. QED
      BY <1>6, <2>1, <3>2, <3>3
  <2>4. CASE ~(s.w + 1 < n) /\ ~(s.b + 1 < call.batch)
    <3>1. u.at = "done"
      BY <1>4, <2>4, PosIs DEF NextBackward
    <3>2. BackwardDone(u, x) = n
      BY <1>4, <3>1 DEF BackwardDone
    <3>3. n = s.w + 1
      BY <1>4, <1>6, <2>4
    <3> HIDE DEF n
    <3>4. x <= s.b
      BY <1>6, <2>4
    <3>5. QED
      BY <1>6, <2>1, <3>2, <3>3, <3>4
  <2>5. QED
    BY <2>2, <2>3, <2>4
<1>10. GradAt(u)'
  <2>1. PairsTo(call, s.w + 1) = PairsTo(call, s.w) \cup PairsIn(call, s.w + 1)
        /\ PairsTo(call, s.w) \cap PairsIn(call, s.w + 1) = {}
    BY <1>4, <1>6, HostAt, PairsAre
  <2>2. PairsTo(call, s.w) \subseteq Pairs /\ PairsIn(call, s.w + 1) \subseteq Pairs
    BY DEF PairsTo, PairsIn
  <2>3. BackwardDone(s, s.b) = s.w
    <3>1. ~(s.b < s.b) /\ s.at # "done"
      BY <1>4, <1>6
    <3>2. QED
      BY <1>4, <3>1 DEF BackwardDone
  <2>4. grad[s.b] = SetToBag(Products(PairsTo(call, s.w)))
    BY <1>5, <1>6, <2>3 DEF GradAt
  <2>5. add = SetToBag(Products(PairsIn(call, s.w + 1)))
    BY <1>4
  <2> HIDE DEF add
  <2>6. grad[s.b] (+) add = SetToBag(Products(PairsTo(call, s.w + 1)))
    BY <2>1, <2>2, <2>4, <2>5, SumsJoin
  <2>7. DOMAIN grad = 0 .. call.batch - 1
    BY DEF PoolInv, TypeInv, DeviceInv
  <2>8. ASSUME NEW x \in 0 .. call.batch - 1
        PROVE  grad'[x] = SetToBag(Products(PairsTo(call, BackwardDone(u, x))))
    <3>1. CASE x = s.b
      BY <3>1, <1>7, <1>9, <2>6, <2>7
    <3>2. CASE x # s.b
      <4>1. grad'[x] = grad[x] /\ BackwardDone(u, x) = BackwardDone(s, x)
        BY <3>2, <1>7, <1>9, <2>7
      <4>2. QED
        BY <4>1, <1>5 DEF GradAt
    <3>3. QED
      BY <3>1, <3>2
  <2>9. \A x : BackwardDone(u, x)' = BackwardDone(u, x)
    BY <1>2 DEF BackwardDone
  <2>10. QED
    BY <1>2, <2>8, <2>9 DEF GradAt
<1>11. AccAt(u)' /\ PackAt(u)' /\ PartAt(u)'
  BY <1>8 DEF AccAt, PackAt, PartAt
<1>12. Position(call, u)'
  <2>1. Position(call, u)
    BY <1>3, HostAt, RunsTo
  <2>2. QED
    BY <1>2, <2>1 DEF Position, Cells
<1>13. (u.pool = pool)'
  BY <1>2, <1>5, <1>8
<1>14. At(u, p)'
  BY <1>3, <1>10, <1>11, <1>12, <1>13 DEF At
<1>15. QED
  BY <1>14 DEF SimInv

\* With accumulators on the host nothing is issued ahead of a fold.
LEMMA QuietStays ==
    ASSUME PoolInv, QuietInv, [Next]_vars
    PROVE  QuietInv'
<1> SUFFICES ASSUME ~call'.acc_gpu, pc' \in {"zero", "wave"} PROVE queue' = <<>>
  BY DEF QuietInv
<1>1. call' = call
  BY DEF Next, HostStep, DeviceStep, ZeroAcc, BeginLoad, CopyChunk, Launch, Fold, Output, IssueBackward,
         Zero, HostToDevice, ForwardKernel, Merge, CopyOut, BackwardKernel, Complete, vars, hostVars
<1>2. CASE HostStep
  <2>1. CASE ZeroAcc
    BY <1>1, <2>1 DEF ZeroAcc, QuietInv
  <2>2. CASE BeginLoad
    BY <2>2 DEF BeginLoad
  <2>3. CASE CopyChunk
    BY <2>3 DEF CopyChunk
  <2>4. CASE Launch
    BY <1>1, <2>4 DEF Launch
  <2>5. CASE Fold
    BY <2>5 DEF Fold, Synchronized
  <2>6. CASE Output
    BY <1>1, <2>6 DEF Output, QuietInv
  <2>7. CASE IssueBackward
    BY <2>7 DEF IssueBackward
  <2>8. QED
    BY <1>2, <2>1, <2>2, <2>3, <2>4, <2>5, <2>6, <2>7 DEF HostStep
<1>3. CASE DeviceStep
  <2>1. queue # <<>> /\ pc' = pc
    BY <1>3 DEF DeviceStep, Zero, HostToDevice, ForwardKernel, Merge, CopyOut, BackwardKernel, Execute, hostVars
  <2>2. QED
    BY <1>1, <2>1 DEF QuietInv
<1>4. CASE UNCHANGED vars
  BY <1>4 DEF vars, hostVars, QuietInv
<1>5. QED
  BY <1>2, <1>3, <1>4 DEF Next, Complete

WaveInv == PoolInv /\ QuietInv /\ SimInv /\ OutInv

LEMMA WaveStart == Init => WaveInv
<1> SUFFICES ASSUME Init PROVE WaveInv
  OBVIOUS
<1>1. PoolInv
  BY PoolStart
<1>2. QuietInv
  BY DEF Init, QuietInv
<1>3. OutInv
  BY DEF Init, OutInv, ReturnedExact
<1>4. PICK s, p : s = Pos("zero", 0, 0, pool) /\ p = pool
  OBVIOUS
<1>5. s.at = "zero" /\ s.b = 0 /\ s.w = 0 /\ s.pool = pool
  BY <1>4, PosIs
<1>6. pc = "zero" /\ b = 0 /\ issued = 0 /\ queue = <<>> /\ slot_of = [k \in Chunk |-> -1]
      /\ grad = [x \in 0 .. call.batch - 1 |-> EmptyBag]
  BY DEF Init
<1>7. DOMAIN pool = Cells(call) /\ call \in Calls /\ call.batch \in Nat \ {0}
  BY <1>1, HostAt
<1>8. Position(call, s)
  BY <1>5, <1>7 DEF Position
<1>9. Linked(call, queue, s, HostPos(p))
  BY <1>4, <1>6, Idle DEF HostPos
<1>10. Resides(p)
  BY <1>6 DEF Resides
<1>11. GradAt(s)
  <2>1. \A x : BackwardDone(s, x) = 0
    BY <1>5 DEF BackwardDone
  <2>2. Products(PairsTo(call, 0)) = {}
    BY <1>7, PairsAre DEF Products
  <2>3. QED
    BY <1>6, <2>1, <2>2, BagsEqual DEF GradAt
<1>12. AccAt(s) /\ PackAt(s) /\ PartAt(s)
  BY <1>5 DEF AccAt, PackAt, PartAt
<1>13. At(s, p)
  BY <1>4, <1>5, <1>7, <1>8, <1>9, <1>10, <1>11, <1>12 DEF At
<1>14. QED
  BY <1>1, <1>2, <1>3, <1>13 DEF WaveInv, SimInv

LEMMA WaveStays == WaveInv /\ [Next]_vars => WaveInv'
<1> SUFFICES ASSUME WaveInv, [Next]_vars PROVE WaveInv'
  OBVIOUS
<1> USE DEF WaveInv
<1>1. PoolInv'
  BY PoolStays
<1>2. QuietInv'
  BY QuietStays
<1>3. ASSUME UNCHANGED <<call, out>> PROVE OutInv'
  BY <1>3, OutKeeps
<1>4. SimInv' /\ OutInv'
  <2>1. CASE ZeroAcc
    BY <1>3, <2>1, ZeroAccKeeps DEF ZeroAcc
  <2>2. CASE BeginLoad
    BY <1>3, <2>2, BeginLoadKeeps DEF BeginLoad
  <2>3. CASE CopyChunk
    BY <1>3, <2>3, CopyChunkKeeps DEF CopyChunk
  <2>4. CASE Launch
    BY <1>3, <2>4, LaunchKeeps DEF Launch
  <2>5. CASE Fold
    BY <1>3, <2>5, FoldKeeps DEF Fold
  <2>6. CASE Output
    BY <2>6, OutputKeeps
  <2>7. CASE IssueBackward
    BY <1>3, <2>7, IssueBackwardKeeps DEF IssueBackward
  <2>8. CASE Zero
    BY <1>3, <2>8, ZeroKeeps DEF Zero, hostVars
  <2>9. CASE HostToDevice
    BY <1>3, <2>9, HostToDeviceKeeps DEF HostToDevice, hostVars
  <2>10. CASE ForwardKernel
    BY <1>3, <2>10, ForwardKeeps DEF ForwardKernel, hostVars
  <2>11. CASE Merge
    BY <1>3, <2>11, MergeKeeps DEF Merge, hostVars
  <2>12. CASE CopyOut
    BY <2>12, CopyOutKeeps
  <2>13. CASE BackwardKernel
    BY <1>3, <2>13, BackwardKeeps DEF BackwardKernel, hostVars
  <2>14. CASE UNCHANGED vars
    <3>1. UNCHANGED <<call, pc, b, issued, slot_of, todo, queue, pool, pack, part, grad, acc, out>>
      BY <2>14 DEF vars, hostVars, deviceVars
    <3>2. PICK s, p : At(s, p)
      BY DEF SimInv
    <3>3. Linked(call, queue', s, HostPos(p)') /\ Resides(p)' /\ DOMAIN p = Cells(call)
      BY <3>1, <3>2 DEF At, HostPos, Resides
    <3>4. At(s, p)'
      BY <3>1, <3>2, <3>3, Issues
    <3>5. QED
      BY <1>3, <3>1, <3>4 DEF SimInv
  <2>15. QED
    BY <2>1, <2>2, <2>3, <2>4, <2>5, <2>6, <2>7, <2>8, <2>9, <2>10, <2>11, <2>12, <2>13, <2>14
       DEF Next, HostStep, DeviceStep, Complete
<1>5. QED
  BY <1>1, <1>2, <1>4

LEMMA WaveHolds == Spec => []WaveInv
  BY WaveStart, WaveStays, PTL DEF Spec

-----------------------------------------------------------------------------
\* Every row that is returned sums each key of its mask exactly once, with the rows of its
\* own batch element (wave_forward): for every length, decomposition and block size, every
\* grouping into waves, either layout, inputs and accumulators on the host or the device,
\* and every order of the host and the stream.  Left out are the two defects the
\* violations show: host inputs of more than one batch element, and accumulators on the
\* host with a wave whose token has no key yet.
THEOREM ReturnsExact == Spec => [](Sound(call) => ReturnedExact)
<1>1. WaveInv => (Sound(call) => ReturnedExact)
  BY DEF WaveInv, OutInv
<1>2. QED
  BY <1>1, WaveHolds, PTL

\* The gradients get each kept pair exactly once, with the dpsum of its query, through a
\* depth and waves of their own (wave_backward): for every call.
THEOREM GradientsSum == Spec => []GradientsExact
<1>1. WaveInv => GradientsExact
  <2> SUFFICES ASSUME WaveInv, Returned, call.kernel = "cuda", NEW x \in DOMAIN grad
               PROVE  grad[x] = SetToBag({<<u[1], u[2], {u[1]}>> :
                           u \in {u \in Token \X Token : call.causal => u[2] <= u[1]}})
    BY DEF GradientsExact
  <2>1. PICK s, p : At(s, p)
    BY DEF WaveInv, SimInv
  <2>2. s = HostPos(p) /\ pc = "done"
    BY <2>1, Idle DEF At, Returned
  <2>3. s.at = "done"
    BY <2>2, PosIs DEF HostPos
  <2>4. BackwardDone(s, x) = Len(BwdWaves[call])
    BY <2>3 DEF BackwardDone
  <2>5. x \in 0 .. call.batch - 1
    BY DEF WaveInv, PoolInv, TypeInv, DeviceInv
  <2>6. grad[x] = SetToBag(Products(PairsTo(call, Len(BwdWaves[call]))))
    BY <2>1, <2>4, <2>5 DEF At, GradAt
  <2>7. PairsTo(call, Len(BwdWaves[call])) = {u \in Pairs : Sees(call, u[1], u[2])}
    BY HostAt, PairsAre DEF WaveInv
  <2>8. {u \in Pairs : Sees(call, u[1], u[2])} = {u \in Token \X Token : call.causal => u[2] <= u[1]}
    BY DEF Pairs, Sees
  <2>9. QED
    BY <2>6, <2>7, <2>8 DEF Products
<1>2. QED
  BY <1>1, WaveHolds, PTL
=============================================================================
