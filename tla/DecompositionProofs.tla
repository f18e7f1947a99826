------------------------- MODULE DecompositionProofs -------------------------
(***************************************************************************)
(* Lemmas about the decomposition and the task lists, for every difference *)
(* set, sequence length, alignment and depth.  The result the schedules    *)
(* rest on is ChildrenPartition: the kept pairs of the children of a       *)
(* subproblem partition the kept pairs of the subproblem.                  *)
(*                                                                         *)
(* Induction is over the naturals as a set: a property is the set of       *)
(* numbers it holds of.  A recursive function is a CHOOSE, so each of them *)
(* is first shown to exist, by induction on the depth it is needed to.     *)
(***************************************************************************)
EXTENDS TaskTree, FiniteSetTheorems, SequenceTheorems, WellFoundedInduction, TLAPS

-----------------------------------------------------------------------------
\* Every non-empty set of naturals has a least element.
LEMMA LeastNatural ==
    ASSUME NEW T, T \subseteq Nat, T # {}
    PROVE  \E k \in T : \A m \in T : k <= m
<1> DEFINE R == {ss \in Nat \X Nat : ss[1] < ss[2]}
<1>1. IsWellFoundedOn(R, Nat)
  BY NatLessThanWellFounded, Zenon DEF OpToRel
<1>2. \A m, k \in Nat : <<m, k>> \notin R => k <= m
  OBVIOUS
<1> HIDE DEF R
<1>3. \E k \in T : \A m \in T : <<m, k>> \notin R
  BY <1>1, WFMin, Zenon
<1>4. QED
  BY <1>2, <1>3

\* Induction over the naturals.
LEMMA Induction ==
    ASSUME NEW H, 0 \in H, \A n \in Nat : n \in H => n + 1 \in H
    PROVE  \A n \in Nat : n \in H
<1> SUFFICES ASSUME Nat \ H # {} PROVE FALSE
  OBVIOUS
<1>1. PICK m \in Nat \ H : \A k \in Nat \ H : m <= k
  BY LeastNatural
<1>2. m - 1 \in Nat /\ ~(m <= m - 1)
  BY <1>1
<1>3. QED
  BY <1>1, <1>2

\* Every non-empty finite set of naturals has a largest element.
LEMMA LargestNatural ==
    ASSUME NEW T, T \subseteq Nat, IsFiniteSet(T), T # {}
    PROVE  \E m \in T : \A x \in T : x <= m
<1> DEFINE H == {n \in Nat : \A U \in SUBSET Nat :
                    IsFiniteSet(U) /\ Cardinality(U) = n /\ U # {} =>
                        \E m \in U : \A x \in U : x <= m}
<1>1. 0 \in H
  BY FS_EmptySet
<1>2. ASSUME NEW n \in Nat, n \in H PROVE n + 1 \in H
  <2> SUFFICES ASSUME NEW U \in SUBSET Nat, IsFiniteSet(U), Cardinality(U) = n + 1, U # {}
               PROVE  \E m \in U : \A x \in U : x <= m
    OBVIOUS
  <2>1. PICK u \in U : TRUE
    OBVIOUS
  <2> DEFINE V == U \ {u}
  <2>2. IsFiniteSet(V) /\ Cardinality(V) = n /\ V \in SUBSET Nat
    <3>1. IsFiniteSet(U \ {u}) /\ Cardinality(U \ {u}) = Cardinality(U) - 1
      BY <2>1, FS_RemoveElement
    <3>2. QED
      BY <3>1
  <2>3. CASE V = {}
    BY <2>1, <2>3
  <2>4. CASE V # {}
    <3>1. PICK m \in V : \A x \in V : x <= m
      BY <1>2, <2>2, <2>4
    <3>2. CASE u <= m
      BY <2>1, <3>1, <3>2
    <3>3. CASE ~(u <= m)
      <4>1. \A x \in U : x <= u
        BY <2>1, <3>1, <3>3
      <4>2. QED
        BY <2>1, <4>1
    <3>4. QED
      BY <3>2, <3>3
  <2>5. QED
    BY <2>3, <2>4
<1> HIDE DEF H
<1>3. Cardinality(T) \in Nat
  BY FS_CardinalityType
<1>4. Cardinality(T) \in H
  BY <1>1, <1>2, <1>3, Induction
<1>5. QED
  BY <1>4 DEF H

\* A residue modulo C of a number within one period of the chunk range.
LEMMA ModCases ==
    ASSUME NEW n \in Int, -C <= n, n < 2*C
    PROVE  n % C = IF n < 0 THEN n + C ELSE IF n < C THEN n ELSE n - C
  BY DecompositionAssumption

-----------------------------------------------------------------------------
\* The quorum of owner j holds chunk x iff the offset from j to x, taken
\* modulo C, is in the interest set.
LEMMA QuorumMember ==
    ASSUME NEW x \in Chunk, NEW j \in Chunk
    PROVE  x \in QuorumChunks(j) <=> (x - j) % C \in InterestSet
<1> USE DecompositionAssumption DEF Chunk
<1>1. ASSUME NEW off \in InterestSet
      PROVE  (j + off) % C = x <=> off = (x - j) % C
  <2>1. (j + off) % C = IF j + off < C THEN j + off ELSE j + off - C
    BY ModCases
  <2>2. (x - j) % C = IF x - j < 0 THEN x - j + C ELSE x - j
    BY ModCases
  <2>3. QED
    BY <2>1, <2>2
<1>2. QED
  BY <1>1 DEF QuorumChunks

\* The owner gathers its own chunk, which is why its diagonal block survives.
LEMMA OwnerGathered ==
    ASSUME NEW j \in Chunk
    PROVE  j \in QuorumChunks(j)
<1>1. (j - j) % C = 0
  BY ModCases, DecompositionAssumption DEF Chunk
<1>2. QED
  BY <1>1, QuorumMember, OwnerAssumption

\* Two distinct chunks are gathered together by exactly one owner.
LEMMA QuorumPair ==
    ASSUME NEW x \in Chunk, NEW y \in Chunk, x # y
    PROVE  \E j \in Chunk :
              /\ x \in QuorumChunks(j) /\ y \in QuorumChunks(j)
              /\ \A i \in Chunk :
                    x \in QuorumChunks(i) /\ y \in QuorumChunks(i) => i = j
<1> USE DecompositionAssumption DEF Chunk
<1> DEFINE d == (x - y) % C
<1>1. d = IF x - y < 0 THEN x - y + C ELSE x - y
  BY ModCases
<1>2. d \in 1 .. C-1
  BY <1>1
<1>3. PICK a \in InterestSet, b \in InterestSet :
          /\ a # b /\ (a - b) % C = d
          /\ \A p, q \in InterestSet :
                 p # q /\ (p - q) % C = d => p = a /\ q = b
  BY <1>2 DEF PerfectDifferenceSet
<1> DEFINE j == (x - a) % C
<1>4. j = IF x - a < 0 THEN x - a + C ELSE x - a
  BY ModCases
<1>5. j \in Chunk
  BY <1>4
<1>6. \A i \in Chunk :
        /\ (x - i) % C = IF x - i < 0 THEN x - i + C ELSE x - i
        /\ (y - i) % C = IF y - i < 0 THEN y - i + C ELSE y - i
  BY ModCases
<1>7. (a - b) % C = IF a - b < 0 THEN a - b + C ELSE a - b
  BY ModCases
<1> HIDE DEF j, d
<1>8. (x - j) % C = a /\ (y - j) % C = b
  <2>1. a \in Chunk /\ b \in Chunk
    OBVIOUS
  <2>2. /\ (x - j) % C = IF x - j < 0 THEN x - j + C ELSE x - j
        /\ (y - j) % C = IF y - j < 0 THEN y - j + C ELSE y - j
    BY <1>5, <1>6
  <2>3. (IF a - b < 0 THEN a - b + C ELSE a - b) = (IF x - y < 0 THEN x - y + C ELSE x - y)
    BY <1>1, <1>3, <1>7
  <2>4. QED
    BY <1>4, <1>5, <2>1, <2>2, <2>3
<1>9. ASSUME NEW i \in Chunk, x \in QuorumChunks(i), y \in QuorumChunks(i)
      PROVE  i = j
  <2> DEFINE p == (x - i) % C
             q == (y - i) % C
  <2>1. p \in InterestSet /\ q \in InterestSet
    BY <1>9, QuorumMember
  <2>2. /\ p = IF x - i < 0 THEN x - i + C ELSE x - i
        /\ q = IF y - i < 0 THEN y - i + C ELSE y - i
    BY <1>6
  <2>3. (p - q) % C = IF p - q < 0 THEN p - q + C ELSE p - q
    BY <2>1, ModCases
  <2> HIDE DEF p, q
  <2>4. p # q /\ (p - q) % C = d
    BY <1>1, <2>1, <2>2, <2>3
  <2>5. p = a
    BY <1>3, <2>1, <2>4
  <2>6. QED
    BY <1>4, <2>2, <2>5
<1>10. QED
  BY <1>5, <1>8, <1>9, QuorumMember

-----------------------------------------------------------------------------
\* A local sequence is cut into chunks that leave no position out.
LEMMA ChunkAtType ==
    ASSUME NEW L \in Nat, NEW p \in 0 .. L-1
    PROVE  /\ ChunkAt(L, p) \in Chunk
           /\ ChunkStart(L, ChunkAt(L, p)) <= p
           /\ p < ChunkEnd(L, ChunkAt(L, p))
<1> USE DecompositionAssumption
<1> DEFINE T == {k \in Chunk : p < ChunkEnd(L, k)}
<1>1. C-1 \in T
  BY DEF ChunkEnd, Chunk
<1>2. PICK k \in T : \A m \in T : k <= m
  <2>1. T \subseteq Nat /\ T # {}
    BY <1>1 DEF Chunk
  <2> HIDE DEF T
  <2>2. QED
    BY <2>1, LeastNatural
<1>3. ChunkStart(L, k) <= p
  <2>1. CASE k = 0
    <3>1. L \div Align \in Nat
      OBVIOUS
    <3>2. (L \div Align) \div C \in Nat /\ (L \div Align) % C \in Nat
      BY <3>1
    <3> DEFINE nb == L \div Align
               q == nb \div C
               r == nb % C
    <3>3. ChunkStart(L, k) = Align * (k * q + (IF k < r THEN k ELSE r))
      BY DEF ChunkStart
    <3> HIDE DEF q, r
    <3>4. k * q + (IF k < r THEN k ELSE r) = 0
      BY <2>1, <3>2 DEF q, r
    <3>5. QED
      BY <3>3, <3>4
  <2>2. CASE k # 0
    <3>1. k - 1 \in Chunk /\ k - 1 # C - 1 /\ (k - 1) + 1 = k
      BY <2>2 DEF Chunk
    <3>2. k - 1 \notin T
      BY <1>2, <3>1 DEF Chunk
    <3>3. ~(p < ChunkEnd(L, k - 1))
      BY <3>1, <3>2
    <3>4. ChunkEnd(L, k - 1) = ChunkStart(L, k)
      BY <3>1 DEF ChunkEnd
    <3>5. ChunkStart(L, k) \in Int
      BY DEF ChunkStart, Chunk
    <3>6. QED
      BY <3>3, <3>4, <3>5
  <2>3. QED
    BY <2>1, <2>2
<1>4. \E m \in Chunk : ChunkStart(L, m) <= p /\ p < ChunkEnd(L, m)
  BY <1>2, <1>3
<1>5. QED
  BY <1>4, Zenon DEF ChunkAt

\* The rank of a token of a finite set is a local position of that set.
LEMMA RankType ==
    ASSUME NEW S, S \subseteq Token, NEW u \in S
    PROVE  /\ Cardinality(S) \in Nat
           /\ Rank(S, u) \in 0 .. Cardinality(S) - 1
<1> DEFINE B == {w \in S : w < u}
<1>1. IsFiniteSet(S)
  <2>1. IsFiniteSet(Token)
    BY FS_Interval, DecompositionAssumption DEF Token
  <2>2. QED
    BY <2>1, FS_Subset
<1>2. IsFiniteSet(S \ {u}) /\ Cardinality(S \ {u}) = Cardinality(S) - 1
  BY <1>1, FS_RemoveElement
<1>3. B \subseteq S \ {u}
  BY DEF Token
<1>4. IsFiniteSet(B) /\ Cardinality(B) <= Cardinality(S) - 1
  BY <1>2, <1>3, FS_Subset
<1>5. Cardinality(B) \in Nat /\ Cardinality(S) \in Nat
  BY <1>1, <1>4, FS_CardinalityType
<1>6. Rank(S, u) = Cardinality(B)
  BY DEF Rank
<1> HIDE DEF B
<1>7. QED
  BY <1>4, <1>5, <1>6

\* Every token of a subproblem has a chunk at the next level.
LEMMA LabelType ==
    ASSUME NEW t, WellFormed(t), NEW u \in t.tokens
    PROVE  Label(t, u) \in Chunk
<1>1. t.tokens \subseteq Token
  BY DEF WellFormed
<1>2. /\ Cardinality(t.tokens) \in Nat
      /\ Rank(t.tokens, u) \in 0 .. Cardinality(t.tokens) - 1
  BY <1>1, RankType
<1>3. QED
  BY <1>2, ChunkAtType DEF Label

-----------------------------------------------------------------------------
\* A child is a well-formed subproblem of the tokens of its parent.
LEMMA ChildWellFormed ==
    ASSUME NEW t, WellFormed(t), NEW j \in Chunk
    PROVE  WellFormed(Child(t, j)) /\ Child(t, j).tokens \subseteq t.tokens
<1> DEFINE n == Len(t.path)
           S == {u \in t.tokens : Label(t, u) \in QuorumChunks(j)}
           group(u) == {<<n + 1, Label(t, u)>>} \ {<<n + 1, j>>}
           b == [u \in S |-> t.bits[u] \cup group(u)]
<1>1. Child(t, j) = [path |-> Append(t.path, j), tokens |-> S, bits |-> b]
  BY DEF Child
<1>2. /\ Append(t.path, j) \in Seq(Chunk)
      /\ Len(Append(t.path, j)) = n + 1
      /\ n \in Nat
  BY DEF WellFormed
<1>3. S \subseteq t.tokens /\ t.tokens \subseteq Token
  BY DEF WellFormed
<1>4. ASSUME NEW u \in S
      PROVE  t.bits[u] \cup group(u) \in SUBSET ((1 .. n + 1) \X Chunk)
  <2>1. t.bits[u] \subseteq (1 .. n) \X Chunk
    BY <1>3 DEF WellFormed
  <2>2. (1 .. n) \X Chunk \subseteq (1 .. n + 1) \X Chunk
    BY <1>2
  <2>3. group(u) \subseteq (1 .. n + 1) \X Chunk
    BY <1>2, LabelType
  <2>4. QED
    BY <2>1, <2>2, <2>3
<1>5. b \in [S -> SUBSET ((1 .. n + 1) \X Chunk)]
  BY <1>4
<1> HIDE DEF S, b, n
<1>6. QED
  BY <1>1, <1>2, <1>3, <1>5 DEF WellFormed

\* What a child keeps: the pairs of its parent whose two chunks are gathered by
\* the child's owner, except the diagonal blocks of the other chunks.
LEMMA ChildKept ==
    ASSUME NEW t, WellFormed(t), NEW j \in Chunk, NEW p
    PROVE  p \in Kept(Child(t, j)) <=>
              /\ p \in Kept(t)
              /\ Label(t, p[1]) \in QuorumChunks(j)
              /\ Label(t, p[2]) \in QuorumChunks(j)
              /\ Label(t, p[1]) = Label(t, p[2]) => Label(t, p[1]) = j
<1> DEFINE n == Len(t.path)
           S == {u \in t.tokens : Label(t, u) \in QuorumChunks(j)}
           group(u) == {<<n + 1, Label(t, u)>>} \ {<<n + 1, j>>}
           b == [u \in S |-> t.bits[u] \cup group(u)]
<1>1. Child(t, j) = [path |-> Append(t.path, j), tokens |-> S, bits |-> b]
  BY DEF Child
<1>2. p \in Kept(Child(t, j)) <=> p \in S \X S /\ b[p[1]] \cap b[p[2]] = {}
  BY <1>1 DEF Kept
<1>3. p \in Kept(t) <=> p \in t.tokens \X t.tokens /\ t.bits[p[1]] \cap t.bits[p[2]] = {}
  BY DEF Kept
<1>4. p \in S \X S <=> /\ p \in t.tokens \X t.tokens
                       /\ Label(t, p[1]) \in QuorumChunks(j)
                       /\ Label(t, p[2]) \in QuorumChunks(j)
  OBVIOUS
<1>5. ASSUME NEW u \in S, NEW v \in S
      PROVE  b[u] \cap b[v] = {} <=>
                /\ t.bits[u] \cap t.bits[v] = {}
                /\ Label(t, u) = Label(t, v) => Label(t, u) = j
  <2>1. b[u] = t.bits[u] \cup group(u) /\ b[v] = t.bits[v] \cup group(v)
    OBVIOUS
  <2>2. n \in Nat
    BY DEF WellFormed
  <2>3. ASSUME NEW x, NEW w \in S PROVE <<n + 1, x>> \notin t.bits[w]
    <3>1. t.bits[w] \subseteq (1 .. n) \X Chunk
      BY DEF WellFormed
    <3>2. <<n + 1, x>> \notin (1 .. n) \X Chunk
      BY <2>2
    <3>3. QED
      BY <3>1, <3>2
  <2>4. t.bits[u] \cap group(v) = {} /\ group(u) \cap t.bits[v] = {}
    BY <2>3
  <2>5. group(u) \cap group(v) = {} <=> (Label(t, u) = Label(t, v) => Label(t, u) = j)
    <3>1. \A y, z : <<n + 1, y>> = <<n + 1, z>> <=> y = z
      OBVIOUS
    <3>2. \A w, e : e \in group(w) <=> e = <<n + 1, Label(t, w)>> /\ e # <<n + 1, j>>
      OBVIOUS
    <3>3. group(u) \cap group(v) = {} <=> \A e : ~(e \in group(u) /\ e \in group(v))
      OBVIOUS
    <3> HIDE DEF group, n
    <3>4. CASE Label(t, u) = Label(t, v) /\ Label(t, u) # j
      <4>1. <<n + 1, Label(t, u)>> \in group(u) /\ <<n + 1, Label(t, u)>> \in group(v)
        BY <3>1, <3>2, <3>4, Zenon
      <4>2. QED
        BY <3>3, <3>4, <4>1
    <3>5. CASE Label(t, u) # Label(t, v)
      <4>1. ASSUME NEW e, e \in group(u), e \in group(v) PROVE FALSE
        <5>1. e = <<n + 1, Label(t, u)>> /\ e = <<n + 1, Label(t, v)>>
          BY <3>2, <4>1, Zenon
        <5>2. <<n + 1, Label(t, u)>> = <<n + 1, Label(t, v)>>
          BY <5>1
        <5>3. QED
          BY <3>1, <3>5, <5>2
      <4>2. QED
        BY <3>3, <3>5, <4>1
    <3>6. CASE Label(t, u) = j
      BY <3>1, <3>2, <3>3, <3>6
    <3>7. QED
      BY <3>4, <3>5, <3>6
  <2> HIDE DEF b, group
  <2>6. QED
    BY <2>1, <2>4, <2>5
<1> HIDE DEF S, b
<1>6. p \in S \X S => p[1] \in S /\ p[2] \in S
  OBVIOUS
<1>7. QED
  BY <1>2, <1>3, <1>4, <1>5, <1>6

\* Any two chunks, equal or not, are the business of exactly one owner.
LEMMA OneOwner ==
    ASSUME NEW x \in Chunk, NEW y \in Chunk
    PROVE  \E j \in Chunk :
              /\ x \in QuorumChunks(j) /\ y \in QuorumChunks(j) /\ (x = y => x = j)
              /\ \A i \in Chunk :
                    x \in QuorumChunks(i) /\ y \in QuorumChunks(i) /\ (x = y => x = i)
                       => i = j
<1>1. CASE x = y
  BY <1>1, OwnerGathered
<1>2. CASE x # y
  BY <1>2, QuorumPair
<1>3. QED
  BY <1>1, <1>2

\* The children of a subproblem partition its kept pairs: every kept pair is
\* kept by exactly one child, and a child keeps no other pair.  This is what
\* refine_task relies on when it replaces a task by its children mid-run.
THEOREM ChildrenPartition ==
    ASSUME NEW t, WellFormed(t)
    PROVE  /\ \A k \in Children(t) : Kept(k) \subseteq Kept(t)
           /\ \A p \in Kept(t) : \E k \in Children(t) :
                 /\ p \in Kept(k)
                 /\ \A s \in Children(t) : p \in Kept(s) => s = k
<1>1. ASSUME NEW k \in Children(t) PROVE \E j \in Chunk : k = Child(t, j)
  BY DEF Children
<1>2. ASSUME NEW k \in Children(t), NEW p \in Kept(k) PROVE p \in Kept(t)
  BY <1>1, ChildKept
<1>3. ASSUME NEW p \in Kept(t)
      PROVE  \E k \in Children(t) :
                 /\ p \in Kept(k)
                 /\ \A s \in Children(t) : p \in Kept(s) => s = k
  <2> DEFINE x == Label(t, p[1])
             y == Label(t, p[2])
  <2>1. p[1] \in t.tokens /\ p[2] \in t.tokens
    BY DEF Kept
  <2>2. x \in Chunk /\ y \in Chunk
    BY <2>1, LabelType
  <2> HIDE DEF x, y
  <2>3. PICK j \in Chunk :
           /\ x \in QuorumChunks(j) /\ y \in QuorumChunks(j) /\ (x = y => x = j)
           /\ \A i \in Chunk :
                 x \in QuorumChunks(i) /\ y \in QuorumChunks(i) /\ (x = y => x = i)
                    => i = j
    BY <2>2, OneOwner
  <2>4. p \in Kept(Child(t, j))
    BY <2>3, ChildKept DEF x, y
  <2>5. Child(t, j) \in Children(t)
    <3>1. Child(t, j).tokens # {}
      BY <2>4 DEF Kept
    <3>2. QED
      BY <3>1 DEF Children
  <2>6. ASSUME NEW s \in Children(t), p \in Kept(s) PROVE s = Child(t, j)
    <3>1. PICK i \in Chunk : s = Child(t, i)
      BY <1>1
    <3>2. x \in QuorumChunks(i) /\ y \in QuorumChunks(i) /\ (x = y => x = i)
      BY <2>6, <3>1, ChildKept DEF x, y
    <3>3. QED
      BY <2>3, <3>1, <3>2
  <2>7. QED
    BY <2>4, <2>5, <2>6
<1>4. QED
  BY <1>2, <1>3

-----------------------------------------------------------------------------
\* Dividing by C leaves less.
LEMMA QuotientLess ==
    ASSUME NEW n \in Nat, n >= C, C # 1
    PROVE  n \div C \in 0 .. n - 1
<1> DEFINE q == n \div C
           r == n % C
<1>1. C \in Nat /\ C >= 2
  BY DecompositionAssumption
<1>2. q \in Int /\ r \in Int /\ n = C * q + r /\ 0 <= r /\ r < C
  BY <1>1
<1> HIDE DEF q, r
<1>3. q >= 0
  <2>1. CASE q <= -1
    <3>1. C * q <= -C
      BY <1>1, <1>2, <2>1
    <3>2. QED
      BY <1>1, <1>2, <3>1
  <2>2. QED
    BY <1>2, <2>1
<1>4. C * q >= 2 * q
  BY <1>1, <1>2, <1>3
<1>5. q < n
  BY <1>1, <1>2, <1>3, <1>4
<1>6. QED
  BY <1>2, <1>3, <1>5 DEF q

\* The levels of a sequence of n tokens are a natural number, for every n up to a bound.
LEMMA LevelsExist ==
    ASSUME C # 1, NEW m \in Nat
    PROVE  \E f \in [0 .. m -> Nat] :
              f = [n \in 0 .. m |-> IF n < C THEN 0 ELSE 1 + f[n \div C]]
<1> DEFINE H == {k \in Nat : \E f \in [0 .. k -> Nat] :
                    f = [n \in 0 .. k |-> IF n < C THEN 0 ELSE 1 + f[n \div C]]}
<1>0. C \in Nat /\ C >= 2
  BY DecompositionAssumption
<1>1. 0 \in H
  <2> DEFINE f == [n \in 0 .. 0 |-> 0]
  <2>1. f \in [0 .. 0 -> Nat] /\ \A n \in 0 .. 0 : n < C /\ f[n] = 0
    BY <1>0
  <2>2. f = [n \in 0 .. 0 |-> IF n < C THEN 0 ELSE 1 + f[n \div C]]
    BY <2>1
  <2>3. QED
    BY <2>1, <2>2
<1>2. ASSUME NEW k \in Nat, k \in H PROVE k + 1 \in H
  <2>1. PICK f \in [0 .. k -> Nat] :
           f = [n \in 0 .. k |-> IF n < C THEN 0 ELSE 1 + f[n \div C]]
    BY <1>2
  <2> DEFINE g == [n \in 0 .. k + 1 |->
                      IF n < C THEN 0 ELSE 1 + f[n \div C]]
  <2>2. \A n \in 0 .. k + 1 : n >= C => n \div C \in 0 .. k /\ n \div C <= n - 1
    <3> TAKE n \in 0 .. k + 1
    <3> HAVE n >= C
    <3>1. n \in Nat
      OBVIOUS
    <3>2. n \div C \in 0 .. n - 1
      BY <3>1, QuotientLess, Zenon
    <3>3. QED
      BY <3>1, <3>2
  <2>3. g \in [0 .. k + 1 -> Nat]
    <3> SUFFICES ASSUME NEW n \in 0 .. k + 1
                 PROVE  (IF n < C THEN 0 ELSE 1 + f[n \div C]) \in Nat
      OBVIOUS
    <3>1. CASE n >= C
      <4> DEFINE q == n \div C
      <4>1. q \in 0 .. k
        BY <2>2, <3>1, Zenon
      <4> HIDE DEF q
      <4>2. f[q] \in Nat
        BY <4>1
      <4>3. QED
        BY <1>0, <3>1, <4>2 DEF q
    <3>2. QED
      BY <1>0, <3>1
  <2>4. \A n \in 0 .. k : g[n] = f[n]
    BY <2>1
  <2>5. ASSUME NEW n \in 0 .. k + 1
        PROVE  g[n] = IF n < C THEN 0 ELSE 1 + g[n \div C]
    <3>1. CASE n < C
      BY <3>1
    <3>2. CASE ~(n < C)
      <4>1. n \div C \in 0 .. k
        <5>1. n >= C
          BY <1>0, <3>2
        <5>2. QED
          BY <2>2, <5>1, Zenon
      <4>2. g[n \div C] = f[n \div C]
        BY <2>4, <4>1
      <4>3. g[n] = 1 + f[n \div C]
        BY <3>2
      <4>4. QED
        BY <3>2, <4>2, <4>3
    <3>3. QED
      BY <3>1, <3>2
  <2> HIDE DEF g
  <2>6. g = [n \in 0 .. k + 1 |-> IF n < C THEN 0 ELSE 1 + g[n \div C]]
    BY <2>3, <2>5
  <2>7. k + 1 \in Nat
    OBVIOUS
  <2> DEFINE m1 == k + 1
  <2>8. /\ m1 \in Nat /\ g \in [0 .. m1 -> Nat]
        /\ g = [n \in 0 .. m1 |-> IF n < C THEN 0 ELSE 1 + g[n \div C]]
    BY <2>3, <2>6, <2>7
  <2> HIDE DEF m1
  <2>9. m1 \in H
    BY <2>8
  <2>10. QED
    BY <2>9 DEF m1
<1> HIDE DEF H
<1>3. m \in H
  BY <1>1, <1>2, Induction
<1>4. QED
  BY <1>3 DEF H

\* The deepest level (max_depth_for) counts how often the length can be divided.
LEMMA LevelsAre ==
    ASSUME C # 1
    PROVE  \E f :
              /\ MaxDepth = f[N]
              /\ \A n \in 0 .. N : f[n] \in Nat /\ f[n] = IF n < C THEN 0 ELSE 1 + f[n \div C]
<1> DEFINE levels == CHOOSE f : f = [n \in 0 .. N |-> IF n < C THEN 0 ELSE 1 + f[n \div C]]
<1>1. N \in Nat
  BY DecompositionAssumption
<1>2. PICK f \in [0 .. N -> Nat] :
         f = [n \in 0 .. N |-> IF n < C THEN 0 ELSE 1 + f[n \div C]]
  BY <1>1, LevelsExist
<1>3. levels = [n \in 0 .. N |-> IF n < C THEN 0 ELSE 1 + levels[n \div C]]
  BY <1>2
<1> HIDE DEF levels
<1>4. \A n \in 0 .. N : levels[n] = IF n < C THEN 0 ELSE 1 + levels[n \div C]
  BY <1>3
<1> DEFINE H == {n \in Nat : \A m \in 0 .. n : m <= N => levels[m] \in Nat}
<1>5. 0 \in H
  <2>1. 0 < C /\ 0 \in 0 .. N
    BY <1>1, DecompositionAssumption
  <2>2. levels[0] = 0
    BY <1>4, <2>1
  <2>3. \A m \in 0 .. 0 : m = 0
    OBVIOUS
  <2>4. QED
    BY <2>2, <2>3
<1>6. ASSUME NEW n \in Nat, n \in H PROVE n + 1 \in H
  <2> SUFFICES ASSUME NEW m \in 0 .. n + 1, m <= N PROVE levels[m] \in Nat
    OBVIOUS
  <2>1. CASE m <= n
    BY <1>6, <2>1
  <2>2. CASE ~(m <= n) /\ m >= C
    <3> DEFINE q == m \div C
    <3>1. m \in Nat
      OBVIOUS
    <3>2. q \in 0 .. m - 1
      BY <2>2, <3>1, QuotientLess, Zenon
    <3>3. levels[m] = 1 + levels[q]
      <4>1. ~(m < C) /\ m \in 0 .. N
        BY <1>1, <2>2, DecompositionAssumption
      <4>2. QED
        BY <1>4, <4>1, Zenon
    <3> HIDE DEF q
    <3>4. levels[q] \in Nat
      BY <1>1, <1>6, <2>2, <3>2
    <3>5. QED
      BY <3>3, <3>4
  <2>3. CASE m < C
    BY <1>1, <1>4, <2>3
  <2>4. QED
    BY <2>1, <2>2, <2>3, DecompositionAssumption
<1>7. \A n \in 0 .. N : levels[n] \in Nat
  <2> HIDE DEF H
  <2>1. N \in H
    BY <1>1, <1>5, <1>6, Induction
  <2>2. QED
    BY <1>1, <2>1 DEF H
<1>8. MaxDepth = levels[N]
  BY DEF MaxDepth, levels
<1>9. QED
  BY <1>4, <1>7, <1>8

\* The deepest level is a number.
LEMMA MaxDepthType == MaxDepth \in Nat
<1>1. CASE C # 1
  <2>1. N \in 0 .. N
    BY DecompositionAssumption
  <2>2. QED
    BY <1>1, <2>1, LevelsAre
<1>2. CASE C = 1
  BY <1>2 DEF MaxDepth
<1>3. QED
  BY <1>1, <1>2
-----------------------------------------------------------------------------
(* What the recursive definitions of TaskTree compute: the subproblem of a   *)
(* path, its non-empty children, and the lists the engines start from.       *)

\* f, whatever TLC does with it.
LEMMA TableIs == ASSUME NEW f PROVE Table(f) = f
  BY DEF Table

-----------------------------------------------------------------------------
\* No path is longer than the deepest level.
LEMMA DeepestType == Deepest \in Nat /\ Itr <= Deepest /\ MaxDepth <= Deepest /\ Itr \in Nat \ {0}
  BY MaxDepthType, ItrAssumption DEF Deepest

-----------------------------------------------------------------------------
\* Paths are the sequences of chunks no longer than the deepest level.
LEMMA PathIs == ASSUME NEW p PROVE p \in Path <=> p \in Seq(Chunk) /\ Len(p) <= Deepest
<1>1. ASSUME p \in Path PROVE p \in Seq(Chunk) /\ Len(p) <= Deepest
  <2>1. PICK d \in 0 .. Deepest : p \in [1 .. d -> Chunk]
    BY <1>1 DEF Path
  <2>2. d \in Nat
    BY DeepestType
  <2>3. QED
    BY <2>1, <2>2, DeepestType
<1>2. ASSUME p \in Seq(Chunk), Len(p) <= Deepest PROVE p \in Path
  <2>1. Len(p) \in 0 .. Deepest /\ p \in [1 .. Len(p) -> Chunk]
    BY <1>2, DeepestType
  <2>2. QED
    BY <2>1 DEF Path
<1>3. QED
  BY <1>1, <1>2

\* The paths one chunk longer, and the path one chunk shorter.
LEMMA PathStep ==
    /\ <<>> \in Path
    /\ \A p \in Path : \A j \in Chunk :
          Len(p) < Deepest => Append(p, j) \in Path /\ Append(p, j) # <<>>
    /\ \A p \in Path : p # <<>> =>
          Front(p) \in Path /\ Last(p) \in Chunk /\ Len(Front(p)) = Len(p) - 1
    /\ \A p \in Path : Len(p) \in 0 .. Deepest
<1>1. <<>> \in Path
  <2>1. <<>> \in Seq(Chunk) /\ Len(<<>>) = 0
    OBVIOUS
  <2>2. 0 <= Deepest
    BY DeepestType
  <2>3. QED
    BY <2>1, <2>2, PathIs
<1>2. ASSUME NEW p \in Path, NEW j \in Chunk, Len(p) < Deepest
      PROVE  Append(p, j) \in Path /\ Append(p, j) # <<>>
  <2>1. p \in Seq(Chunk)
    BY PathIs
  <2>2. Append(p, j) \in Seq(Chunk) /\ Len(Append(p, j)) = Len(p) + 1
    BY <2>1
  <2>3. Len(p) + 1 <= Deepest
    BY <1>2, <2>1, DeepestType
  <2>4. Append(p, j) \in Path
    BY <2>2, <2>3, PathIs
  <2>5. Append(p, j) # <<>>
    BY <2>1, AppendProperties
  <2>6. QED
    BY <2>4, <2>5
<1>3. ASSUME NEW p \in Path, p # <<>>
      PROVE  Front(p) \in Path /\ Last(p) \in Chunk /\ Len(Front(p)) = Len(p) - 1
  <2>1. p \in Seq(Chunk) /\ Len(p) <= Deepest
    BY PathIs
  <2>2. Front(p) \in Seq(Chunk) /\ Last(p) \in Chunk /\ Len(Front(p)) = Len(p) - 1
    <3>1. Len(p) \in Nat \ {0}
      BY <1>3, <2>1, EmptySeq
    <3>2. Front(p) = SubSeq(p, 1, Len(p) - 1) /\ Last(p) = p[Len(p)]
      BY DEF Front, Last
    <3>3. \A i \in 1 .. Len(p) : p[i] \in Chunk
      BY <2>1, ElementOfSeq
    <3>4. /\ SubSeq(p, 1, Len(p) - 1) \in Seq(Chunk)
          /\ Len(SubSeq(p, 1, Len(p) - 1)) = Len(p) - 1
      <4>1. \A i \in 1 .. Len(p) - 1 : p[i] \in Chunk
        BY <3>1, <3>3
      <4>2. 1 \in Int /\ Len(p) - 1 \in Int
        BY <3>1
      <4>3. Len(SubSeq(p, 1, Len(p) - 1)) =
               IF 1 <= Len(p) - 1 THEN (Len(p) - 1) - 1 + 1 ELSE 0
        BY <4>1, <4>2, SubSeqProperties
      <4>4. SubSeq(p, 1, Len(p) - 1) \in Seq(Chunk)
        BY <4>1, <4>2, SubSeqProperties
      <4> DEFINE n == Len(p)
                 k == Len(SubSeq(p, 1, n - 1))
      <4>5. n \in Nat \ {0} /\ k = IF 1 <= n - 1 THEN (n - 1) - 1 + 1 ELSE 0
        BY <3>1, <4>3
      <4> HIDE DEF n, k
      <4>6. k = n - 1
        BY <4>5
      <4>7. QED
        BY <4>4, <4>6 DEF n, k
    <3>5. QED
      BY <3>1, <3>2, <3>3, <3>4
  <2>3. QED
    BY <2>1, <2>2, PathIs, DeepestType
<1>4. ASSUME NEW p \in Path PROVE Len(p) \in 0 .. Deepest
  BY PathIs, DeepestType
<1>5. QED
  BY <1>1, <1>2, <1>3, <1>4

\* The subproblems of all paths up to any depth exist.
LEMMA TasksExist ==
    ASSUME NEW m \in Nat
    PROVE  \E f : f = [p \in {x \in Seq(Chunk) : Len(x) <= m} |->
                          IF p = <<>> THEN Root ELSE Child(f[Front(p)], Last(p))]
<1> DEFINE Upto(k) == {x \in Seq(Chunk) : Len(x) <= k}
           H == {k \in Nat : \E f : f = [p \in Upto(k) |->
                          IF p = <<>> THEN Root ELSE Child(f[Front(p)], Last(p))]}
<1>1. 0 \in H
  <2> DEFINE f == [p \in Upto(0) |-> Root]
  <2>1. \A p \in Upto(0) : p = <<>>
    OBVIOUS
  <2>2. f = [p \in Upto(0) |-> IF p = <<>> THEN Root ELSE Child(f[Front(p)], Last(p))]
    BY <2>1
  <2> HIDE DEF f
  <2>3. QED
    BY <2>2
<1>2. ASSUME NEW k \in Nat, k \in H PROVE k + 1 \in H
  <2>1. PICK f : f = [p \in Upto(k) |->
                         IF p = <<>> THEN Root ELSE Child(f[Front(p)], Last(p))]
    BY <1>2
  <2> DEFINE g == [p \in Upto(k + 1) |->
                      IF p = <<>> THEN Root ELSE Child(f[Front(p)], Last(p))]
  <2>2. \A p \in Upto(k + 1) : p # <<>> => Front(p) \in Upto(k) /\ Front(p) \in Upto(k + 1)
    BY DEF Front
  <2>3. Upto(k) \subseteq Upto(k + 1)
    OBVIOUS
  <2> HIDE DEF Upto
  <2>4. \A p \in Upto(k) : g[p] = f[p]
    BY <2>1, <2>3
  <2>5. \A p \in Upto(k + 1) :
           p # <<>> => Child(f[Front(p)], Last(p)) = Child(g[Front(p)], Last(p))
    BY <2>2, <2>4
  <2>6. \A p \in Upto(k + 1) :
           g[p] = IF p = <<>> THEN Root ELSE Child(g[Front(p)], Last(p))
    BY <2>5
  <2>7. DOMAIN g = Upto(k + 1) /\ g = [p \in DOMAIN g |-> g[p]]
    OBVIOUS
  <2> HIDE DEF g
  <2>8. g = [p \in Upto(k + 1) |->
                IF p = <<>> THEN Root ELSE Child(g[Front(p)], Last(p))]
    BY <2>6, <2>7
  <2>9. QED
    BY <2>8
<1> HIDE DEF H
<1>3. m \in H
  BY <1>1, <1>2, Induction
<1>4. QED
  BY <1>3 DEF H

\* group_bits_for_path, one level at a time.
LEMMA TaskOfIs ==
    /\ DOMAIN TaskOf = Path
    /\ TaskOf[<<>>] = Root
    /\ \A p \in Path : \A j \in Chunk :
          Len(p) < Deepest => TaskOf[Append(p, j)] = Child(TaskOf[p], j)
<1> DEFINE task == CHOOSE f : f = [p \in Path |->
                        IF p = <<>> THEN Root ELSE Child(f[Front(p)], Last(p))]
<1>1. Path = {x \in Seq(Chunk) : Len(x) <= Deepest}
  BY PathIs
<1>2. \E f : f = [p \in Path |-> IF p = <<>> THEN Root ELSE Child(f[Front(p)], Last(p))]
  BY <1>1, DeepestType, TasksExist
<1>3. task = [p \in Path |-> IF p = <<>> THEN Root ELSE Child(task[Front(p)], Last(p))]
  BY <1>2
<1>4. TaskOf = [p \in Path |-> task[p]]
  BY TableIs DEF TaskOf
<1> HIDE DEF task
<1>5. TaskOf[<<>>] = Root
  BY <1>3, <1>4, PathStep
<1>6. ASSUME NEW p \in Path, NEW j \in Chunk, Len(p) < Deepest
      PROVE  TaskOf[Append(p, j)] = Child(TaskOf[p], j)
  <2>1. Append(p, j) \in Path /\ Append(p, j) # <<>>
    BY <1>6, PathStep
  <2>2. Front(Append(p, j)) = p /\ Last(Append(p, j)) = j
    <3>1. p \in Seq(Chunk)
      BY PathIs
    <3>2. QED
      BY <3>1 DEF Front, Last
  <2>3. QED
    BY <1>3, <1>4, <2>1, <2>2
<1>7. QED
  BY <1>4, <1>5, <1>6

\* The subproblem of a path is well formed and carries its path.
LEMMA TaskWellFormed ==
    \A p \in Path : WellFormed(TaskOf[p]) /\ TaskOf[p].path = p
<1> DEFINE H == {d \in Nat : \A p \in Path :
                    Len(p) = d => WellFormed(TaskOf[p]) /\ TaskOf[p].path = p}
<1>1. 0 \in H
  <2>1. \A p \in Path : Len(p) = 0 => p = <<>>
    BY PathIs
  <2>2. WellFormed(Root) /\ Root.path = <<>>
    BY DEF WellFormed, Root
  <2>3. QED
    BY <2>1, <2>2, TaskOfIs
<1>2. ASSUME NEW d \in Nat, d \in H PROVE d + 1 \in H
  <2> SUFFICES ASSUME NEW p \in Path, Len(p) = d + 1
               PROVE  WellFormed(TaskOf[p]) /\ TaskOf[p].path = p
    OBVIOUS
  <2>1. p # <<>> /\ p \in Seq(Chunk)
    BY PathIs
  <2>2. /\ Front(p) \in Path /\ Last(p) \in Chunk /\ Len(Front(p)) = d
        /\ p = Append(Front(p), Last(p)) /\ Len(Front(p)) < Deepest
    <3>1. Front(p) \in Path /\ Last(p) \in Chunk /\ Len(Front(p)) = d /\ d + 1 <= Deepest
      BY <2>1, PathStep, PathIs
    <3>2. p = Append(Front(p), Last(p))
      BY <2>1 DEF Front, Last
    <3>3. QED
      BY <3>1, <3>2, DeepestType
  <2>3. TaskOf[p] = Child(TaskOf[Front(p)], Last(p))
    BY <2>2, TaskOfIs
  <2>4. WellFormed(TaskOf[Front(p)]) /\ TaskOf[Front(p)].path = Front(p)
    BY <1>2, <2>2
  <2>5. WellFormed(TaskOf[p])
    BY <2>2, <2>3, <2>4, ChildWellFormed
  <2>6. TaskOf[p].path = p
    BY <2>2, <2>3, <2>4 DEF Child
  <2>7. QED
    BY <2>5, <2>6
<1> HIDE DEF H
<1>3. \A d \in Nat : d \in H
  BY <1>1, <1>2, Induction
<1>4. \A p \in Path : Len(p) \in Nat
  BY PathIs
<1>5. QED
  BY <1>3, <1>4 DEF H

-----------------------------------------------------------------------------
\* No entry of a list twice.
Distinct(s) == \A i, j \in DOMAIN s : s[i] = s[j] => i = j

\* Two lists with nothing in common, one after the other.
LEMMA ConcatDistinct ==
    ASSUME NEW X, NEW s \in Seq(X), NEW t \in Seq(X),
           Distinct(s), Distinct(t), Range(s) \cap Range(t) = {}
    PROVE  s \o t \in Seq(X) /\ Range(s \o t) = Range(s) \cup Range(t) /\ Distinct(s \o t)
<1>1. /\ s \o t \in Seq(X)
      /\ Len(s \o t) = Len(s) + Len(t)
      /\ \A i \in 1 .. Len(s) + Len(t) :
            (s \o t)[i] = IF i <= Len(s) THEN s[i] ELSE t[i - Len(s)]
  BY ConcatProperties
<1>2. Range(s \o t) = Range(s) \cup Range(t)
  BY RangeConcatenation
<1>3. ASSUME NEW i \in 1 .. Len(s) + Len(t), NEW j \in 1 .. Len(s) + Len(t),
             (s \o t)[i] = (s \o t)[j]
      PROVE  i = j
  <2>1. Len(s) \in Nat /\ Len(t) \in Nat /\ DOMAIN s = 1 .. Len(s) /\ DOMAIN t = 1 .. Len(t)
    OBVIOUS
  <2>2. CASE i <= Len(s) /\ j <= Len(s)
    BY <1>1, <1>3, <2>1, <2>2 DEF Distinct
  <2>3. CASE ~(i <= Len(s)) /\ ~(j <= Len(s))
    <3>1. i - Len(s) \in DOMAIN t /\ j - Len(s) \in DOMAIN t
      BY <2>1, <2>3
    <3>2. t[i - Len(s)] = t[j - Len(s)]
      BY <1>1, <1>3, <2>3
    <3>3. i - Len(s) = j - Len(s)
      BY <3>1, <3>2 DEF Distinct
    <3>4. QED
      BY <2>1, <3>3
  <2>4. \A a, b \in 1 .. Len(s) + Len(t) :
           a <= Len(s) /\ ~(b <= Len(s)) => (s \o t)[a] # (s \o t)[b]
    <3> SUFFICES ASSUME NEW a \in 1 .. Len(s) + Len(t), NEW b \in 1 .. Len(s) + Len(t),
                        a <= Len(s), ~(b <= Len(s))
                 PROVE  (s \o t)[a] # (s \o t)[b]
      OBVIOUS
    <3>1. a \in DOMAIN s /\ b - Len(s) \in DOMAIN t
      BY <2>1
    <3>2. s[a] \in Range(s) /\ t[b - Len(s)] \in Range(t)
      BY <3>1 DEF Range
    <3>3. QED
      BY <1>1, <3>2
  <2>5. QED
    BY <1>3, <2>2, <2>3, <2>4
<1>4. Distinct(s \o t)
  <2>1. DOMAIN (s \o t) = 1 .. Len(s) + Len(t)
    BY <1>1
  <2>2. QED
    BY <1>3, <2>1 DEF Distinct
<1>5. QED
  BY <1>1, <1>2, <1>4

\* Lists with nothing in common pairwise, flattened: a list of everything in them.
LEMMA FlattenIs ==
    ASSUME NEW X, NEW n \in Nat, NEW seqs \in [1 .. n -> Seq(X)],
           \A i \in 1 .. n : Distinct(seqs[i]),
           \A i, j \in 1 .. n : i # j => Range(seqs[i]) \cap Range(seqs[j]) = {}
    PROVE  /\ FlattenSeq(seqs) \in Seq(X)
           /\ Range(FlattenSeq(seqs)) = UNION {Range(seqs[i]) : i \in 1 .. n}
           /\ Distinct(FlattenSeq(seqs))
<1> DEFINE Flat(k) == CHOOSE f : f = [i \in 1 .. k |->
                                         IF i = 1 THEN seqs[i] ELSE f[i - 1] \o seqs[i]]
           G(k) == {f \in [1 .. k -> Seq(X)] :
                       f = [i \in 1 .. k |-> IF i = 1 THEN seqs[i] ELSE f[i - 1] \o seqs[i]]}
           H == {k \in Nat : k <= n => G(k) # {}}
<1>1. Len(seqs) = n
  OBVIOUS
<1>2. CASE n = 0
  <2>1. seqs = <<>> /\ FlattenSeq(seqs) = seqs
    BY <1>1, <1>2 DEF FlattenSeq
  <2>2. FlattenSeq(seqs) \in Seq(X)
    BY <2>1, EmptySeq
  <2>3. DOMAIN FlattenSeq(seqs) = {}
    BY <2>1
  <2>4. QED
    BY <1>2, <2>2, <2>3 DEF Range, Distinct
<1>3. CASE n # 0
  <2>1. 0 \in H
    <3> DEFINE f == [i \in 1 .. 0 |-> <<>>]
    <3>1. f \in [1 .. 0 -> Seq(X)]
      OBVIOUS
    <3>2. f = [i \in 1 .. 0 |-> IF i = 1 THEN seqs[i] ELSE f[i - 1] \o seqs[i]]
      OBVIOUS
    <3> HIDE DEF f
    <3>3. QED
      BY <3>1, <3>2
  <2>2. ASSUME NEW k \in Nat, k \in H PROVE k + 1 \in H
    <3> SUFFICES ASSUME k + 1 <= n PROVE G(k + 1) # {}
      <4>1. k + 1 \in Nat
        OBVIOUS
      <4> HIDE DEF G
      <4>2. QED
        BY <4>1
    <3>1. k <= n
      OBVIOUS
    <3>2. PICK f \in [1 .. k -> Seq(X)] :
             f = [i \in 1 .. k |-> IF i = 1 THEN seqs[i] ELSE f[i - 1] \o seqs[i]]
      BY <2>2, <3>1
    <3> DEFINE g == [i \in 1 .. k + 1 |->
                        IF i = 1 THEN seqs[i] ELSE f[i - 1] \o seqs[i]]
    <3>3. \A i \in 1 .. k + 1 : (i # 1 => i - 1 \in 1 .. k) /\ i \in 1 .. n
      OBVIOUS
    <3>4. g \in [1 .. k + 1 -> Seq(X)]
      <4> SUFFICES ASSUME NEW i \in 1 .. k + 1
                   PROVE  (IF i = 1 THEN seqs[i] ELSE f[i - 1] \o seqs[i]) \in Seq(X)
        OBVIOUS
      <4>1. seqs[i] \in Seq(X)
        BY <3>3
      <4>2. CASE i # 1
        <5>1. f[i - 1] \in Seq(X)
          BY <3>2, <3>3, <4>2
        <5>2. QED
          BY <4>1, <4>2, <5>1, ConcatProperties
      <4>3. QED
        BY <4>1, <4>2
    <3>5. \A i \in 1 .. k : g[i] = f[i]
      <4>1. \A i \in 1 .. k : i \in 1 .. k + 1
        OBVIOUS
      <4>2. \A i \in 1 .. k : f[i] = IF i = 1 THEN seqs[i] ELSE f[i - 1] \o seqs[i]
        BY <3>2, Zenon
      <4>3. QED
        BY <4>1, <4>2, Zenon
    <3>6. \A i \in 1 .. k + 1 : g[i] = IF i = 1 THEN seqs[i] ELSE g[i - 1] \o seqs[i]
      BY <3>3, <3>5
    <3> HIDE DEF g
    <3>7. g = [i \in 1 .. k + 1 |-> IF i = 1 THEN seqs[i] ELSE g[i - 1] \o seqs[i]]
      BY <3>4, <3>6
    <3>8. QED
      BY <3>4, <3>7
  <2>3. n \in H
    <3> HIDE DEF H
    <3>1. QED
      BY <2>1, <2>2, Induction
  <2>4. PICK f \in [1 .. n -> Seq(X)] :
           f = [i \in 1 .. n |-> IF i = 1 THEN seqs[i] ELSE f[i - 1] \o seqs[i]]
    <3>1. G(n) # {}
      <4> HIDE DEF G
      <4>1. QED
        BY <2>3
    <3>2. QED
      BY <3>1
  <2> DEFINE flat == Flat(n)
  <2>5. flat = [i \in 1 .. n |-> IF i = 1 THEN seqs[i] ELSE flat[i - 1] \o seqs[i]]
    BY <2>4
  <2>6. FlattenSeq(seqs) = flat[n]
    BY <1>1, <1>3 DEF FlattenSeq
  <2> HIDE DEF flat
  <2> DEFINE J == {k \in Nat : k + 1 <= n =>
                      /\ flat[k + 1] \in Seq(X)
                      /\ Range(flat[k + 1]) = UNION {Range(seqs[i]) : i \in 1 .. k + 1}
                      /\ Distinct(flat[k + 1])}
  <2>7. 0 \in J
    <3>1. n \in Nat /\ 1 \in 1 .. n
      BY <1>3
    <3>2. flat[1] = seqs[1] /\ seqs[1] \in Seq(X) /\ Distinct(seqs[1])
      BY <2>5, <3>1
    <3>3. \A i \in 1 .. 1 : i = 1
      OBVIOUS
    <3>4. Range(flat[1]) = UNION {Range(seqs[i]) : i \in 1 .. 1}
      BY <3>2, <3>3
    <3>5. QED
      BY <3>2, <3>4
  <2>8. ASSUME NEW k \in Nat, k \in J PROVE k + 1 \in J
    <3> SUFFICES ASSUME k + 1 + 1 <= n
                 PROVE  /\ flat[k + 1 + 1] \in Seq(X)
                        /\ Range(flat[k + 1 + 1]) =
                              UNION {Range(seqs[i]) : i \in 1 .. k + 1 + 1}
                        /\ Distinct(flat[k + 1 + 1])
      OBVIOUS
    <3> DEFINE m == k + 1
    <3>1. m \in Nat /\ m + 1 \in 1 .. n /\ m + 1 # 1 /\ (m + 1) - 1 = m /\ m <= n
      OBVIOUS
    <3>2. /\ flat[m] \in Seq(X)
          /\ Range(flat[m]) = UNION {Range(seqs[i]) : i \in 1 .. m}
          /\ Distinct(flat[m])
      BY <2>8, <3>1
    <3> HIDE DEF m
    <3>3. flat[m + 1] = flat[m] \o seqs[m + 1]
      BY <2>5, <3>1
    <3>4. seqs[m + 1] \in Seq(X) /\ Distinct(seqs[m + 1])
      BY <3>1
    <3>5. \A i \in 1 .. m : i \in 1 .. n /\ i # m + 1
      BY <3>1
    <3>6. Range(flat[m]) \cap Range(seqs[m + 1]) = {}
      BY <3>1, <3>2, <3>5
    <3>7. /\ flat[m + 1] \in Seq(X)
          /\ Range(flat[m + 1]) = Range(flat[m]) \cup Range(seqs[m + 1])
          /\ Distinct(flat[m + 1])
      BY <3>2, <3>3, <3>4, <3>6, ConcatDistinct
    <3>8. 1 .. m + 1 = (1 .. m) \cup {m + 1}
      BY <3>1
    <3>9. Range(flat[m + 1]) = UNION {Range(seqs[i]) : i \in 1 .. m + 1}
      BY <3>2, <3>7, <3>8
    <3>10. QED
      BY <3>7, <3>9 DEF m
  <2>9. n - 1 \in J
    <3> HIDE DEF J
    <3>1. n - 1 \in Nat
      BY <1>3
    <3>2. QED
      BY <2>7, <2>8, <3>1, Induction
  <2>10. n - 1 \in Nat /\ (n - 1) + 1 = n /\ n <= n
    BY <1>3
  <2>11. /\ flat[n] \in Seq(X)
         /\ Range(flat[n]) = UNION {Range(seqs[i]) : i \in 1 .. n}
         /\ Distinct(flat[n])
    BY <2>9, <2>10
  <2>12. QED
    BY <2>6, <2>11
<1>4. QED
  BY <1>2, <1>3

-----------------------------------------------------------------------------
\* The entries of a list that are in a set, in order: what Selected keeps.
Entries(list, keep) ==
    FlattenSeq([i \in DOMAIN list |-> IF list[i] \in keep THEN <<list[i]>> ELSE <<>>])

\* A selection holds the kept entries of a list, each once.
LEMMA EntriesAre ==
    ASSUME NEW X, NEW list \in Seq(X), NEW keep, Distinct(list)
    PROVE  /\ Entries(list, keep) \in Seq(X)
           /\ Range(Entries(list, keep)) = Range(list) \cap keep
           /\ Distinct(Entries(list, keep))
<1> DEFINE n == Len(list)
           seqs == [i \in 1 .. n |-> IF list[i] \in keep THEN <<list[i]>> ELSE <<>>]
<1>1. n \in Nat /\ DOMAIN list = 1 .. n /\ \A i \in 1 .. n : list[i] \in X
  OBVIOUS
<1> HIDE DEF n
<1>2. \A x : Range(<<x>>) = {x} /\ Distinct(<<x>>)
  BY DEF Range, Distinct
<1>3. Range(<<>>) = {} /\ Distinct(<<>>)
  BY DEF Range, Distinct
<1>4. ASSUME NEW i \in 1 .. n
      PROVE  /\ seqs[i] \in Seq(X) /\ Distinct(seqs[i])
             /\ Range(seqs[i]) = {list[i]} \cap keep
  <2>1. CASE list[i] \in keep
    <3>1. seqs[i] = <<list[i]>>
      BY <2>1
    <3> HIDE DEF seqs
    <3>2. QED
      BY <1>1, <1>2, <2>1, <3>1
  <2>2. CASE list[i] \notin keep
    <3>1. seqs[i] = <<>>
      BY <2>2
    <3> HIDE DEF seqs
    <3>2. QED
      BY <1>3, <2>2, <3>1
  <2>3. QED
    BY <2>1, <2>2
<1>5. seqs \in [1 .. n -> Seq(X)]
  BY <1>4
<1>6. Entries(list, keep) = FlattenSeq(seqs)
  BY <1>1 DEF Entries
<1> HIDE DEF seqs
<1>7. ASSUME NEW i \in 1 .. n, NEW j \in 1 .. n, i # j
      PROVE  Range(seqs[i]) \cap Range(seqs[j]) = {}
  <2>1. list[i] # list[j]
    BY <1>1, <1>7 DEF Distinct
  <2>2. QED
    BY <1>4, <2>1
<1>8. /\ FlattenSeq(seqs) \in Seq(X) /\ Distinct(FlattenSeq(seqs))
      /\ Range(FlattenSeq(seqs)) = UNION {Range(seqs[i]) : i \in 1 .. n}
  <2>1. \A i \in 1 .. n : Distinct(seqs[i])
    BY <1>4
  <2>2. QED
    BY <1>1, <1>5, <1>7, <2>1, FlattenIs
<1>9. UNION {Range(seqs[i]) : i \in 1 .. n} = Range(list) \cap keep
  BY <1>1, <1>4 DEF Range
<1>10. QED
  BY <1>6, <1>8, <1>9

\* refine_task: the non-empty children of a path, each once.
LEMMA KidsIs ==
    ASSUME NEW p \in Path, Len(p) < Deepest
    PROVE  /\ Kids(p) \in Seq(Path)
           /\ Range(Kids(p)) = {Append(p, j) : j \in Chunk} \cap Nonempty
           /\ Distinct(Kids(p))
           /\ {TaskOf[q] : q \in Range(Kids(p))} = Children(TaskOf[p])
<1> DEFINE list == [j \in 1 .. C |-> Append(p, j - 1)]
<1>1. C \in Nat /\ p \in Seq(Chunk) /\ Chunk = 0 .. C - 1
  BY PathIs, DecompositionAssumption DEF Chunk
<1>2. \A j \in 1 .. C : j - 1 \in Chunk /\ Append(p, j - 1) \in Path
  BY <1>1, PathStep
<1>3. list \in Seq(Path) /\ DOMAIN list = 1 .. C
  BY <1>1, <1>2
<1>4. Distinct(list)
  <2> SUFFICES ASSUME NEW i \in 1 .. C, NEW j \in 1 .. C, Append(p, i - 1) = Append(p, j - 1)
               PROVE  i = j
    BY <1>3 DEF Distinct
  <2>1. i - 1 = j - 1
    BY <1>1, <1>2, AppendInjective
  <2>2. QED
    BY <2>1
<1>5. Range(list) = {Append(p, j) : j \in Chunk}
  <2>1. \A j \in Chunk : j + 1 \in 1 .. C /\ (j + 1) - 1 = j
    BY <1>1
  <2>2. ASSUME NEW j \in Chunk PROVE Append(p, j) \in Range(list)
    <3>1. list[j + 1] = Append(p, j) /\ j + 1 \in DOMAIN list
      BY <2>1
    <3>2. QED
      BY <3>1 DEF Range
  <2>3. ASSUME NEW q \in Range(list) PROVE q \in {Append(p, j) : j \in Chunk}
    <3>1. PICK i \in 1 .. C : q = Append(p, i - 1)
      BY DEF Range
    <3>2. QED
      BY <1>2, <3>1
  <2>4. QED
    BY <2>2, <2>3
<1>6. Kids(p) = Entries(list, Nonempty)
  BY DEF Kids, Selected, Entries
<1> HIDE DEF list
<1>7. /\ Kids(p) \in Seq(Path)
      /\ Range(Kids(p)) = {Append(p, j) : j \in Chunk} \cap Nonempty
      /\ Distinct(Kids(p))
  BY <1>3, <1>4, <1>5, <1>6, EntriesAre
<1>8. {TaskOf[q] : q \in Range(Kids(p))} = Children(TaskOf[p])
  <2>1. \A j \in Chunk : TaskOf[Append(p, j)] = Child(TaskOf[p], j) /\ Append(p, j) \in Path
    BY PathStep, TaskOfIs
  <2>2. \A j \in Chunk : Append(p, j) \in Nonempty <=> Child(TaskOf[p], j).tokens # {}
    BY <2>1 DEF Nonempty
  <2>3. QED
    BY <1>7, <2>1, <2>2 DEF Children
<1>9. QED
  BY <1>7, <1>8

-----------------------------------------------------------------------------
\* What a path descends from: itself, the whole sequence, and what its parent
\* descends from.
LEMMA AncestorsIs ==
    ASSUME NEW p \in Seq(Chunk)
    PROVE  /\ p \in Ancestors(p) /\ <<>> \in Ancestors(p)
           /\ \A q \in Ancestors(p) : q \in Seq(Chunk) /\ Len(q) <= Len(p)
           /\ \A q, r \in Ancestors(p) : Len(q) = Len(r) => q = r
           /\ \A q \in Ancestors(p) : Len(q) < Len(p) =>
                 \E j \in Chunk : Append(q, j) \in Ancestors(p)
           /\ \A q \in Seq(Chunk) : \A j \in Chunk :
                 Append(q, j) \in Ancestors(p) => q \in Ancestors(p)
<1>1. \A d \in 0 .. Len(p) : /\ SubSeq(p, 1, d) \in Seq(Chunk)
                            /\ Len(SubSeq(p, 1, d)) = d
                            /\ \A i \in 1 .. d : SubSeq(p, 1, d)[i] = p[i]
  <2> TAKE d \in 0 .. Len(p)
  <2>1. d \in Int /\ 1 \in Int /\ \A i \in 1 .. d : p[i] \in Chunk
    OBVIOUS
  <2> DEFINE q == SubSeq(p, 1, d)
  <2>2. q \in Seq(Chunk) /\ Len(q) = (IF 1 <= d THEN d - 1 + 1 ELSE 0)
        /\ \A i \in 1 .. d - 1 + 1 : q[i] = p[1 + i - 1]
    BY <2>1, SubSeqProperties
  <2> HIDE DEF q
  <2>3. q \in Seq(Chunk) /\ Len(q) = d /\ \A i \in 1 .. d : q[i] = p[i]
    BY <2>2
  <2>4. QED
    BY <2>3 DEF q
<1>2. p \in Ancestors(p)
  <2>1. SubSeq(p, 1, Len(p)) = p /\ Len(p) \in 0 .. Len(p)
    BY SubSeqFull
  <2>2. QED
    BY <2>1 DEF Ancestors
<1>3. <<>> \in Ancestors(p)
  <2>1. SubSeq(p, 1, 0) = <<>> /\ 0 \in 0 .. Len(p)
    BY SubSeqEmpty
  <2>2. QED
    BY <2>1 DEF Ancestors
<1>4. ASSUME NEW q \in Ancestors(p)
      PROVE  q \in Seq(Chunk) /\ Len(q) \in 0 .. Len(p) /\ q = SubSeq(p, 1, Len(q))
  <2>1. PICK d \in 0 .. Len(p) : q = SubSeq(p, 1, d)
    BY DEF Ancestors
  <2>2. QED
    BY <1>1, <2>1
<1>5. ASSUME NEW q \in Ancestors(p), Len(q) < Len(p)
      PROVE  \E j \in Chunk : Append(q, j) \in Ancestors(p)
  <2> DEFINE d == Len(q)
             r == SubSeq(p, 1, d + 1)
  <2>1. d \in 0 .. Len(p) /\ d + 1 \in 0 .. Len(p) /\ p[d + 1] \in Chunk /\ q \in Seq(Chunk)
    BY <1>4, <1>5
  <2>2. r \in Seq(Chunk) /\ Len(r) = d + 1 /\ \A i \in 1 .. d + 1 : r[i] = p[i]
    BY <1>1, <2>1
  <2>3. \A i \in 1 .. d : q[i] = p[i]
    BY <1>1, <1>4, <2>1
  <2> HIDE DEF r
  <2>4. r = Append(q, p[d + 1])
    <3> DEFINE a == Append(q, p[d + 1])
    <3>1. a \in Seq(Chunk) /\ Len(a) = d + 1 /\ (\A i \in 1 .. d : a[i] = q[i])
          /\ a[d + 1] = p[d + 1]
      BY <2>1, AppendProperties
    <3> HIDE DEF a
    <3>2. \A i \in 1 .. d + 1 : i \in 1 .. d \/ i = d + 1
      BY <2>1
    <3>3. \A i \in 1 .. Len(r) : r[i] = a[i]
      BY <2>2, <2>3, <3>1, <3>2
    <3>4. r = a
      BY <2>2, <3>1, <3>3, SeqEqual
    <3>5. QED
      BY <3>4 DEF a
  <2>5. r \in Ancestors(p)
    BY <2>1 DEF Ancestors, r
  <2>6. QED
    BY <2>1, <2>4, <2>5
<1>6. ASSUME NEW q \in Seq(Chunk), NEW j \in Chunk, Append(q, j) \in Ancestors(p)
      PROVE  q \in Ancestors(p)
  <2> DEFINE a == Append(q, j)
             d == Len(q)
  <2>1. d \in Nat /\ a \in Seq(Chunk) /\ Len(a) = d + 1 /\ \A i \in 1 .. d : a[i] = q[i]
    BY AppendProperties
  <2>2. d + 1 \in 0 .. Len(p) /\ a = SubSeq(p, 1, d + 1)
    BY <1>4, <1>6, <2>1
  <2> HIDE DEF a
  <2>3. d \in 0 .. Len(p) /\ \A i \in 1 .. d : i \in 1 .. d + 1
    BY <2>1, <2>2
  <2>4. \A i \in 1 .. d : q[i] = p[i]
    BY <1>1, <2>1, <2>2, <2>3
  <2>5. /\ SubSeq(p, 1, d) \in Seq(Chunk) /\ Len(SubSeq(p, 1, d)) = d
        /\ \A i \in 1 .. d : SubSeq(p, 1, d)[i] = q[i]
    BY <1>1, <2>3, <2>4
  <2>6. q = SubSeq(p, 1, d)
    BY <2>5, SeqEqual
  <2>7. QED
    BY <2>3, <2>6 DEF Ancestors
<1>7. QED
  BY <1>2, <1>3, <1>4, <1>5, <1>6

\* A prefix of a prefix is a prefix.
LEMMA AncestorsNest ==
    ASSUME NEW p \in Seq(Chunk), NEW q \in Ancestors(p), NEW r \in Ancestors(p), Len(q) <= Len(r)
    PROVE  q \in Ancestors(r)
<1> DEFINE d == Len(q)
           e == Len(r)
<1>1. PICK x \in 0 .. Len(p) : q = SubSeq(p, 1, x)
  BY DEF Ancestors
<1>2. PICK y \in 0 .. Len(p) : r = SubSeq(p, 1, y)
  BY DEF Ancestors
<1>3. \A z \in 0 .. Len(p) : /\ SubSeq(p, 1, z) \in Seq(Chunk)
                            /\ Len(SubSeq(p, 1, z)) = z
                            /\ \A i \in 1 .. z : SubSeq(p, 1, z)[i] = p[i]
  <2> TAKE z \in 0 .. Len(p)
  <2>1. z \in Int /\ 1 \in Int /\ \A i \in 1 .. z : p[i] \in Chunk
    OBVIOUS
  <2> DEFINE u == SubSeq(p, 1, z)
  <2>2. u \in Seq(Chunk) /\ Len(u) = (IF 1 <= z THEN z - 1 + 1 ELSE 0)
        /\ \A i \in 1 .. z - 1 + 1 : u[i] = p[1 + i - 1]
    BY <2>1, SubSeqProperties
  <2> HIDE DEF u
  <2>3. u \in Seq(Chunk) /\ Len(u) = z /\ \A i \in 1 .. z : u[i] = p[i]
    BY <2>2
  <2>4. QED
    BY <2>3 DEF u
<1>4. q \in Seq(Chunk) /\ d = x /\ \A i \in 1 .. d : q[i] = p[i]
  BY <1>1, <1>3
<1>5. r \in Seq(Chunk) /\ e = y /\ \A i \in 1 .. e : r[i] = p[i]
  BY <1>2, <1>3
<1>6. d \in Nat /\ e \in Nat /\ d <= e
  BY <1>4, <1>5
<1> DEFINE w == SubSeq(r, 1, d)
<1>7. w \in Seq(Chunk) /\ Len(w) = d /\ \A i \in 1 .. d : w[i] = r[i]
  <2>1. d \in Int /\ 1 \in Int /\ \A i \in 1 .. d : r[i] \in Chunk
    BY <1>5, <1>6
  <2>2. w \in Seq(Chunk) /\ Len(w) = (IF 1 <= d THEN d - 1 + 1 ELSE 0)
        /\ \A i \in 1 .. d - 1 + 1 : w[i] = r[1 + i - 1]
    BY <2>1, SubSeqProperties
  <2> HIDE DEF w, d
  <2>3. QED
    BY <1>6, <2>2
<1> HIDE DEF w
<1>8. \A i \in 1 .. d : w[i] = q[i]
  BY <1>4, <1>5, <1>6, <1>7
<1>9. q = w
  BY <1>4, <1>7, <1>8, SeqEqual
<1>10. d \in 0 .. Len(r)
  BY <1>6
<1>11. QED
  BY <1>9, <1>10 DEF Ancestors, w

\* A child descends from its parent, and from nothing its parent does not.
LEMMA ChildAncestors ==
    ASSUME NEW p \in Seq(Chunk), NEW j \in Chunk
    PROVE  Ancestors(Append(p, j)) = Ancestors(p) \cup {Append(p, j)}
<1> DEFINE a == Append(p, j)
<1>1. a \in Seq(Chunk) /\ Len(a) = Len(p) + 1
  BY AppendProperties
<1>2. a \in Ancestors(a) /\ p \in Ancestors(a)
  BY <1>1, AncestorsIs
<1>3. ASSUME NEW q \in Ancestors(a), q # a PROVE q \in Ancestors(p)
  <2>1. q \in Seq(Chunk) /\ Len(q) <= Len(a) /\ Len(q) # Len(a)
    BY <1>1, <1>2, <1>3, AncestorsIs
  <2>2. Len(q) <= Len(p)
    <3>1. Len(q) \in Nat /\ Len(p) \in Nat
      BY <2>1
    <3>2. QED
      BY <1>1, <2>1, <3>1
  <2>3. QED
    BY <1>1, <1>2, <2>2, AncestorsNest
<1>4. ASSUME NEW q \in Ancestors(p) PROVE q \in Ancestors(a)
  <2>1. PICK d \in 0 .. Len(p) : q = SubSeq(p, 1, d)
    BY DEF Ancestors
  <2>2. CASE d = 0
    <3>1. q = <<>>
      BY <2>1, <2>2, SubSeqEmpty
    <3>2. QED
      BY <1>1, <3>1, AncestorsIs
  <2>3. CASE d # 0
    <3>1. a = p \o <<j>> /\ <<j>> \in Seq(Chunk)
      BY AppendIsConcat
    <3>2. 1 \in 1 .. Len(p) /\ d \in 1 .. Len(p)
      BY <2>3
    <3>3. SubSeq(a, 1, d) = SubSeq(p, 1, d)
      BY <3>1, <3>2, SubSeqOfConcat1
    <3>4. d \in 0 .. Len(a)
      BY <1>1
    <3>5. QED
      BY <2>1, <3>3, <3>4 DEF Ancestors
  <2>4. QED
    BY <2>2, <2>3
<1>5. QED
  BY <1>2, <1>3, <1>4

\* What a leaf descends from is a path that gathers a token.
LEMMA LeafAncestors ==
    ASSUME NEW p \in Leaf
    PROVE  p \in Path /\ \A q \in Ancestors(p) : q \in Path /\ q \in Nonempty
<1>1. p \in Path /\ p \in Seq(Chunk) /\ Len(p) \in Nat /\ Len(p) <= Deepest /\ p \in Nonempty
  BY PathIs DEF Leaf, Nonempty
<1>2. \A q \in Ancestors(p) : q \in Path /\ Len(q) \in Nat /\ Len(q) <= Len(p)
  <2>1. \A q \in Ancestors(p) : q \in Seq(Chunk) /\ Len(q) <= Len(p)
    BY <1>1, AncestorsIs
  <2>2. \A q \in Seq(Chunk) : Len(q) \in Nat
    OBVIOUS
  <2>3. \A q \in Ancestors(p) : Len(q) <= Deepest
    BY <1>1, <2>1, <2>2, DeepestType
  <2>4. QED
    BY <2>1, <2>2, <2>3, PathIs
<1> DEFINE H == {k \in Nat : \A q \in Ancestors(p) : Len(q) + k = Len(p) => q \in Nonempty}
<1>3. 0 \in H
  <2>1. p \in Ancestors(p)
    BY <1>1, AncestorsIs
  <2>2. \A q \in Ancestors(p) : Len(q) = Len(p) => q = p
    BY <1>1, <2>1, AncestorsIs
  <2>3. QED
    BY <1>1, <1>2, <2>2
<1>4. ASSUME NEW k \in Nat, k \in H PROVE k + 1 \in H
  <2> SUFFICES ASSUME NEW q \in Ancestors(p), Len(q) + (k + 1) = Len(p) PROVE q \in Nonempty
    OBVIOUS
  <2>1. q \in Path /\ Len(q) \in Nat /\ Len(q) < Len(p)
    BY <1>1, <1>2
  <2>2. PICK j \in Chunk : Append(q, j) \in Ancestors(p)
    BY <1>1, <2>1, AncestorsIs
  <2>3. Len(Append(q, j)) = Len(q) + 1 /\ Append(q, j) \in Path
    BY <1>2, <2>1, <2>2, PathIs, AppendProperties
  <2>4. Len(Append(q, j)) + k = Len(p)
    BY <1>1, <2>1, <2>3
  <2>5. Append(q, j) \in Nonempty
    BY <1>4, <2>2, <2>4
  <2>6. Len(q) < Deepest
    BY <1>1, <2>1, DeepestType
  <2>7. TaskOf[Append(q, j)] = Child(TaskOf[q], j)
    BY <2>1, <2>6, TaskOfIs
  <2>8. Child(TaskOf[q], j).tokens \subseteq TaskOf[q].tokens
    BY <2>1, TaskWellFormed, ChildWellFormed
  <2>9. TaskOf[q].tokens # {}
    BY <2>5, <2>7, <2>8 DEF Nonempty
  <2>10. QED
    BY <2>1, <2>9 DEF Nonempty
<1> HIDE DEF H
<1>5. \A k \in Nat : k \in H
  BY <1>3, <1>4, Induction
<1>6. ASSUME NEW q \in Ancestors(p) PROVE q \in Nonempty
  <2> DEFINE k == Len(p) - Len(q)
  <2>1. k \in Nat /\ Len(q) + k = Len(p)
    BY <1>1, <1>2
  <2> HIDE DEF k
  <2>2. k \in H
    BY <1>5, <2>1
  <2>3. QED
    BY <2>1, <2>2 DEF H
<1>7. QED
  BY <1>1, <1>2, <1>6

-----------------------------------------------------------------------------
\* build_tasks: the non-empty children of a list of paths, each once.
LEMMA NextLevel ==
    ASSUME NEW list \in Seq(Path), Distinct(list), NEW d \in Nat, d < Deepest,
           \A i \in DOMAIN list : Len(list[i]) = d
    PROVE  LET next == FlattenSeq([i \in DOMAIN list |-> Kids(list[i])])
           IN  /\ next \in Seq(Path) /\ Distinct(next)
               /\ Range(next) = UNION {Range(Kids(list[i])) : i \in DOMAIN list}
               /\ \A i \in DOMAIN next : Len(next[i]) = d + 1
<1> DEFINE n == Len(list)
           seqs == [i \in 1 .. n |-> Kids(list[i])]
           next == FlattenSeq(seqs)
<1>1. n \in Nat /\ DOMAIN list = 1 .. n /\ \A i \in 1 .. n : list[i] \in Path /\ Len(list[i]) = d
  OBVIOUS
<1> HIDE DEF n
<1>2. ASSUME NEW i \in 1 .. n
      PROVE  /\ Kids(list[i]) \in Seq(Path) /\ Distinct(Kids(list[i]))
             /\ Range(Kids(list[i])) = {Append(list[i], j) : j \in Chunk} \cap Nonempty
  BY <1>1, KidsIs
<1>3. seqs \in [1 .. n -> Seq(Path)] /\ \A i \in 1 .. n : seqs[i] = Kids(list[i])
  BY <1>2
<1> HIDE DEF seqs
<1>4. ASSUME NEW i \in 1 .. n, NEW k \in 1 .. n, i # k
      PROVE  Range(seqs[i]) \cap Range(seqs[k]) = {}
  <2> SUFFICES ASSUME NEW x \in Range(seqs[i]) \cap Range(seqs[k]) PROVE FALSE
    OBVIOUS
  <2>1. PICK a \in Chunk : x = Append(list[i], a)
    BY <1>2, <1>3
  <2>2. PICK b \in Chunk : x = Append(list[k], b)
    BY <1>2, <1>3
  <2>3. list[i] \in Seq(Chunk) /\ list[k] \in Seq(Chunk)
    BY <1>1, PathIs
  <2>4. list[i] = list[k]
    <3> DEFINE p == list[i]
               q == list[k]
    <3>1. p \in Seq(Chunk) /\ q \in Seq(Chunk) /\ Append(p, a) = Append(q, b)
      BY <2>1, <2>2, <2>3
    <3> HIDE DEF p, q
    <3>2. p = q
      BY <3>1, AppendInjective
    <3>3. QED
      BY <3>2 DEF p, q
  <2>5. QED
    BY <1>1, <1>4, <2>4 DEF Distinct
<1>5. /\ next \in Seq(Path) /\ Distinct(next)
      /\ Range(next) = UNION {Range(seqs[i]) : i \in 1 .. n}
  <2>1. \A i \in 1 .. n : Distinct(seqs[i])
    BY <1>2, <1>3
  <2>2. \A i, k \in 1 .. n : i # k => Range(seqs[i]) \cap Range(seqs[k]) = {}
    BY <1>4
  <2>3. QED
    BY <1>1, <1>3, <2>1, <2>2, FlattenIs
<1>6. ASSUME NEW i \in DOMAIN next PROVE Len(next[i]) = d + 1
  <2>1. next[i] \in Range(next)
    BY DEF Range
  <2>2. PICK k \in 1 .. n : next[i] \in Range(Kids(list[k]))
    BY <1>3, <1>5, <2>1
  <2>3. PICK j \in Chunk : next[i] = Append(list[k], j)
    BY <1>2, <2>2
  <2>4. list[k] \in Seq(Chunk) /\ Len(list[k]) = d
    BY <1>1, PathIs
  <2>5. QED
    BY <2>3, <2>4, AppendProperties
<1>7. UNION {Range(seqs[i]) : i \in 1 .. n} = UNION {Range(Kids(list[i])) : i \in DOMAIN list}
  BY <1>1, <1>3
<1>8. FlattenSeq([i \in DOMAIN list |-> Kids(list[i])]) = next
  BY <1>1 DEF seqs
<1> HIDE DEF next
<1>9. QED
  BY <1>5, <1>6, <1>7, <1>8

\* One level of build_tasks.
NextTasks(list) == FlattenSeq([i \in DOMAIN list |-> Kids(list[i])])

\* The lists of all levels up to any depth exist.
LEMMA TaskListsExist ==
    ASSUME NEW m \in Nat
    PROVE  \E f : f = [d \in 0 .. m |-> IF d = 0 THEN <<(<<>>)>> ELSE NextTasks(f[d - 1])]
<1> DEFINE H == {k \in Nat : \E f : f = [d \in 0 .. k |->
                    IF d = 0 THEN <<(<<>>)>> ELSE NextTasks(f[d - 1])]}
<1>1. 0 \in H
  <2> DEFINE f == [d \in 0 .. 0 |-> <<(<<>>)>>]
  <2>1. f = [d \in 0 .. 0 |-> IF d = 0 THEN <<(<<>>)>> ELSE NextTasks(f[d - 1])]
    OBVIOUS
  <2> HIDE DEF f
  <2>2. QED
    BY <2>1
<1>2. ASSUME NEW k \in Nat, k \in H PROVE k + 1 \in H
  <2>1. PICK f : f = [d \in 0 .. k |-> IF d = 0 THEN <<(<<>>)>> ELSE NextTasks(f[d - 1])]
    BY <1>2
  <2> DEFINE g == [d \in 0 .. k + 1 |-> IF d = 0 THEN <<(<<>>)>> ELSE NextTasks(f[d - 1])]
  <2>2. \A d \in 0 .. k : g[d] = f[d]
    BY <2>1
  <2>3. \A d \in 0 .. k + 1 : d # 0 => d - 1 \in 0 .. k
    OBVIOUS
  <2>4. \A d \in 0 .. k + 1 : g[d] = IF d = 0 THEN <<(<<>>)>> ELSE NextTasks(g[d - 1])
    BY <2>2, <2>3
  <2>5. DOMAIN g = 0 .. k + 1 /\ g = [d \in DOMAIN g |-> g[d]]
    OBVIOUS
  <2> HIDE DEF g
  <2>6. g = [d \in 0 .. k + 1 |-> IF d = 0 THEN <<(<<>>)>> ELSE NextTasks(g[d - 1])]
    BY <2>4, <2>5
  <2>7. QED
    BY <2>6
<1> HIDE DEF H
<1>3. m \in H
  BY <1>1, <1>2, Induction
<1>4. QED
  BY <1>3 DEF H

\* build_tasks: the list of depth d names non-empty subproblems of depth d, each once,
\* and holds the children of the list before.
LEMMA TasksAre ==
    /\ Tasks[0] = <<(<<>>)>>
    /\ \A d \in 0 .. Deepest : /\ Tasks[d] \in Seq(Path) /\ Distinct(Tasks[d])
                               /\ \A i \in DOMAIN Tasks[d] : Len(Tasks[d][i]) = d
    /\ \A d \in 1 .. Deepest :
          Range(Tasks[d]) = UNION {Range(Kids(p)) : p \in Range(Tasks[d - 1])}
<1> DEFINE tasks == CHOOSE f : f = [d \in 0 .. Deepest |->
                       IF d = 0 THEN <<(<<>>)>> ELSE NextTasks(f[d - 1])]
           Good(d) == /\ Tasks[d] \in Seq(Path) /\ Distinct(Tasks[d])
                      /\ \A i \in DOMAIN Tasks[d] : Len(Tasks[d][i]) = d
                      /\ d # 0 => Range(Tasks[d]) = UNION {Range(Kids(p)) : p \in Range(Tasks[d - 1])}
           H == {d \in Nat : d <= Deepest => Good(d)}
<1>0. Deepest \in Nat
  BY DeepestType
<1>1. tasks = [d \in 0 .. Deepest |-> IF d = 0 THEN <<(<<>>)>> ELSE NextTasks(tasks[d - 1])]
  BY <1>0, TaskListsExist
<1>2. Tasks = [d \in 0 .. Deepest |-> tasks[d]]
  BY TableIs DEF Tasks, NextTasks
<1> HIDE DEF tasks
<1>3. Tasks[0] = <<(<<>>)>>
  BY <1>0, <1>1, <1>2
<1>4. \A d \in 1 .. Deepest : Tasks[d] = NextTasks(Tasks[d - 1])
  <2>1. \A d \in 1 .. Deepest : d \in 0 .. Deepest /\ d - 1 \in 0 .. Deepest /\ d # 0
    BY <1>0
  <2>2. QED
    BY <1>1, <1>2, <2>1
<1>5. 0 \in H
  <2> DEFINE root == <<(<<>>)>>
  <2>1. /\ root \in Seq(Path) /\ DOMAIN root = {1} /\ root[1] = <<>> /\ Len(<<>>) = 0
    BY PathStep
  <2> HIDE DEF root
  <2>2. Distinct(root) /\ \A i \in DOMAIN root : Len(root[i]) = 0
    BY <2>1 DEF Distinct
  <2>3. Tasks[0] = root
    BY <1>3 DEF root
  <2>4. QED
    BY <2>1, <2>2, <2>3
<1>6. ASSUME NEW n \in Nat, n \in H PROVE n + 1 \in H
  <2> SUFFICES ASSUME n + 1 <= Deepest PROVE Good(n + 1)
    OBVIOUS
  <2> DEFINE list == Tasks[n]
             next == Tasks[n + 1]
  <2>1. n < Deepest /\ list \in Seq(Path) /\ Distinct(list) /\ \A i \in DOMAIN list : Len(list[i]) = n
    BY <1>0, <1>6
  <2>2. next = FlattenSeq([i \in DOMAIN list |-> Kids(list[i])])
    <3>1. n + 1 \in 1 .. Deepest /\ (n + 1) - 1 = n
      BY <1>0
    <3>2. QED
      BY <1>4, <3>1 DEF NextTasks
  <2> HIDE DEF list, next
  <2>3. /\ next \in Seq(Path) /\ Distinct(next)
        /\ Range(next) = UNION {Range(Kids(list[i])) : i \in DOMAIN list}
        /\ \A i \in DOMAIN next : Len(next[i]) = n + 1
    BY <2>1, <2>2, NextLevel
  <2>4. UNION {Range(Kids(list[i])) : i \in DOMAIN list} = UNION {Range(Kids(p)) : p \in Range(list)}
    BY DEF Range
  <2>5. (n + 1) - 1 = n
    OBVIOUS
  <2>6. QED
    BY <2>3, <2>4, <2>5 DEF list, next
<1> HIDE DEF H
<1>7. \A d \in Nat : d \in H
  BY <1>5, <1>6, Induction
<1>8. \A d \in 0 .. Deepest : d \in Nat /\ Good(d)
  BY <1>0, <1>7 DEF H
<1> HIDE DEF Good
<1>9. \A d \in 1 .. Deepest : d \in 0 .. Deepest /\ d # 0
  BY <1>0
<1>10. QED
  BY <1>3, <1>8, <1>9 DEF Good

-----------------------------------------------------------------------------
(* Queues: one more entry, one less, and the short ones.                     *)

\* A queue with one more entry.
LEMMA AppendIs ==
    ASSUME NEW X, NEW q \in Seq(X), NEW o \in X
    PROVE  /\ Append(q, o) \in Seq(X)
           /\ Range(Append(q, o)) = Range(q) \cup {o}
           /\ Len(Append(q, o)) = Len(q) + 1
           /\ \A k \in DOMAIN q : Append(q, o)[k] = q[k] /\ k \in DOMAIN Append(q, o)
           /\ Append(q, o)[Len(q) + 1] = o /\ Len(q) + 1 \in DOMAIN Append(q, o)
           /\ \A k \in DOMAIN Append(q, o) : k \in DOMAIN q \/ k = Len(q) + 1
           /\ Distinct(q) /\ o \notin Range(q) => Distinct(Append(q, o))
<1> DEFINE r == Append(q, o)
           n == Len(q)
<1>1. /\ r \in Seq(X) /\ Len(r) = n + 1 /\ n \in Nat /\ DOMAIN q = 1 .. n /\ DOMAIN r = 1 .. n + 1
      /\ \A k \in 1 .. n : r[k] = q[k]
      /\ r[n + 1] = o
  OBVIOUS
<1> HIDE DEF r, n
<1>2. \A k \in 1 .. n + 1 : k \in 1 .. n \/ k = n + 1
  BY <1>1
<1>3. \A k \in 1 .. n : k \in 1 .. n + 1 /\ k # n + 1
  BY <1>1
<1>4. n + 1 \in 1 .. n + 1
  BY <1>1
<1>5. Range(r) = Range(q) \cup {o}
  BY <1>1, <1>2, <1>3, <1>4 DEF Range
<1>6. Distinct(q) /\ o \notin Range(q) => Distinct(r)
  BY <1>1, <1>2, <1>3 DEF Distinct, Range
<1>7. QED
  BY <1>1, <1>2, <1>3, <1>4, <1>5, <1>6 DEF r, n

\* A queue less its first entry.
LEMMA TailIs ==
    ASSUME NEW X, NEW q \in Seq(X), q # <<>>
    PROVE  /\ Tail(q) \in Seq(X) /\ Len(Tail(q)) = Len(q) - 1
           /\ Head(q) = q[1] /\ 1 \in DOMAIN q /\ Head(q) \in Range(q)
           /\ \A k \in DOMAIN Tail(q) : k + 1 \in DOMAIN q /\ Tail(q)[k] = q[k + 1]
           /\ \A k \in DOMAIN q : k # 1 => k - 1 \in DOMAIN Tail(q) /\ Tail(q)[k - 1] = q[k]
           /\ Range(q) = {Head(q)} \cup Range(Tail(q))
           /\ Distinct(q) => Distinct(Tail(q)) /\ Head(q) \notin Range(Tail(q))
<1> DEFINE r == Tail(q)
           n == Len(q)
<1>1. /\ r \in Seq(X) /\ Len(r) = n - 1 /\ n \in Nat /\ n # 0
      /\ DOMAIN q = 1 .. n /\ DOMAIN r = 1 .. n - 1
      /\ \A k \in 1 .. n - 1 : r[k] = q[k + 1]
      /\ Head(q) = q[1]
  OBVIOUS
<1> HIDE DEF r, n
<1>2. \A k \in 1 .. n - 1 : k + 1 \in 1 .. n /\ k + 1 # 1
  BY <1>1
<1>3. \A k \in 1 .. n : k # 1 => k - 1 \in 1 .. n - 1 /\ (k - 1) + 1 = k
  BY <1>1
<1>4. 1 \in 1 .. n
  BY <1>1
<1>5. \A k \in 1 .. n : k # 1 => r[k - 1] = q[k]
  BY <1>1, <1>3
<1>6. Range(q) = {Head(q)} \cup Range(r)
  <2>1. ASSUME NEW x \in Range(q) PROVE x = Head(q) \/ x \in Range(r)
    <3>1. PICK k \in 1 .. n : q[k] = x
      BY <1>1 DEF Range
    <3>2. CASE k = 1
      BY <1>1, <3>1, <3>2
    <3>3. CASE k # 1
      <4>1. k - 1 \in DOMAIN r /\ r[k - 1] = x
        BY <1>1, <1>3, <1>5, <3>1, <3>3
      <4>2. QED
        BY <4>1 DEF Range
    <3>4. QED
      BY <3>2, <3>3
  <2>2. Head(q) \in Range(q)
    BY <1>1, <1>4 DEF Range
  <2>3. Range(r) \subseteq Range(q)
    BY <1>1, <1>2 DEF Range
  <2>4. QED
    BY <2>1, <2>2, <2>3
<1>7. ASSUME Distinct(q) PROVE Distinct(r) /\ Head(q) \notin Range(r)
  <2>1. \A j, k \in 1 .. n - 1 : j + 1 = k + 1 => j = k
    BY <1>1
  <2>2. \A j, k \in 1 .. n : q[j] = q[k] => j = k
    BY <1>1, <1>7 DEF Distinct
  <2>3. \A j, k \in 1 .. n - 1 : r[j] = r[k] => j = k
    BY <1>1, <1>2, <2>1, <2>2
  <2>4. \A k \in 1 .. n - 1 : r[k] # q[1]
    BY <1>1, <1>2, <1>4, <2>2
  <2>5. QED
    BY <1>1, <2>3, <2>4 DEF Distinct, Range
<1>8. QED
  BY <1>1, <1>2, <1>3, <1>4, <1>5, <1>6, <1>7 DEF r, n, Range

\* Short sequences.
LEMMA ShortLists ==
    /\ \A x : <<x>> # <<>> /\ Head(<<x>>) = x /\ Tail(<<x>>) = <<>> /\ Append(<<>>, x) = <<x>>
    /\ \A x, y : <<x, y>> # <<>> /\ Head(<<x, y>>) = x /\ Tail(<<x, y>>) = <<y>>
                 /\ Append(<<x>>, y) = <<x, y>>
    /\ \A x, y, z : <<x, y, z>> # <<>> /\ Head(<<x, y, z>>) = x /\ Tail(<<x, y, z>>) = <<y, z>>
                    /\ Append(<<x, y>>, z) = <<x, y, z>>
<1>1. ASSUME NEW x PROVE <<x>> # <<>> /\ Head(<<x>>) = x /\ Tail(<<x>>) = <<>> /\ Append(<<>>, x) = <<x>>
  OBVIOUS
<1>2. ASSUME NEW x, NEW y
      PROVE  <<x, y>> # <<>> /\ Head(<<x, y>>) = x /\ Tail(<<x, y>>) = <<y>>
             /\ Append(<<x>>, y) = <<x, y>>
  <2>1. <<x, y>> # <<>> /\ Head(<<x, y>>) = x /\ Tail(<<x, y>>) = <<y>>
    OBVIOUS
  <2> DEFINE a == Append(<<x>>, y)
             b == <<x, y>>
  <2>2. a \in Seq({x, y}) /\ b \in Seq({x, y}) /\ Len(a) = 2 /\ Len(b) = 2
    OBVIOUS
  <2>3. a[1] = x /\ a[2] = y /\ b[1] = x /\ b[2] = y
    OBVIOUS
  <2> HIDE DEF a, b
  <2>4. \A i \in 1 .. 2 : a[i] = b[i]
    <3>1. \A i \in 1 .. 2 : i = 1 \/ i = 2
      OBVIOUS
    <3>2. QED
      BY <2>3, <3>1
  <2>5. a = b
    BY <2>2, <2>4, SeqEqual
  <2>6. QED
    BY <2>1, <2>5 DEF a, b
<1>3. ASSUME NEW x, NEW y, NEW z
      PROVE  <<x, y, z>> # <<>> /\ Head(<<x, y, z>>) = x /\ Tail(<<x, y, z>>) = <<y, z>>
             /\ Append(<<x, y>>, z) = <<x, y, z>>
  <2>1. <<x, y, z>> # <<>> /\ Head(<<x, y, z>>) = x /\ Tail(<<x, y, z>>) = <<y, z>>
    OBVIOUS
  <2> DEFINE a == Append(<<x, y>>, z)
             b == <<x, y, z>>
  <2>2. a \in Seq({x, y, z}) /\ b \in Seq({x, y, z}) /\ Len(a) = 3 /\ Len(b) = 3
    OBVIOUS
  <2>3. a[1] = x /\ a[2] = y /\ a[3] = z /\ b[1] = x /\ b[2] = y /\ b[3] = z
    OBVIOUS
  <2> HIDE DEF a, b
  <2>4. \A i \in 1 .. 3 : a[i] = b[i]
    <3>1. \A i \in 1 .. 3 : i = 1 \/ i = 2 \/ i = 3
      OBVIOUS
    <3>2. QED
      BY <2>3, <3>1
  <2>5. a = b
    BY <2>2, <2>4, SeqEqual
  <2>6. QED
    BY <2>1, <2>5 DEF a, b
<1>4. QED
  BY <1>1, <1>2, <1>3

-----------------------------------------------------------------------------
\* What a set of merged subproblems amounts to.

\* Tasks differ when their paths do, and the children of a subproblem are those its
\* refinement names.
LEMMA TaskFacts ==
    /\ \A p, q \in Path : TaskOf[p] = TaskOf[q] => p = q
    /\ \A p \in Path : TaskOf[p].path = p /\ KeptOf[p] = Kept(TaskOf[p])
    /\ \A p \in Path : Len(p) < Deepest =>
          {TaskOf[q] : q \in Range(Kids(p))} = Children(TaskOf[p])
<1>1. \A p \in Path : TaskOf[p].path = p
  BY TaskWellFormed
<1>2. \A p \in Path : KeptOf[p] = Kept(TaskOf[p])
  BY TableIs DEF KeptOf
<1>3. QED
  BY <1>1, <1>2, KidsIs

\* How a contribution counts: the subproblems merged whose kept pairs hold x.
Count(a, x) ==
    Cardinality(UNION {{p} \X (1 .. a[p]) : p \in {q \in {r \in Path : a[r] # 0} : x \in KeptOf[q]}})

\* Merging one more subproblem counts its kept pairs once more.
LEMMA CountStep ==
    ASSUME NEW a \in [Path -> {0, 1}], IsFiniteSet({r \in Path : a[r] # 0}),
           NEW p \in Path, a[p] = 0, NEW x
    PROVE  Count([a EXCEPT ![p] = 1], x) = Count(a, x) + (IF x \in KeptOf[p] THEN 1 ELSE 0)
<1> DEFINE b == [a EXCEPT ![p] = 1]
           M == {q \in {r \in Path : a[r] # 0} : x \in KeptOf[q]}
           U == UNION {{q} \X (1 .. a[q]) : q \in M}
           L == {q \in {r \in Path : b[r] # 0} : x \in KeptOf[q]}
           V == UNION {{q} \X (1 .. b[q]) : q \in L}
           pair == [q \in M |-> <<q, 1>>]
<1>1. b[p] = 1 /\ \A q \in Path : q # p => b[q] = a[q]
  OBVIOUS
<1>2. L = IF x \in KeptOf[p] THEN M \cup {p} ELSE M
  BY <1>1
<1>3. \A q \in M : a[q] = 1 /\ q \in Path /\ q # p
  OBVIOUS
<1>4. \A q \in L : b[q] = 1
  BY <1>1, <1>3
<1>5. 1 .. 1 = {1}
  OBVIOUS
<1> HIDE DEF b
<1>6. U = {<<q, 1>> : q \in M}
  BY <1>3, <1>5
<1>7. V = {<<q, 1>> : q \in L}
  BY <1>4, <1>5
<1>8. IsFiniteSet(M)
  BY FS_Subset
<1> HIDE DEF M, L
<1>9. pair \in Surjection(M, U)
  BY <1>6 DEF Surjection
<1>10. IsFiniteSet(U) /\ Cardinality(U) \in Nat
  <2> HIDE DEF U, pair
  <2>1. QED
    BY <1>8, <1>9, FS_Surjection, FS_CardinalityType
<1>11. <<p, 1>> \notin U
  BY <1>3, <1>6
<1>12. V = IF x \in KeptOf[p] THEN U \cup {<<p, 1>>} ELSE U
  BY <1>2, <1>6, <1>7
<1>13. Count(a, x) = Cardinality(U) /\ Count(b, x) = Cardinality(V)
  BY DEF Count, U, V, M, L
<1> HIDE DEF U, V
<1>14. Cardinality(V) = Cardinality(U) + (IF x \in KeptOf[p] THEN 1 ELSE 0)
  <2>1. CASE x \in KeptOf[p]
    BY <1>10, <1>11, <1>12, <2>1, FS_AddElement
  <2>2. CASE x \notin KeptOf[p]
    BY <1>10, <1>12, <2>2
  <2>3. QED
    BY <2>1, <2>2
<1>15. QED
  BY <1>13, <1>14 DEF b
-----------------------------------------------------------------------------
(* Hybrid schedules: a subproblem gives way to its children.                 *)

\* The one well-formed subproblem before any level is built keeps every pair.
LEMMA RootKept == WellFormed(Root) /\ Kept(Root) = Token \X Token
<1>1. Root.bits \in [Token -> SUBSET ((1 .. Len(Root.path)) \X Chunk)]
  BY DEF Root
<1>2. WellFormed(Root)
  BY <1>1 DEF Root, WellFormed
<1>3. \A p \in Token \X Token : Root.bits[p[1]] \cap Root.bits[p[2]] = {}
  BY DEF Root
<1>4. QED
  BY <1>2, <1>3 DEF Root, Kept

\* The children of a well-formed subproblem are well formed.
LEMMA ChildrenWellFormed ==
    ASSUME NEW t, WellFormed(t), NEW k \in Children(t)
    PROVE  WellFormed(k)
<1>1. PICK j \in Chunk : k = Child(t, j)
  BY DEF Children
<1>2. QED
  BY <1>1, ChildWellFormed

\* Exactly one pending subproblem keeps pair p.
OneKeeper(S, p) == \E t \in S : p \in Kept(t) /\ \A s \in S : p \in Kept(s) => s = t

\* Replacing a subproblem by its children moves none of its pairs to another
\* subproblem, loses none and duplicates none.
LEMMA RefineKeepers ==
    ASSUME NEW S, \A s \in S : WellFormed(s), NEW t \in S, NEW p
    PROVE  LET R == (S \ {t}) \cup Children(t) IN
           /\ OneKeeper(S, p) => OneKeeper(R, p)
           /\ (\A s \in S : p \notin Kept(s)) => (\A s \in R : p \notin Kept(s))
<1> DEFINE R == (S \ {t}) \cup Children(t)
<1>1. \A k \in Children(t) : Kept(k) \subseteq Kept(t)
  BY ChildrenPartition
<1>2. ASSUME OneKeeper(S, p) PROVE OneKeeper(R, p)
  <2>1. PICK u \in S : p \in Kept(u) /\ \A s \in S : p \in Kept(s) => s = u
    BY <1>2 DEF OneKeeper
  <2>2. CASE u = t
    <3>1. PICK k \in Children(t) :
             p \in Kept(k) /\ \A s \in Children(t) : p \in Kept(s) => s = k
      BY <2>1, <2>2, ChildrenPartition
    <3>2. QED
      BY <2>1, <2>2, <3>1 DEF OneKeeper
  <2>3. CASE u # t
    <3>1. p \notin Kept(t)
      BY <2>1, <2>3
    <3>2. QED
      BY <1>1, <2>1, <2>3, <3>1 DEF OneKeeper
  <2>4. QED
    BY <2>2, <2>3
<1>3. ASSUME \A s \in S : p \notin Kept(s) PROVE \A s \in R : p \notin Kept(s)
  BY <1>1, <1>3
<1>4. QED
  BY <1>2, <1>3

\* The same for a level of the uniform build, which replaces every subproblem.
LEMMA DeepenKeepers ==
    ASSUME NEW S, \A s \in S : WellFormed(s), NEW p, OneKeeper(S, p)
    PROVE  OneKeeper(UNION {Children(t) : t \in S}, p)
<1> DEFINE R == UNION {Children(t) : t \in S}
<1>1. PICK u \in S : p \in Kept(u) /\ \A s \in S : p \in Kept(s) => s = u
  BY DEF OneKeeper
<1>2. PICK k \in Children(u) :
         p \in Kept(k) /\ \A s \in Children(u) : p \in Kept(s) => s = k
  BY <1>1, ChildrenPartition
<1>3. ASSUME NEW s \in R, p \in Kept(s) PROVE s = k
  <2>1. PICK t \in S : s \in Children(t)
    OBVIOUS
  <2>2. p \in Kept(t)
    BY <1>3, <2>1, ChildrenPartition
  <2>3. QED
    BY <1>1, <1>2, <1>3, <2>1, <2>2
<1>4. k \in R
  BY <1>1, <1>2
<1> HIDE DEF R
<1>5. OneKeeper(R, p)
  BY <1>2, <1>3, <1>4 DEF OneKeeper
<1>6. QED
  BY <1>5 DEF R
=============================================================================
