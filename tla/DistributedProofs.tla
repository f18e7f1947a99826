-------------------------- MODULE DistributedProofs --------------------------
(***************************************************************************)
(* Every rank that returns holds the exact rows it promises: for every     *)
(* number of ranks, also more than there are tasks, whatever each refines, *)
(* forward and backward, replicated and sharded.                           *)
(***************************************************************************)
EXTENDS Distributed, DecompositionProofs

-----------------------------------------------------------------------------
(* The schedules: every ordered token pair is attended exactly once.         *)

\* Type correctness: the levels stay in range, every pending subproblem is well
\* formed and the accumulator counts token pairs.
THEOREM TypeCorrect == Spec => []TypeOK
<1>1. Init => TypeOK
  BY RootKept, ItrAssumption DEF Init, TypeOK
<1>2. TypeOK /\ [Next]_vars => TypeOK'
  <2> SUFFICES ASSUME TypeOK, [Next]_vars
               PROVE  TypeOK'
    OBVIOUS
  <2> USE ItrAssumption DEF TypeOK
  <2>1. CASE Deepen
    BY <2>1, ChildrenWellFormed DEF Deepen
  <2>2. ASSUME NEW t \in pending, Refine(t)
        PROVE  TypeOK'
    BY <2>2, ChildrenWellFormed DEF Refine
  <2>3. ASSUME NEW t \in pending, Merge(t)
        PROVE  TypeOK'
    BY <2>3 DEF Merge
  <2>4. CASE UNCHANGED vars
    BY <2>4 DEF vars
  <2>5. QED
    BY <2>1, <2>2, <2>3, <2>4 DEF Next
<1>3. QED
  BY <1>1, <1>2, PTL DEF Spec

\* The inductive form of exactly-once: nothing is attended while levels are
\* still being built.
CoverInv == ExactlyOnce /\ (level < Itr => \A p \in Pair : attended[p] = 0)

\* Whatever hybrid schedule is taken, every ordered token pair is attended at
\* most once, and one that is not attended yet has exactly one keeper.
THEOREM CoverCorrect == Spec => []ExactlyOnce
<1>1. Init => CoverInv
  BY RootKept, ItrAssumption DEF Init, CoverInv, ExactlyOnce, Pair
<1>2. TypeOK /\ CoverInv /\ [Next]_vars => CoverInv'
  <2> SUFFICES ASSUME TypeOK, CoverInv, [Next]_vars
               PROVE  CoverInv'
    OBVIOUS
  <2>0. ASSUME NEW p \in Pair
        PROVE  \/ attended[p] = 1 /\ \A t \in pending : p \notin Kept(t)
               \/ attended[p] = 0 /\ OneKeeper(pending, p)
    BY DEF CoverInv, ExactlyOnce, OneKeeper
  <2>w. \A t \in pending : WellFormed(t)
    BY DEF TypeOK
  <2>1. CASE Deepen
    <3>1. ASSUME NEW p \in Pair PROVE attended'[p] = 0 /\ OneKeeper(pending', p)
      <4>1. attended[p] = 0
        BY <2>1 DEF Deepen, CoverInv
      <4>2. OneKeeper(pending, p)
        BY <2>0, <4>1
      <4>3. OneKeeper(UNION {Children(t) : t \in pending}, p)
        BY <2>w, <4>2, DeepenKeepers
      <4>4. QED
        BY <2>1, <4>1, <4>3 DEF Deepen
    <3>2. QED
      BY <3>1 DEF CoverInv, ExactlyOnce, OneKeeper
  <2>2. ASSUME NEW t \in pending, Refine(t) PROVE CoverInv'
    <3>1. pending' = (pending \ {t}) \cup Children(t) /\ attended' = attended
      BY <2>2 DEF Refine
    <3>2. ASSUME NEW p \in Pair
          PROVE  \/ attended'[p] = 1 /\ \A s \in pending' : p \notin Kept(s)
                 \/ attended'[p] = 0 /\ OneKeeper(pending', p)
      BY <2>0, <2>w, <3>1, <3>2, RefineKeepers
    <3>3. ~(level < Itr) /\ level' = level
      BY <2>2, ItrAssumption DEF Refine
    <3>4. QED
      BY <3>2, <3>3 DEF CoverInv, ExactlyOnce, OneKeeper
  <2>3. ASSUME NEW t \in pending, Merge(t) PROVE CoverInv'
    <3>1. /\ pending' = pending \ {t}
          /\ \A p \in Pair : attended'[p] = attended[p] + (IF p \in Kept(t) THEN 1 ELSE 0)
      BY <2>3 DEF Merge
    <3>2. ASSUME NEW p \in Pair
          PROVE  \/ attended'[p] = 1 /\ \A s \in pending' : p \notin Kept(s)
                 \/ attended'[p] = 0 /\ OneKeeper(pending', p)
      <4>1. CASE p \in Kept(t)
        <5>1. attended[p] = 0 /\ \A s \in pending : p \in Kept(s) => s = t
          BY <2>0, <4>1 DEF OneKeeper
        <5>2. QED
          BY <3>1, <4>1, <5>1
      <4>2. CASE p \notin Kept(t)
        <5>1. attended'[p] = attended[p]
          BY <2>0, <3>1, <4>2
        <5>2. QED
          BY <2>0, <3>1, <4>2, <5>1 DEF OneKeeper
      <4>3. QED
        BY <4>1, <4>2
    <3>3. ~(level < Itr) /\ level' = level
      BY <2>3, ItrAssumption DEF Merge
    <3>4. QED
      BY <3>2, <3>3 DEF CoverInv, ExactlyOnce, OneKeeper
  <2>4. CASE UNCHANGED vars
    BY <2>4 DEF vars, CoverInv, ExactlyOnce
  <2>5. QED
    BY <2>1, <2>2, <2>3, <2>4 DEF Next
<1>3. CoverInv => ExactlyOnce
  BY DEF CoverInv
<1>4. QED
  BY <1>1, <1>2, <1>3, TypeCorrect, PTL DEF Spec

\* When no subproblem is left, every ordered pair was attended exactly once.
THEOREM ReturnExact == Spec => []Exact
<1>1. ExactlyOnce => Exact
  BY DEF ExactlyOnce, Exact
<1>2. QED
  BY <1>1, CoverCorrect, PTL

-----------------------------------------------------------------------------
(* Division.                                                                 *)

\* Quotient and remainder are determined by each other.
LEMMA Quotient ==
    ASSUME NEW b \in Nat \ {0}, NEW q \in Int, NEW r \in 0 .. b - 1
    PROVE  (b * q + r) \div b = q /\ (b * q + r) % b = r
<1> DEFINE a == b * q + r
           k == a \div b
           m == a % b
<1>1. a \in Int
  OBVIOUS
<1>2. k \in Int /\ m \in Int /\ a = b * k + m /\ 0 <= m /\ m < b
  BY <1>1
<1>3. b * q + r = b * k + m
  BY <1>2
<1> HIDE DEF a, k, m
<1>4. k = q
  <2>1. ASSUME k >= q + 1 PROVE FALSE
    <3>1. b * k >= b * (q + 1) /\ b * (q + 1) = b * q + b
      BY <1>2, <2>1
    <3>2. b * k \in Int /\ b * q \in Int
      BY <1>2
    <3>3. QED
      BY <1>2, <1>3, <3>1, <3>2
  <2>2. ASSUME k <= q - 1 PROVE FALSE
    <3>1. b * k <= b * (q - 1) /\ b * (q - 1) = b * q - b
      BY <1>2, <2>2
    <3>2. b * k \in Int /\ b * q \in Int
      BY <1>2
    <3>3. QED
      BY <1>2, <1>3, <3>1, <3>2
  <2>3. QED
    BY <1>2, <2>1, <2>2
<1>5. m = r
  BY <1>2, <1>3, <1>4
<1>6. QED
  BY <1>4, <1>5 DEF a, k, m

\* Quotient and remainder.
LEMMA Division ==
    ASSUME NEW a \in Int, NEW b \in Nat \ {0}
    PROVE  a \div b \in Int /\ a % b \in 0 .. b - 1 /\ a = b * (a \div b) + (a % b)
<1> DEFINE k == a \div b
           m == a % b
<1>1. k \in Int /\ m \in Int /\ a = b * k + m /\ 0 <= m /\ m < b
  OBVIOUS
<1> HIDE DEF k, m
<1>2. m \in 0 .. b - 1
  BY <1>1
<1>3. QED
  BY <1>1, <1>2 DEF k, m

\* A product is below another factor by factor.
LEMMA Product ==
    ASSUME NEW b \in Nat \ {0}, NEW x \in Int, NEW y \in Int
    PROVE  x <= y <=> b * x <= b * y
<1>1. ASSUME x <= y PROVE b * x <= b * y
  BY <1>1
<1>2. ASSUME y < x PROVE b * y < b * x
  <2>1. y + 1 <= x
    BY <1>2
  <2>2. b * (y + 1) <= b * x /\ b * (y + 1) = b * y + b
    BY <2>1
  <2>3. b * x \in Int /\ b * y \in Int
    OBVIOUS
  <2>4. QED
    BY <2>2, <2>3
<1>3. b * x \in Int /\ b * y \in Int
  OBVIOUS
<1>4. QED
  BY <1>1, <1>2, <1>3

\* A quotient is at least q where the dividend is at least that many divisors.
LEMMA QuotientBound ==
    ASSUME NEW a \in Int, NEW b \in Nat \ {0}, NEW q \in Int
    PROVE  q <= a \div b <=> b * q <= a
<1> DEFINE k == a \div b
           m == a % b
<1>1. k \in Int /\ m \in 0 .. b - 1 /\ a = b * k + m
  BY Division
<1> HIDE DEF k, m
<1>2. ASSUME q <= k PROVE b * q <= a
  <2>1. b * q <= b * k
    BY <1>1, <1>2, Product
  <2>2. b * q \in Int /\ b * k \in Int
    BY <1>1
  <2>3. QED
    BY <1>1, <2>1, <2>2
<1>3. ASSUME k < q PROVE ~(b * q <= a)
  <2>1. b * (k + 1) <= b * q
    BY <1>1, <1>3, Product
  <2>2. b * (k + 1) = b * k + b /\ b * q \in Int /\ b * k \in Int
    BY <1>1
  <2>3. QED
    BY <1>1, <2>1, <2>2
<1>4. QED
  BY <1>1, <1>2, <1>3 DEF k

-----------------------------------------------------------------------------
(* The arguments of the call.                                                *)

ArgInv ==
    /\ world \in Worlds /\ backward \in BOOLEAN
    /\ output \in IF backward THEN {"replicated"} ELSE {"replicated", "sharded"}
    /\ mine = [r \in RankId |-> IF r < world THEN Shard(n_tasks, r, world) ELSE {}]

\* The ranks of the group are numbers, rank 0 among them.
LEMMA RanksAre ==
    ASSUME ArgInv
    PROVE  /\ world \in Nat \ {0}
           /\ 0 \in Ranks /\ Ranks \subseteq RankId /\ Ranks \subseteq Nat
<1> DEFINE w == CHOOSE v \in Worlds : \A u \in Worlds : u <= v
<1>1. Worlds \subseteq Nat /\ Worlds # {} /\ IsFiniteSet(Worlds) /\ world \in Worlds
  BY DistributedAssumption DEF ArgInv
<1>2. \E v \in Worlds : \A u \in Worlds : u <= v
  BY <1>1, LargestNatural
<1>3. w \in Worlds /\ \A u \in Worlds : u <= w
  BY <1>2
<1> HIDE DEF w
<1>4. world \in Nat \ {0} /\ w \in Nat /\ world <= w
  BY <1>1, <1>3, DistributedAssumption
<1>5. RankId = 0 .. w - 1
  BY DEF RankId, w
<1>6. QED
  BY <1>4, <1>5 DEF Ranks

\* The buffers of a call.
LEMMA BuffersAre ==
    /\ backward => Buffers = <<"dq", "dk", "dv">> /\ Len(Buffers) = 3
    /\ ~backward => Buffers = <<"out">> /\ Len(Buffers) = 1
    /\ DOMAIN Buffers = 1 .. Len(Buffers)
    /\ Len(Buffers) \in Nat \ {0}
    /\ \A i \in DOMAIN Buffers : Buffers[i] \in Range(Buffers)
    /\ \A b \in Range(Buffers) : \E i \in DOMAIN Buffers : b = Buffers[i]
    /\ \A i, j \in DOMAIN Buffers : Buffers[i] = Buffers[j] => i = j
<1>1. Range(Buffers) = {Buffers[i] : i \in DOMAIN Buffers}
  BY DEF Range
<1>2. CASE backward
  <2>1. Buffers = <<"dq", "dk", "dv">>
    BY <1>2 DEF Buffers
  <2>2. Len(Buffers) = 3 /\ DOMAIN Buffers = 1 .. 3
    BY <2>1
  <2>3. \A i, j \in 1 .. 3 : Buffers[i] = Buffers[j] => i = j
    BY <2>1
  <2>4. QED
    BY <1>1, <1>2, <2>1, <2>2, <2>3
<1>3. CASE ~backward
  <2>1. Buffers = <<"out">>
    BY <1>3 DEF Buffers
  <2>2. Len(Buffers) = 1 /\ DOMAIN Buffers = 1 .. 1
    BY <2>1
  <2>3. \A i, j \in 1 .. 1 : Buffers[i] = Buffers[j] => i = j
    BY <2>1
  <2>4. QED
    BY <1>1, <1>3, <2>1, <2>2, <2>3
<1>4. QED
  BY <1>2, <1>3

-----------------------------------------------------------------------------
(* The place of a path in all_paths.                                         *)

Place(p) == CHOOSE f : f = [d \in 0 .. Itr |-> IF d = 0 THEN 0 ELSE C * f[d-1] + p[d]]

\* The index of a path in all_paths is its value in base C,
LEMMA PathIdxIs == ASSUME NEW t PROVE PathIdx(t) = Place(t.path)[Itr]
  BY Zenon DEF PathIdx, Place

\* read digit by digit.
LEMMA PlaceIs ==
    ASSUME NEW p, \A d \in 1 .. Itr : p[d] \in Chunk
    PROVE  /\ Place(p)[0] = 0
           /\ \A d \in 1 .. Itr : Place(p)[d] = C * Place(p)[d-1] + p[d]
           /\ \A d \in 0 .. Itr : Place(p)[d] \in Nat
<1> DEFINE Fits(f, k) == f = [d \in 0 .. k |-> IF d = 0 THEN 0 ELSE C * f[d-1] + p[d]]
           H == {k \in Nat : k <= Itr => \E f \in [0 .. k -> Nat] : Fits(f, k)}
<1>0. Itr \in Nat \ {0} /\ C \in Nat \ {0} /\ Chunk \subseteq Nat
  BY ItrAssumption, DecompositionAssumption DEF Chunk
<1>1. 0 \in H
  <2> DEFINE f == [d \in 0 .. 0 |-> 0]
  <2>1. f \in [0 .. 0 -> Nat] /\ Fits(f, 0)
    OBVIOUS
  <2>2. QED
    BY <2>1
<1>2. ASSUME NEW k \in Nat, k \in H PROVE k + 1 \in H
  <2> SUFFICES ASSUME k + 1 <= Itr PROVE \E f \in [0 .. k + 1 -> Nat] : Fits(f, k + 1)
    OBVIOUS
  <2>1. PICK f \in [0 .. k -> Nat] : Fits(f, k)
    BY <1>0, <1>2
  <2> DEFINE g == [d \in 0 .. k + 1 |-> IF d = k + 1 THEN C * f[k] + p[k+1] ELSE f[d]]
  <2>2. f[k] \in Nat /\ p[k+1] \in Nat
    <3>1. k + 1 \in 1 .. Itr /\ k \in 0 .. k
      BY <1>0
    <3>2. p[k+1] \in Chunk
      BY <3>1
    <3>3. QED
      BY <1>0, <3>1, <3>2
  <2>3. C * f[k] + p[k+1] \in Nat
    BY <1>0, <2>2
  <2>4. g \in [0 .. k + 1 -> Nat]
    BY <2>3
  <2>5. \A d \in 0 .. k : g[d] = f[d]
    OBVIOUS
  <2>6. g[k+1] = C * f[k] + p[k+1]
    OBVIOUS
  <2>7. \A d \in 0 .. k : f[d] = IF d = 0 THEN 0 ELSE C * f[d-1] + p[d]
    BY <2>1
  <2>8. ASSUME NEW d \in 0 .. k + 1
        PROVE  g[d] = IF d = 0 THEN 0 ELSE C * g[d-1] + p[d]
    <3>1. CASE d = k + 1
      <4>1. g[d-1] = f[k]
        BY <2>5, <3>1
      <4>2. QED
        BY <2>6, <3>1, <4>1
    <3>2. CASE d \in 1 .. k
      <4>1. g[d] = f[d] /\ g[d-1] = f[d-1] /\ d # 0 /\ d \in 0 .. k
        BY <2>5, <3>2
      <4>2. QED
        BY <2>7, <4>1
    <3>3. CASE d = 0
      BY <2>5, <2>7, <3>3
    <3>4. QED
      BY <3>1, <3>2, <3>3
  <2> HIDE DEF g
  <2>9. Fits(g, k + 1)
    BY <2>4, <2>8
  <2>10. QED
    BY <2>4, <2>9
<1>3. \E f \in [0 .. Itr -> Nat] : Fits(f, Itr)
  <2> HIDE DEF H
  <2>1. Itr \in H
    BY <1>0, <1>1, <1>2, Induction
  <2>2. QED
    BY <1>0, <2>1 DEF H
<1>4. Fits(Place(p), Itr)
  BY <1>3 DEF Place
<1>5. \A d \in 0 .. Itr : Place(p)[d] = IF d = 0 THEN 0 ELSE C * Place(p)[d-1] + p[d]
  BY <1>4
<1>6. \A d \in 1 .. Itr : Place(p)[d] = C * Place(p)[d-1] + p[d]
  BY <1>5
<1>7. Place(p)[0] = 0
  BY <1>0, <1>5
<1> DEFINE G == {k \in Nat : k <= Itr => Place(p)[k] \in Nat}
<1>8. 0 \in G
  BY <1>7
<1>9. ASSUME NEW k \in Nat, k \in G PROVE k + 1 \in G
  <2> SUFFICES ASSUME k + 1 <= Itr PROVE Place(p)[k+1] \in Nat
    OBVIOUS
  <2>2. k + 1 \in 1 .. Itr /\ (k + 1) - 1 = k
    BY <1>0
  <2>1. Place(p)[k] \in Nat /\ p[k+1] \in Nat
    <3>1. p[k+1] \in Chunk
      BY <2>2
    <3>2. k <= Itr /\ (k <= Itr => Place(p)[k] \in Nat)
      BY <1>0, <1>9
    <3>3. p[k+1] \in Nat
      BY <1>0, <3>1
    <3>4. QED
      BY <3>2, <3>3
  <2>3. Place(p)[k+1] = C * Place(p)[k] + p[k+1]
    BY <1>6, <2>2
  <2>4. QED
    BY <1>0, <2>1, <2>3
<1>10. \A d \in 0 .. Itr : Place(p)[d] \in Nat
  <2> HIDE DEF G
  <2>1. \A k \in Nat : k \in G
    BY <1>8, <1>9, Induction
  <2>2. QED
    BY <1>0, <2>1 DEF G
<1>11. QED
  BY <1>6, <1>7, <1>10

\* Paths that begin alike have the same places as far as they agree.
LEMMA PlaceSame ==
    ASSUME NEW p, NEW q, \A d \in 1 .. Itr : p[d] \in Chunk /\ q[d] \in Chunk,
           NEW n \in 0 .. Itr, \A d \in 1 .. n : q[d] = p[d]
    PROVE  Place(p)[n] = Place(q)[n]
<1> DEFINE H == {k \in Nat : k <= n => Place(p)[k] = Place(q)[k]}
<1>0. Itr \in Nat /\ n \in Nat /\ n <= Itr
  BY ItrAssumption
<1>1. 0 \in H
  BY PlaceIs
<1>2. ASSUME NEW k \in Nat, k \in H PROVE k + 1 \in H
  <2> SUFFICES ASSUME k + 1 <= n PROVE Place(p)[k+1] = Place(q)[k+1]
    OBVIOUS
  <2>1. k + 1 \in 1 .. Itr /\ k + 1 \in 1 .. n /\ (k + 1) - 1 = k
    BY <1>0
  <2>2. Place(p)[k+1] = C * Place(p)[k] + p[k+1]
    BY <2>1, PlaceIs
  <2>3. Place(q)[k+1] = C * Place(q)[k] + q[k+1]
    BY <2>1, PlaceIs
  <2>4. QED
    BY <1>0, <1>2, <2>1, <2>2, <2>3
<1> HIDE DEF H
<1>3. n \in H
  BY <1>0, <1>1, <1>2, Induction
<1>4. QED
  BY <1>0, <1>3 DEF H

\* A subproblem has a place once its path is long enough, and its children have that
\* place too.
LEMMA PathIdxOf ==
    ASSUME NEW t, WellFormed(t), Len(t.path) >= Itr
    PROVE  /\ PathIdx(t) \in Nat
           /\ \A k \in Children(t) : PathIdx(k) = PathIdx(t)
<1>0. Itr \in Nat \ {0}
  BY ItrAssumption
<1>1. t.path \in Seq(Chunk) /\ Len(t.path) \in Nat
  BY DEF WellFormed
<1>2. \A d \in 1 .. Itr : t.path[d] \in Chunk
  BY <1>0, <1>1
<1>3. ASSUME NEW k \in Children(t) PROVE PathIdx(k) = PathIdx(t)
  <2>1. PICK j \in Chunk : k = Child(t, j)
    BY <1>3 DEF Children
  <2>2. k.path = Append(t.path, j)
    BY <2>1 DEF Child
  <2>3. \A d \in 1 .. Itr : k.path[d] = t.path[d]
    BY <1>0, <1>1, <2>2
  <2>4. Place(t.path)[Itr] = Place(k.path)[Itr]
    <3>1. Itr \in 0 .. Itr /\ \A d \in 1 .. Itr : k.path[d] \in Chunk
      BY <1>0, <1>2, <2>3
    <3>2. QED
      BY <1>2, <2>3, <3>1, PlaceSame
  <2>5. QED
    BY <2>4, PathIdxIs
<1>4. PathIdx(t) \in Nat
  <2>1. \A d \in 0 .. Itr : Place(t.path)[d] \in Nat
    BY <1>2, PlaceIs
  <2>2. QED
    BY <1>0, <2>1, PathIdxIs
<1>5. QED
  BY <1>3, <1>4

-----------------------------------------------------------------------------
(* The engines of all ranks, taken together, are a hybrid schedule.          *)

\* The engines of all ranks together follow a hybrid schedule.
LEMMA Projects == DistSpec => Spec
<1>1. DistInit => Init
  BY DEF DistInit
<1>2. [DistNext]_distVars => [Next]_vars
  <2> SUFFICES ASSUME [DistNext]_distVars PROVE [Next]_vars
    OBVIOUS
  <2>1. CASE BuildTasks
    BY <2>1 DEF BuildTasks, Next
  <2>2. ASSUME NEW r \in Ranks, NEW t \in pending, RankMerge(r, t) PROVE Next
    BY <2>2 DEF RankMerge, Next
  <2>3. ASSUME NEW r \in Ranks, NEW t \in pending, RankRefine(r, t) PROVE Next
    BY <2>3 DEF RankRefine, Next
  <2>4. ASSUME NEW r, RankReady(r) \/ RankReturns(r) \/ RankRaises(r) PROVE UNCHANGED vars
    BY <2>4 DEF RankReady, RankReturns, RankRaises
  <2>5. CASE AllReduce
    BY <2>5 DEF AllReduce
  <2>6. CASE UNCHANGED distVars
    BY <2>6 DEF distVars
  <2>7. QED
    BY <2>1, <2>2, <2>3, <2>4, <2>5, <2>6 DEF DistNext, Progress, Step
<1>3. QED
  BY <1>1, <1>2, PTL DEF DistSpec, Spec

-----------------------------------------------------------------------------
(* The inductive invariant.                                                  *)

Ready(r) == rpc[r] \in {"reduce", "returned"}

RankInv ==
    /\ rpc \in [RankId -> {"run", "reduce", "returned", "raised"}]
    /\ round \in [RankId -> Nat]
    /\ part \in [RankId -> [Token -> [Token -> Nat]]]
    /\ result \in [RankId -> [Range(Buffers) -> [Token -> [Token -> Nat]]]]

\* A subproblem is no shorter than the levels built.
PathInv == \A t \in pending : Len(t.path) >= level

\* A rank that is through with its engine owns nothing and will own nothing.
ReadyInv == \A r \in Ranks : Ready(r) => level = Itr /\ Owned(r) = {}

\* An attended pair was attended by one rank.
OneRank(x, y) ==
    \E r \in Ranks : part[r][x][y] = 1 /\ \A q \in RankId \ {r} : part[q][x][y] = 0

PartInv ==
    \A x, y \in Token :
        \/ attended[<<x, y>>] = 0 /\ \A r \in RankId : part[r][x][y] = 0
        \/ attended[<<x, y>>] = 1 /\ OneRank(x, y)

\* Collectives are entered together.
RoundInv ==
    \A r \in Ranks :
        /\ round[r] = round[0]
        /\ round[r] > 0 => \A q \in Ranks : Ready(q)
        /\ rpc[r] = "returned" => round[r] >= Rounds(r)

\* The round that reduces row x of buffer i, and what a rank holds of it.
Pos(i, x) == (i - 1) * PerBuffer(N) + (x \div ChunkTokens)

ResultInv ==
    \A r \in Ranks : Ready(r) =>
        \A i \in DOMAIN Buffers, x \in Token :
            result[r][Buffers[i]][x] =
                IF Pos(i, x) < round[r] /\ x \in Promised(r) THEN [y \in Token |-> 1]
                ELSE Partial(r, Buffers[i])[x]

IInv == ArgInv /\ RankInv /\ PathInv /\ ReadyInv /\ PartInv /\ RoundInv /\ ResultInv

\* The list is as long as all_paths: no subproblem of the initial depth is empty.
FullList == \A p \in [1 .. Itr -> Chunk] : PathIdx([path |-> p]) \in 0 .. n_tasks - 1

\* The invariant holds of the initial states.
LEMMA InitInv == DistInit => IInv
<1> SUFFICES ASSUME DistInit PROVE IInv
  OBVIOUS
<1>1. ArgInv
  BY DEF DistInit, ArgInv
<1>2. 0 \in Ranks /\ Ranks \subseteq RankId
  BY <1>1, RanksAre
<1>3. Zero \in [Token -> Nat]
  BY DEF Zero
<1>4. RankInv
  BY <1>3 DEF DistInit, RankInv
<1>5. PathInv
  BY RootKept DEF DistInit, Init, PathInv, Root
<1>6. \A r \in Ranks : ~Ready(r) /\ round[r] = 0
  BY <1>2 DEF DistInit, Ready
<1>7. PartInv
  BY DEF DistInit, Init, PartInv, Pair, Zero
<1>8. RoundInv
  BY <1>2, <1>6 DEF RoundInv, Ready
<1>9. QED
  BY <1>1, <1>4, <1>5, <1>6, <1>7, <1>8 DEF IInv, ReadyInv, ResultInv

\* Every pending subproblem of a full list is some rank's.
LEMMA OwnedBySome ==
    ASSUME FullList, ArgInv, TypeOK, PathInv, level = Itr, NEW t \in pending
    PROVE  \E r \in Ranks : t \in Owned(r)
<1>1. WellFormed(t) /\ Len(t.path) >= Itr
  BY DEF TypeOK, PathInv
<1>2. world \in Nat \ {0} /\ Ranks \subseteq RankId
  BY RanksAre
<1>3. Itr \in Nat \ {0} /\ t.path \in Seq(Chunk) /\ Len(t.path) \in Nat
  BY <1>1, ItrAssumption DEF WellFormed
<1> DEFINE p == [d \in 1 .. Itr |-> t.path[d]]
           i == PathIdx(t)
           r == i % world
<1>4. \A d \in 1 .. Itr : t.path[d] \in Chunk /\ p[d] = t.path[d]
  BY <1>1, <1>3
<1>5. p \in [1 .. Itr -> Chunk]
  BY <1>4
<1>6. PathIdx([path |-> p]) = PathIdx(t)
  <2>1. [path |-> p].path = p
    OBVIOUS
  <2> HIDE DEF p
  <2>2. Place(t.path)[Itr] = Place(p)[Itr]
    <3>1. Itr \in 0 .. Itr /\ \A d \in 1 .. Itr : p[d] \in Chunk
      BY <1>3, <1>4
    <3>2. QED
      BY <1>4, <3>1, PlaceSame
  <2>3. PathIdx([path |-> p]) = Place([path |-> p].path)[Itr] /\ PathIdx(t) = Place(t.path)[Itr]
    BY PathIdxIs
  <2>4. QED
    BY <2>1, <2>2, <2>3
<1>7. i \in Nat /\ i \in 0 .. n_tasks - 1
  BY <1>1, <1>5, <1>6, PathIdxOf DEF FullList
<1> HIDE DEF i
<1>8. r \in 0 .. world - 1
  BY <1>2, <1>7, Division
<1> HIDE DEF r
<1>9. r \in Ranks /\ r \in RankId /\ r < world
  BY <1>2, <1>8 DEF Ranks
<1>10. i \in mine[r]
  <2>1. mine[r] = Shard(n_tasks, r, world)
    BY <1>9 DEF ArgInv
  <2>2. QED
    BY <1>7, <2>1 DEF Shard, r
<1>11. QED
  BY <1>9, <1>10 DEF Owned, i

-----------------------------------------------------------------------------
(* Blocks of rows.                                                           *)

\* Every row falls in one of the blocks of a buffer.
LEMMA BlocksOf ==
    ASSUME NEW x \in Token
    PROVE  /\ PerBuffer(N) \in Nat \ {0}
           /\ x \div ChunkTokens \in 0 .. PerBuffer(N) - 1
<1> DEFINE b == ChunkTokens
           q == x \div b
           p == (N + b - 1) \div b
<1>1. b \in Nat \ {0} /\ N \in Nat /\ x \in Nat /\ x <= N - 1
  BY DistributedAssumption, DecompositionAssumption DEF Token
<1> HIDE DEF b
<1>2. N + b - 1 \in Int /\ p \in Int
  BY <1>1, Division
<1>3. q \in Int /\ b * q <= x
  <2>1. q \in Int /\ (x % b) \in 0 .. b - 1 /\ x = b * q + (x % b)
    BY <1>1, Division
  <2>2. b * q \in Int
    BY <1>1, <2>1
  <2>3. QED
    BY <1>1, <2>1, <2>2
<1>4. 0 <= q
  BY <1>1, QuotientBound
<1>5. b * (q + 1) <= N + b - 1
  <2>1. b * (q + 1) = b * q + b /\ b * q \in Int
    BY <1>1, <1>3
  <2>2. QED
    BY <1>1, <1>3, <2>1
<1>6. q + 1 <= p
  BY <1>1, <1>2, <1>3, <1>5, QuotientBound
<1>7. p = PerBuffer(N)
  BY DEF PerBuffer, b
<1> HIDE DEF p, q
<1>8. PerBuffer(N) \in Nat \ {0} /\ q \in 0 .. PerBuffer(N) - 1
  BY <1>2, <1>3, <1>4, <1>6, <1>7
<1>9. QED
  BY <1>8 DEF q, b

\* The rows of a round.
LEMMA BlockIs ==
    ASSUME NEW n \in Nat, NEW x \in Token
    PROVE  x \in Block(n) <=> x \div ChunkTokens = n % PerBuffer(N)
<1> DEFINE b == ChunkTokens
           m == n % PerBuffer(N)
           q == x \div b
           r == x % b
<1>1. b \in Nat \ {0} /\ N \in Nat /\ x \in Nat /\ x < N
  BY DistributedAssumption, DecompositionAssumption DEF Token
<1>2. PerBuffer(N) \in Nat \ {0}
  BY BlocksOf
<1>3. m \in Nat
  <2>1. m \in 0 .. PerBuffer(N) - 1
    BY <1>2, Division
  <2>2. QED
    BY <1>2, <2>1
<1>4. Block(n) = (b * m) .. (IF b * m + b < N THEN b * m + b ELSE N) - 1
  BY DEF Block
<1> HIDE DEF b, m
<1>5. q \in Int /\ r \in 0 .. b - 1 /\ x = b * q + r
  BY <1>1, Division
<1>6. b * m \in Int
  BY <1>1, <1>3
<1>7. ASSUME x \in Block(n) PROVE q = m
  <2> DEFINE k == x - b * m
  <2>1. k \in 0 .. b - 1 /\ x = b * m + k
    BY <1>1, <1>4, <1>6, <1>7
  <2> HIDE DEF k
  <2>2. QED
    BY <1>1, <1>3, <2>1, Quotient
<1> HIDE DEF q, r
<1>8. ASSUME q = m PROVE x \in Block(n)
  BY <1>1, <1>4, <1>5, <1>6, <1>8
<1>9. QED
  BY <1>7, <1>8 DEF q, m, b

\* A round reduces one block of one buffer.
LEMMA PosIs ==
    ASSUME NEW n \in Nat, NEW i \in Nat \ {0}, NEW x \in Token
    PROVE  /\ Pos(i, x) \in Nat
           /\ Pos(i, x) < i * PerBuffer(N)
           /\ Pos(i, x) = n <=> i = 1 + (n \div PerBuffer(N)) /\ x \in Block(n)
<1> DEFINE p == PerBuffer(N)
           q == x \div ChunkTokens
<1>1. p \in Nat \ {0} /\ q \in 0 .. p - 1
  BY BlocksOf
<1>2. x \in Block(n) <=> q = n % p
  BY BlockIs
<1>3. Pos(i, x) = (i - 1) * p + q
  BY DEF Pos
<1> HIDE DEF p, q
<1>4. (i - 1) * p \in Nat /\ (i - 1) * p = p * (i - 1) /\ i * p = (i - 1) * p + p
  BY <1>1
<1>5. Pos(i, x) \in Nat /\ Pos(i, x) < i * p
  BY <1>1, <1>3, <1>4
<1>6. i - 1 \in Int
  OBVIOUS
<1>7. ASSUME Pos(i, x) = n PROVE i - 1 = n \div p /\ q = n % p
  <2>1. n = p * (i - 1) + q
    BY <1>3, <1>4, <1>7
  <2>2. QED
    BY <1>1, <1>6, <2>1, Quotient
<1>8. n \div p \in Int /\ n = p * (n \div p) + (n % p)
  BY <1>1, Division
<1>9. ASSUME i - 1 = n \div p, q = n % p PROVE Pos(i, x) = n
  BY <1>3, <1>4, <1>8, <1>9
<1>10. i - 1 = n \div p <=> i = 1 + (n \div p)
  BY <1>8
<1>11. QED
  BY <1>2, <1>5, <1>7, <1>9, <1>10 DEF p

\* Of a pair that one rank attended once and no other did, the ranks' sum is one.
LEMMA SumIsOne ==
    ASSUME ArgInv, NEW b, NEW x, NEW y, NEW k \in Ranks, Brought(k, b, x)[y] = 1,
           \A q \in Ranks \ {k} : Brought(q, b, x)[y] = 0
    PROVE  Reduced(b, x, y) = 1
<1> DEFINE D == -1 .. world - 1
           Fits(f) == f = [r \in D |-> IF r = -1 THEN 0 ELSE f[r-1] + Brought(r, b, x)[y]]
           h == [r \in D |-> IF r < k THEN 0 ELSE 1]
           g == CHOOSE f : Fits(f)
<1>1. world \in Nat \ {0} /\ Ranks = 0 .. world - 1
  BY RanksAre DEF Ranks
<1>2. k \in Int /\ 0 <= k /\ k <= world - 1
  BY <1>1
<1>3. \A r \in D : r = -1 \/ (r \in Ranks /\ r - 1 \in D)
  BY <1>1
<1>4. Fits(h)
  <2>1. ASSUME NEW r \in D
        PROVE  h[r] = IF r = -1 THEN 0 ELSE h[r-1] + Brought(r, b, x)[y]
    <3>1. CASE r = -1
      BY <1>2, <3>1
    <3>2. CASE r # -1
      <4>1. r \in Ranks /\ r - 1 \in D /\ r \in Int
        BY <1>1, <1>3, <3>2
      <4>2. h[r-1] = IF r - 1 < k THEN 0 ELSE 1
        BY <4>1
      <4>3. Brought(r, b, x)[y] = IF r = k THEN 1 ELSE 0
        BY <4>1
      <4>4. QED
        BY <1>2, <3>2, <4>1, <4>2, <4>3
    <3>3. QED
      BY <3>1, <3>2
  <2>2. h = [r \in D |-> h[r]]
    OBVIOUS
  <2> HIDE DEF h, D
  <2>3. QED
    BY <2>1, <2>2
<1>5. Fits(g)
  <2> HIDE DEF Fits, h
  <2>1. QED
    BY <1>4
<1>6. \A r \in D : g[r] = IF r = -1 THEN 0 ELSE g[r-1] + Brought(r, b, x)[y]
  <2> HIDE DEF g, D
  <2>1. QED
    BY <1>5
<1> DEFINE H == {n \in Nat : n <= world => g[n-1] = h[n-1]}
<1> HIDE DEF g
<1>7. 0 \in H
  <2>1. -1 \in D
    BY <1>1
  <2>2. g[-1] = 0 /\ h[-1] = 0
    BY <1>2, <1>6, <2>1
  <2>3. QED
    BY <2>2
<1>8. ASSUME NEW n \in Nat, n \in H PROVE n + 1 \in H
  <2> SUFFICES ASSUME n + 1 <= world PROVE g[n] = h[n]
    OBVIOUS
  <2>1. n \in D /\ n # -1 /\ n \in Ranks
    BY <1>1
  <2>2. g[n-1] = h[n-1]
    BY <1>1, <1>8
  <2>3. g[n] = g[n-1] + Brought(n, b, x)[y]
    BY <1>6, <2>1
  <2>4. h[n] = h[n-1] + Brought(n, b, x)[y]
    <3> HIDE DEF h, D
    <3>1. \A r \in D : h[r] = IF r = -1 THEN 0 ELSE h[r-1] + Brought(r, b, x)[y]
      BY <1>4
    <3>2. QED
      BY <2>1, <3>1
  <2>5. QED
    BY <2>2, <2>3, <2>4
<1>9. g[world-1] = h[world-1]
  <2> HIDE DEF H
  <2>1. world \in H
    BY <1>1, <1>7, <1>8, Induction
  <2>2. QED
    BY <1>1, <2>1 DEF H
<1>10. h[world-1] = 1
  BY <1>1, <1>2
<1>11. Reduced(b, x, y) = g[world-1]
  BY Zenon DEF Reduced, g
<1>12. QED
  BY <1>9, <1>10, <1>11

-----------------------------------------------------------------------------
(* Every step preserves the invariant.                                       *)

\* What the collectives and the engine's results leave alone.
LEMMA SameArgs ==
    ASSUME ArgInv, UNCHANGED argVars
    PROVE  /\ ArgInv' /\ mine' = mine /\ world' = world /\ Ranks' = Ranks
           /\ Buffers' = Buffers /\ backward' = backward /\ output' = output
           /\ \A r : Promised(r)' = Promised(r) /\ Rounds(r)' = Rounds(r)
<1>1. mine' = mine /\ world' = world /\ backward' = backward /\ output' = output
  BY DEF argVars
<1>2. ArgInv' /\ Ranks' = Ranks
  BY <1>1 DEF ArgInv, Ranks
<1>3. Buffers' = Buffers
  BY <1>1 DEF Buffers
<1>4. \A r : Promised(r)' = Promised(r)
  BY <1>1 DEF Promised, Lo, Hi
<1>5. \A r : Rounds(r)' = Rounds(r)
  BY <1>3 DEF Rounds, End
<1>6. QED
  BY <1>1, <1>2, <1>3, <1>4, <1>5

\* Building a level keeps it,
LEMMA BuildTasksInv ==
    ASSUME TypeOK, IInv, BuildTasks
    PROVE  IInv'
<1>0. Deepen /\ UNCHANGED rankVars
  BY DEF BuildTasks
<1>1. /\ UNCHANGED argVars
      /\ rpc' = rpc /\ part' = part /\ round' = round /\ result' = result
  BY <1>0 DEF rankVars
<1>2. level < Itr /\ level' = level + 1 /\ attended' = attended
  BY <1>0 DEF Deepen
<1>3. Itr \in Nat /\ level \in Nat /\ level # Itr
  BY <1>2, ItrAssumption DEF TypeOK
<1>4. ArgInv' /\ Ranks' = Ranks /\ Buffers' = Buffers
  BY <1>1, SameArgs DEF IInv
<1>5. \A r \in Ranks : ~Ready(r)
  BY <1>3 DEF IInv, ReadyInv
<1>6. \A r \in Ranks : ~Ready(r)'
  BY <1>1, <1>5 DEF Ready
<1>7. RankInv'
  BY <1>1, <1>4 DEF IInv, RankInv
<1>8. PathInv'
  <2> SUFFICES ASSUME NEW k \in pending' PROVE Len(k.path) >= level'
    BY DEF PathInv
  <2>1. PICK t \in pending : k \in Children(t)
    BY <1>0 DEF Deepen
  <2>2. WellFormed(t) /\ Len(t.path) >= level
    BY DEF TypeOK, IInv, PathInv
  <2>3. PICK j \in Chunk : k = Child(t, j)
    BY <2>1 DEF Children
  <2>4. k.path = Append(t.path, j)
    BY <2>3 DEF Child
  <2>5. Len(k.path) = Len(t.path) + 1 /\ Len(t.path) \in Nat
    BY <2>2, <2>4 DEF WellFormed
  <2>6. QED
    BY <1>2, <1>3, <2>2, <2>5
<1>9. ReadyInv' /\ ResultInv'
  BY <1>4, <1>6 DEF ReadyInv, ResultInv
<1>10. PartInv'
  <2>1. \A x, y \in Token : OneRank(x, y)' <=> OneRank(x, y)
    BY <1>1, <1>4 DEF OneRank
  <2>2. PartInv
    BY DEF IInv
  <2>3. QED
    BY <1>1, <1>2, <2>1, <2>2 DEF PartInv
<1>11. RoundInv'
  <2>1. \A r : Rounds(r)' = Rounds(r)
    BY <1>1, SameArgs DEF IInv
  <2>2. QED
    BY <1>1, <1>4, <1>5, <1>6, <2>1 DEF IInv, RoundInv, Ready
<1>12. QED
  BY <1>4, <1>7, <1>8, <1>9, <1>10, <1>11 DEF IInv

\* and so does a subproblem that a rank attends,
LEMMA RankMergeInv ==
    ASSUME TypeOK, ExactlyOnce, IInv, NEW r \in Ranks, NEW t \in pending, RankMerge(r, t)
    PROVE  IInv'
<1>0. /\ Merge(t) /\ UNCHANGED <<argVars, rpc, round, result>> /\ rpc[r] = "run"
      /\ part' = [part EXCEPT ![r] = [x \in Token |-> [y \in Token |->
                    @[x][y] + (IF <<x, y>> \in Kept(t) THEN 1 ELSE 0)]]]
  BY DEF RankMerge, Running
<1>1. UNCHANGED argVars /\ rpc' = rpc /\ round' = round /\ result' = result
  BY <1>0
<1>2. /\ level' = level /\ pending' = pending \ {t}
      /\ attended' = [p \in Pair |-> attended[p] + (IF p \in Kept(t) THEN 1 ELSE 0)]
  BY <1>0 DEF Merge
<1>3. /\ ArgInv' /\ mine' = mine /\ Ranks' = Ranks /\ Buffers' = Buffers
      /\ backward' = backward
      /\ \A q : Promised(q)' = Promised(q) /\ Rounds(q)' = Rounds(q)
  BY <1>1, SameArgs DEF IInv
<1>4. Ranks \subseteq RankId /\ r \in RankId
  BY RanksAre DEF IInv
<1>5. part \in [RankId -> [Token -> [Token -> Nat]]]
  BY DEF IInv, RankInv
<1>6. \A q \in RankId \ {r} : part'[q] = part[q]
  BY <1>0, <1>5
<1>7. \A x, y \in Token :
         part'[r][x][y] = part[r][x][y] + (IF <<x, y>> \in Kept(t) THEN 1 ELSE 0)
  BY <1>0, <1>4, <1>5
<1>8. part' \in [RankId -> [Token -> [Token -> Nat]]]
  <2> DEFINE h == [x \in Token |-> [y \in Token |->
                    part[r][x][y] + (IF <<x, y>> \in Kept(t) THEN 1 ELSE 0)]]
  <2>1. \A x, y \in Token : part[r][x][y] + (IF <<x, y>> \in Kept(t) THEN 1 ELSE 0) \in Nat
    BY <1>4, <1>5
  <2>2. h \in [Token -> [Token -> Nat]]
    BY <2>1
  <2>3. part' = [part EXCEPT ![r] = h]
    BY <1>0, <1>5
  <2> HIDE DEF h
  <2>4. QED
    BY <1>4, <1>5, <2>2, <2>3
<1>9. RankInv'
  BY <1>1, <1>3, <1>8 DEF IInv, RankInv
<1>10. PathInv'
  BY <1>2 DEF IInv, PathInv
<1>11. \A q : Ready(q)' = Ready(q)
  BY <1>1 DEF Ready
<1>12. ReadyInv'
  BY <1>2, <1>3, <1>11 DEF IInv, ReadyInv, Owned
<1>13. PartInv'
  <2> SUFFICES ASSUME NEW x \in Token, NEW y \in Token
               PROVE  \/ attended'[<<x, y>>] = 0 /\ \A q \in RankId : part'[q][x][y] = 0
                      \/ attended'[<<x, y>>] = 1 /\ OneRank(x, y)'
    BY DEF PartInv
  <2>1. <<x, y>> \in Pair
    BY DEF Pair
  <2>2. \/ attended[<<x, y>>] = 0 /\ \A q \in RankId : part[q][x][y] = 0
        \/ attended[<<x, y>>] = 1 /\ OneRank(x, y)
    BY DEF IInv, PartInv
  <2>3. CASE <<x, y>> \in Kept(t)
    <3>1. attended[<<x, y>>] = 0
      BY <2>1, <2>3 DEF ExactlyOnce
    <3>2. attended'[<<x, y>>] = 1
      BY <1>2, <2>1, <2>3, <3>1
    <3>3. \A q \in RankId : part[q][x][y] = 0
      BY <2>2, <3>1
    <3>4. part'[r][x][y] = 1
      BY <1>4, <1>7, <2>3, <3>3
    <3>5. \A q \in RankId \ {r} : part'[q][x][y] = 0
      BY <1>6, <3>3
    <3>6. OneRank(x, y)'
      BY <1>3, <3>4, <3>5 DEF OneRank
    <3>7. QED
      BY <3>2, <3>6
  <2>4. CASE <<x, y>> \notin Kept(t)
    <3>1. attended'[<<x, y>>] = attended[<<x, y>>]
      BY <1>2, <2>1, <2>4 DEF TypeOK
    <3>2. \A q \in RankId : part'[q][x][y] = part[q][x][y]
      BY <1>4, <1>5, <1>6, <1>7, <2>4
    <3>3. OneRank(x, y) => OneRank(x, y)'
      BY <1>3, <1>4, <3>2 DEF OneRank
    <3>4. QED
      BY <2>2, <3>1, <3>2, <3>3
  <2>5. QED
    BY <2>3, <2>4
<1>14. RoundInv'
  BY <1>1, <1>3, <1>11 DEF IInv, RoundInv
<1>15. ResultInv'
  <2> SUFFICES ASSUME NEW q \in Ranks, Ready(q), NEW i \in DOMAIN Buffers, NEW x \in Token
               PROVE  result'[q][Buffers[i]][x] =
                        IF Pos(i, x) < round'[q] /\ x \in Promised(q)
                        THEN [y \in Token |-> 1] ELSE Partial(q, Buffers[i])'[x]
    BY <1>3, <1>11 DEF ResultInv, Pos
  <2>1. q # r /\ part'[q] = part[q]
    BY <1>0, <1>4, <1>6 DEF Ready
  <2>2. Partial(q, Buffers[i])' = Partial(q, Buffers[i])
    BY <1>3, <2>1 DEF Partial
  <2>3. QED
    BY <1>1, <2>2 DEF IInv, ResultInv
<1>16. QED
  BY <1>3, <1>9, <1>10, <1>12, <1>13, <1>14, <1>15 DEF IInv

\* one that a rank refines,
LEMMA RankRefineInv ==
    ASSUME TypeOK, IInv, NEW r \in Ranks, NEW t \in pending, RankRefine(r, t)
    PROVE  IInv'
<1>0. Refine(t) /\ UNCHANGED rankVars /\ t \in Owned(r) /\ level = Itr
  BY DEF RankRefine, Running
<1>1. /\ UNCHANGED argVars
      /\ rpc' = rpc /\ part' = part /\ round' = round /\ result' = result
  BY <1>0 DEF rankVars
<1>2. /\ level' = level /\ attended' = attended
      /\ pending' = (pending \ {t}) \cup Children(t)
  BY <1>0 DEF Refine
<1>3. /\ ArgInv' /\ mine' = mine /\ Ranks' = Ranks /\ Buffers' = Buffers
      /\ backward' = backward
      /\ \A q : Promised(q)' = Promised(q) /\ Rounds(q)' = Rounds(q)
  BY <1>1, SameArgs DEF IInv
<1>4. WellFormed(t) /\ Len(t.path) >= Itr
  BY <1>0 DEF TypeOK, IInv, PathInv
<1>5. \A k \in Children(t) : PathIdx(k) = PathIdx(t)
  BY <1>4, PathIdxOf
<1>6. RankInv'
  BY <1>1, <1>3 DEF IInv, RankInv
<1>7. PathInv'
  <2> SUFFICES ASSUME NEW k \in Children(t) PROVE Len(k.path) >= level
    BY <1>2 DEF IInv, PathInv
  <2>1. PICK j \in Chunk : k = Child(t, j)
    BY DEF Children
  <2>2. k.path = Append(t.path, j)
    BY <2>1 DEF Child
  <2>3. Len(k.path) = Len(t.path) + 1 /\ Len(t.path) \in Nat
    BY <1>4, <2>2 DEF WellFormed
  <2>4. QED
    BY <1>0, <1>4, <2>3, ItrAssumption
<1>8. \A q : Ready(q)' = Ready(q)
  BY <1>1 DEF Ready
<1>9. ReadyInv'
  <2> SUFFICES ASSUME NEW q \in Ranks, Ready(q) PROVE level' = Itr /\ Owned(q)' = {}
    BY <1>3, <1>8 DEF ReadyInv
  <2>1. Owned(q) = {} /\ level = Itr
    BY DEF IInv, ReadyInv
  <2>2. ASSUME NEW k \in pending', PathIdx(k) \in mine[q] PROVE FALSE
    <3>1. CASE k \in pending
      BY <2>1, <2>2, <3>1 DEF Owned
    <3>2. CASE k \in Children(t)
      BY <1>5, <2>1, <2>2, <3>2 DEF Owned
    <3>3. QED
      BY <1>2, <2>2, <3>1, <3>2
  <2>3. QED
    BY <1>2, <1>3, <2>1, <2>2 DEF Owned
<1>10. PartInv'
  <2>1. \A x, y \in Token : OneRank(x, y)' <=> OneRank(x, y)
    BY <1>1, <1>3 DEF OneRank
  <2>2. PartInv
    BY DEF IInv
  <2>3. QED
    BY <1>1, <1>2, <2>1, <2>2 DEF PartInv
<1>11. RoundInv'
  BY <1>1, <1>3, <1>8 DEF IInv, RoundInv
<1>12. ResultInv'
  BY <1>1, <1>3, <1>8 DEF IInv, ResultInv, Partial, Pos
<1>13. QED
  BY <1>3, <1>6, <1>7, <1>9, <1>10, <1>11, <1>12 DEF IInv

\* and a rank whose engine returns.
LEMMA RankReadyInv ==
    ASSUME IInv, NEW r \in Ranks, RankReady(r)
    PROVE  IInv'
<1>1. /\ rpc[r] = "run" /\ level = Itr /\ Owned(r) = {}
      /\ rpc' = [rpc EXCEPT ![r] = "reduce"]
      /\ result' = [result EXCEPT ![r] = [b \in Range(Buffers) |-> Partial(r, b)]]
      /\ UNCHANGED argVars /\ part' = part /\ round' = round
      /\ level' = level /\ pending' = pending /\ attended' = attended
  BY DEF RankReady, vars
<1>2. /\ ArgInv' /\ mine' = mine /\ Ranks' = Ranks /\ Buffers' = Buffers
      /\ backward' = backward
      /\ \A q : Promised(q)' = Promised(q) /\ Rounds(q)' = Rounds(q)
  BY <1>1, SameArgs DEF IInv
<1>3. Ranks \subseteq RankId /\ r \in RankId
  BY RanksAre DEF IInv
<1>4. RankInv
  BY DEF IInv
<1>5. \A b \in Range(Buffers) : Partial(r, b) \in [Token -> [Token -> Nat]]
  <2>1. \A x, y \in Token : part[r][x][y] \in Nat /\ part[r][y][x] \in Nat
    BY <1>3, <1>4 DEF RankInv
  <2>2. QED
    BY <2>1 DEF Partial
<1>6. RankInv'
  <2>1. rpc' \in [RankId -> {"run", "reduce", "returned", "raised"}]
    BY <1>1, <1>3, <1>4 DEF RankInv
  <2>2. result' \in [RankId -> [Range(Buffers) -> [Token -> [Token -> Nat]]]]
    <3> DEFINE h == [b \in Range(Buffers) |-> Partial(r, b)]
    <3>1. h \in [Range(Buffers) -> [Token -> [Token -> Nat]]]
      BY <1>5
    <3>2. result' = [result EXCEPT ![r] = h]
      BY <1>1
    <3> HIDE DEF h
    <3>3. QED
      BY <1>3, <1>4, <3>1, <3>2 DEF RankInv
  <2>3. QED
    BY <1>1, <1>2, <1>4, <2>1, <2>2 DEF RankInv
<1>7. PathInv'
  BY <1>1 DEF IInv, PathInv
<1>8. /\ \A q \in Ranks \ {r} : rpc'[q] = rpc[q]
      /\ rpc'[r] = "reduce"
      /\ \A q \in Ranks : Ready(q)' <=> Ready(q) \/ q = r
  BY <1>1, <1>3, <1>4 DEF Ready, RankInv
<1>9. ReadyInv'
  BY <1>1, <1>2, <1>8 DEF IInv, ReadyInv, Owned
<1>10. PartInv'
  <2>1. \A x, y \in Token : OneRank(x, y)' <=> OneRank(x, y)
    BY <1>1, <1>2 DEF OneRank
  <2>2. PartInv
    BY DEF IInv
  <2>3. QED
    BY <1>1, <2>1, <2>2 DEF PartInv
<1>11. RoundInv'
  BY <1>1, <1>2, <1>8 DEF IInv, RoundInv
<1>12. round[r] = 0
  <2>1. ~Ready(r) /\ round[r] \in Nat
    BY <1>1, <1>3, <1>4 DEF Ready, RankInv
  <2>2. QED
    BY <2>1 DEF IInv, RoundInv
<1>13. ResultInv'
  <2> SUFFICES ASSUME NEW q \in Ranks, Ready(q)', NEW i \in DOMAIN Buffers, NEW x \in Token
               PROVE  result'[q][Buffers[i]][x] =
                        IF Pos(i, x) < round'[q] /\ x \in Promised(q)
                        THEN [y \in Token |-> 1] ELSE Partial(q, Buffers[i])'[x]
    BY <1>2 DEF ResultInv, Pos
  <2>0. Partial(q, Buffers[i])' = Partial(q, Buffers[i]) /\ round' = round
    BY <1>1, <1>2 DEF Partial
  <2>1. CASE q = r
    <3>1. Buffers[i] \in Range(Buffers)
      BY BuffersAre
    <3>2. result'[r][Buffers[i]] = Partial(r, Buffers[i])
      BY <1>1, <1>3, <1>4, <3>1 DEF RankInv
    <3>3. i \in Nat \ {0}
      BY BuffersAre
    <3>4. ~(Pos(i, x) < round[r])
      BY <1>12, <3>3, PosIs
    <3>5. QED
      BY <2>0, <2>1, <3>2, <3>4
  <2>2. CASE q # r
    <3>1. result'[q] = result[q] /\ Ready(q)
      BY <1>1, <1>3, <1>4, <1>8, <2>2 DEF RankInv
    <3>2. QED
      BY <2>0, <3>1 DEF IInv, ResultInv
  <2>3. QED
    BY <2>1, <2>2
<1>14. QED
  BY <1>2, <1>6, <1>7, <1>9, <1>10, <1>11, <1>13 DEF IInv

\* Leaving the call, with a result or with an exception.
LEMMA RankLeavesInv ==
    ASSUME IInv, NEW r \in Ranks, RankReturns(r) \/ RankRaises(r)
    PROVE  IInv'
<1> DEFINE to == IF rpc[r] = "run" THEN "raised" ELSE "returned"
<1>1. /\ \/ rpc[r] = "run"
         \/ (rpc[r] = "reduce" /\ round[r] >= Rounds(r))
      /\ rpc' = [rpc EXCEPT ![r] = to]
      /\ UNCHANGED argVars /\ part' = part /\ round' = round /\ result' = result
      /\ level' = level /\ pending' = pending /\ attended' = attended
  BY DEF RankReturns, RankRaises, vars
<1>2. /\ ArgInv' /\ mine' = mine /\ Ranks' = Ranks /\ Buffers' = Buffers
      /\ backward' = backward
      /\ \A q : Promised(q)' = Promised(q) /\ Rounds(q)' = Rounds(q)
  BY <1>1, SameArgs DEF IInv
<1>3. Ranks \subseteq RankId /\ r \in RankId
  BY RanksAre DEF IInv
<1>4. rpc \in [RankId -> {"run", "reduce", "returned", "raised"}]
  BY DEF IInv, RankInv
<1>5. RankInv'
  BY <1>1, <1>2, <1>3 DEF IInv, RankInv
<1>6. PathInv'
  BY <1>1 DEF IInv, PathInv
<1>7. /\ \A q \in Ranks \ {r} : rpc'[q] = rpc[q]
      /\ rpc'[r] = to
      /\ \A q \in Ranks : Ready(q)' = Ready(q)
  BY <1>1, <1>3, <1>4 DEF Ready
<1>8. ReadyInv'
  BY <1>1, <1>2, <1>7 DEF IInv, ReadyInv, Owned
<1>9. PartInv'
  <2>1. \A x, y \in Token : OneRank(x, y)' <=> OneRank(x, y)
    BY <1>1, <1>2 DEF OneRank
  <2>2. PartInv
    BY DEF IInv
  <2>3. QED
    BY <1>1, <2>1, <2>2 DEF PartInv
<1>10. RoundInv'
  BY <1>1, <1>2, <1>7 DEF IInv, RoundInv
<1>11. ResultInv'
  BY <1>1, <1>2, <1>7 DEF IInv, ResultInv, Partial, Pos
<1>12. QED
  BY <1>2, <1>5, <1>6, <1>8, <1>9, <1>10, <1>11 DEF IInv

\* A round of collectives: every rank is through with its engine, so all pairs were
\* attended, and the sums over the ranks are one.
LEMMA AllReduceInv ==
    ASSUME FullList, TypeOK, ExactlyOnce, IInv, AllReduce
    PROVE  IInv'
<1> DEFINE n == round[0]
           b == BufferAt(n)
           one == [y \in Token |-> 1]
           m == 1 + (n \div PerBuffer(N))
<1>1. /\ \A r \in Ranks : rpc[r] = "reduce" /\ round[r] = n /\ n < Rounds(r)
      /\ result' = [r \in RankId |->
               IF r \in Ranks
               THEN [result[r] EXCEPT ![b] =
                        [x \in Token |-> IF x \in Written(r, n)
                                         THEN [x_1 \in Block(n) |->
                                                  [y \in Token |-> Reduced(b, x_1, y)]][x]
                                         ELSE @[x]]]
               ELSE result[r]]
      /\ round' = [r \in RankId |-> IF r \in Ranks THEN round[r] + 1 ELSE round[r]]
      /\ UNCHANGED argVars /\ part' = part /\ rpc' = rpc
      /\ level' = level /\ pending' = pending /\ attended' = attended
  BY DEF AllReduce, vars
<1>2. /\ ArgInv' /\ mine' = mine /\ Ranks' = Ranks /\ Buffers' = Buffers
      /\ backward' = backward
      /\ \A q : Promised(q)' = Promised(q) /\ Rounds(q)' = Rounds(q)
  BY <1>1, SameArgs DEF IInv
<1>3. Ranks \subseteq RankId /\ 0 \in Ranks /\ world \in Nat \ {0}
  BY RanksAre DEF IInv
<1>4. RankInv
  BY DEF IInv
<1>5. n \in Nat
  BY <1>3, <1>4 DEF RankInv
<1>6. \A x, y \in Token : OneRank(x, y)
  <2>1. level = Itr /\ \A r \in Ranks : Owned(r) = {}
    BY <1>1, <1>3 DEF IInv, ReadyInv, Ready
  <2>2. pending = {}
    BY <2>1, OwnedBySome DEF IInv
  <2>3. \A x, y \in Token : <<x, y>> \in Pair
    BY DEF Pair
  <2>4. \A x, y \in Token : attended[<<x, y>>] = 1
    BY <2>2, <2>3 DEF ExactlyOnce
  <2>5. PartInv
    BY DEF IInv
  <2>6. TAKE x, y \in Token
  <2>7. attended[<<x, y>>] # 0
    BY <2>4
  <2>8. QED
    BY <2>5, <2>7 DEF PartInv
<1>7. m \in DOMAIN Buffers /\ b = Buffers[m] /\ m \in Nat \ {0}
  <2> DEFINE p == PerBuffer(N)
             l == Len(Buffers)
  <2>1. n < l * p
    BY <1>1, <1>3 DEF Rounds, End
  <2>2. l \in Nat \ {0} /\ DOMAIN Buffers = 1 .. l
    BY BuffersAre
  <2>3. p \in Int
    <3>1. N + ChunkTokens - 1 \in Int /\ ChunkTokens \in Nat \ {0}
      BY DistributedAssumption, DecompositionAssumption
    <3>2. QED
      BY <3>1, Division DEF PerBuffer
  <2> HIDE DEF p, l
  <2>4. p \in Nat \ {0}
    <3>1. CASE p <= 0
      <4>1. l * p <= l * 0 /\ l * 0 = 0
        BY <2>2, <2>3, <3>1, Product
      <4>2. l * p \in Int
        BY <2>2, <2>3
      <4>3. QED
        BY <1>5, <2>1, <4>1, <4>2
    <3>2. QED
      BY <2>3, <3>1
  <2>5. n \div p \in Int /\ 0 <= n \div p
    <3>1. p * 0 <= n
      BY <1>5, <2>4
    <3>2. QED
      BY <1>5, <2>4, <3>1, Division, QuotientBound
  <2>6. ~(l <= n \div p)
    <3>1. l * p = p * l /\ p * l \in Int
      BY <2>2, <2>4
    <3>2. ~(p * l <= n)
      BY <1>5, <2>1, <3>1
    <3>3. QED
      BY <1>5, <2>2, <2>4, <3>2, QuotientBound
  <2>7. m \in 1 .. l
    BY <2>2, <2>5, <2>6 DEF p
  <2>8. QED
    BY <2>2, <2>7 DEF BufferAt
<1> HIDE DEF n, b, m, one
<1>8. ASSUME NEW i \in DOMAIN Buffers, NEW x \in Token
      PROVE  /\ Pos(i, x) \in Nat
             /\ Pos(i, x) = n <=> i = m /\ x \in Block(n)
  <2>1. i \in Nat \ {0}
    BY BuffersAre
  <2>2. QED
    BY <1>5, <2>1, PosIs DEF m
<1>9. ASSUME NEW x \in Token, x \in Block(n), NEW y \in Token
      PROVE  Reduced(b, x, y) = 1
  <2>1. \A q \in Ranks : result[q][b][x] = Partial(q, b)[x]
    <3> SUFFICES ASSUME NEW q \in Ranks PROVE result[q][b][x] = Partial(q, b)[x]
      OBVIOUS
    <3>1. Ready(q) /\ round[q] = n
      BY <1>1 DEF Ready
    <3>2. Pos(m, x) = n
      BY <1>7, <1>8, <1>9
    <3>3. ~(Pos(m, x) < round[q])
      BY <1>5, <3>1, <3>2
    <3>4. QED
      BY <1>7, <3>1, <3>3 DEF IInv, ResultInv
  <2>2. ASSUME NEW u \in Token, NEW v \in Token,
               \A q \in Ranks : Brought(q, b, x)[y] = part[q][u][v]
        PROVE  Reduced(b, x, y) = 1
    <3>1. PICK k \in Ranks : part[k][u][v] = 1 /\ \A q \in RankId \ {k} : part[q][u][v] = 0
      BY <1>6 DEF OneRank
    <3>2. Brought(k, b, x)[y] = 1 /\ \A q \in Ranks \ {k} : Brought(q, b, x)[y] = 0
      BY <1>3, <2>2, <3>1
    <3>3. QED
      BY <3>2, SumIsOne DEF IInv
  <2>3. CASE ~backward
    <3>1. \A q \in Ranks : Brought(q, b, x)[y] = part[q][x][y]
      BY <2>3 DEF Brought
    <3>2. QED
      BY <2>2, <3>1
  <2>4. CASE backward /\ b = "dq"
    <3>1. \A q \in Ranks : Brought(q, b, x)[y] = part[q][x][y]
      BY <2>1, <2>4 DEF Brought, Partial
    <3>2. QED
      BY <2>2, <3>1
  <2>5. CASE backward /\ b \in {"dk", "dv"}
    <3>1. \A q \in Ranks : Brought(q, b, x)[y] = part[q][y][x]
      BY <2>1, <2>5 DEF Brought, Partial
    <3>2. QED
      BY <2>2, <3>1
  <2>6. backward => b \in {"dq", "dk", "dv"}
    <3>1. ASSUME backward PROVE b \in {"dq", "dk", "dv"}
      <4>1. Buffers = <<"dq", "dk", "dv">> /\ m \in 1 .. 3
        BY <1>7, <3>1, BuffersAre
      <4>2. QED
        BY <1>7, <4>1
    <3>2. QED
      BY <3>1
  <2>7. QED
    BY <2>3, <2>4, <2>5, <2>6
<1> DEFINE W(r) == [x \in Token |-> IF x \in Written(r, n) THEN one ELSE result[r][b][x]]
<1>10. b \in Range(Buffers)
  BY <1>7, BuffersAre
<1>11. \A r \in Ranks : result'[r] = [result[r] EXCEPT ![b] = W(r)]
  <2> SUFFICES ASSUME NEW r \in Ranks PROVE result'[r] = [result[r] EXCEPT ![b] = W(r)]
    OBVIOUS
  <2> DEFINE V == [x \in Token |-> IF x \in Written(r, n)
                                   THEN [x_1 \in Block(n) |->
                                            [y \in Token |-> Reduced(b, x_1, y)]][x]
                                   ELSE result[r][b][x]]
  <2>1. result'[r] = [result[r] EXCEPT ![b] = V]
    BY <1>1, <1>3
  <2>2. ASSUME NEW x \in Token, x \in Written(r, n)
        PROVE  [x_1 \in Block(n) |-> [y \in Token |-> Reduced(b, x_1, y)]][x] = one
    <3>1. x \in Block(n)
      BY <2>2 DEF Written
    <3>2. \A y \in Token : Reduced(b, x, y) = 1
      BY <1>9, <3>1
    <3>3. QED
      BY <3>1, <3>2 DEF one
  <2>3. V = W(r)
    BY <2>2
  <2>4. QED
    BY <2>1, <2>3
<1>12. one \in [Token -> Nat]
  BY DEF one
<1>13. \A r \in Ranks : W(r) \in [Token -> [Token -> Nat]]
  BY <1>3, <1>4, <1>10, <1>12 DEF RankInv
<1> HIDE DEF W
<1>14. RankInv'
  <2>1. round' \in [RankId -> Nat]
    BY <1>1, <1>4 DEF RankInv
  <2>2. \A r \in RankId : result'[r] \in [Range(Buffers) -> [Token -> [Token -> Nat]]]
    <3> SUFFICES ASSUME NEW r \in RankId
                 PROVE  result'[r] \in [Range(Buffers) -> [Token -> [Token -> Nat]]]
      OBVIOUS
    <3>1. result[r] \in [Range(Buffers) -> [Token -> [Token -> Nat]]]
      BY <1>4 DEF RankInv
    <3>2. CASE r \in Ranks
      BY <1>11, <1>13, <3>1, <3>2
    <3>3. CASE r \notin Ranks
      <4>1. result'[r] = result[r]
        BY <1>1, <3>3
      <4>2. QED
        BY <3>1, <4>1
    <3>4. QED
      BY <3>2, <3>3
  <2>3. result' = [r \in RankId |-> result'[r]]
    BY <1>1
  <2>4. result' \in [RankId -> [Range(Buffers) -> [Token -> [Token -> Nat]]]]
    BY <2>2, <2>3
  <2>5. QED
    BY <1>1, <1>2, <1>4, <2>1, <2>4 DEF RankInv
<1>15. PathInv'
  BY <1>1 DEF IInv, PathInv
<1>16. \A q : Ready(q)' = Ready(q)
  BY <1>1 DEF Ready
<1>17. ReadyInv'
  BY <1>1, <1>2, <1>16 DEF IInv, ReadyInv, Owned
<1>18. PartInv'
  <2>1. \A x, y \in Token : OneRank(x, y)' <=> OneRank(x, y)
    BY <1>1, <1>2 DEF OneRank
  <2>2. PartInv
    BY DEF IInv
  <2>3. QED
    BY <1>1, <2>1, <2>2 DEF PartInv
<1>19. \A r \in Ranks : round'[r] = n + 1 /\ rpc'[r] = "reduce" /\ Ready(r)'
  BY <1>1, <1>3 DEF Ready
<1>20. RoundInv'
  BY <1>2, <1>3, <1>19 DEF RoundInv
<1>21. ResultInv'
  <2> SUFFICES ASSUME NEW r \in Ranks, NEW i \in DOMAIN Buffers, NEW x \in Token
               PROVE  result'[r][Buffers[i]][x] =
                        IF Pos(i, x) < round'[r] /\ x \in Promised(r)
                        THEN one ELSE Partial(r, Buffers[i])'[x]
    BY <1>2 DEF ResultInv, Pos, one
  <2>0. Partial(r, Buffers[i])' = Partial(r, Buffers[i])
    BY <1>1, <1>2 DEF Partial
  <2>1. round[r] = n /\ Ready(r) /\ r \in RankId
    BY <1>1, <1>3 DEF Ready
  <2>2. result[r][Buffers[i]][x] =
           IF Pos(i, x) < n /\ x \in Promised(r) THEN one ELSE Partial(r, Buffers[i])[x]
    BY <2>1 DEF IInv, ResultInv, one
  <2>3. Buffers[i] \in Range(Buffers) /\ (Buffers[i] = b <=> i = m)
    BY <1>7, BuffersAre
  <2>4. result[r] \in [Range(Buffers) -> [Token -> [Token -> Nat]]]
    BY <1>4, <2>1 DEF RankInv
  <2>5. Pos(i, x) \in Nat /\ (Pos(i, x) = n <=> i = m /\ x \in Block(n))
    BY <1>8
  <2>6. CASE i # m
    <3>1. result'[r][Buffers[i]] = result[r][Buffers[i]]
      BY <1>11, <2>3, <2>4, <2>6
    <3>2. Pos(i, x) < n + 1 <=> Pos(i, x) < n
      BY <1>5, <2>5, <2>6
    <3>3. QED
      BY <1>19, <2>0, <2>2, <3>1, <3>2
  <2>7. CASE i = m
    <3>1. result'[r][Buffers[i]][x] = IF x \in Written(r, n) THEN one ELSE result[r][b][x]
      <4>1. Buffers[i] = b
        BY <2>3, <2>7
      <4>2. result'[r][b] = W(r)
        BY <1>11, <2>3, <2>4, <4>1
      <4>3. QED
        BY <4>1, <4>2 DEF W
    <3>2. x \in Written(r, n) <=> x \in Block(n) /\ x \in Promised(r)
      <4>1. CASE output = "replicated"
        BY <4>1 DEF Written, Promised
      <4>2. CASE output # "replicated"
        <5>1. Lo(r) \in Int /\ Hi(r) \in Int
          <6>1. r \in Nat /\ N \in Nat /\ N * r \in Int /\ N * (r + 1) \in Int
            BY RanksAre, DecompositionAssumption DEF IInv
          <6>2. QED
            BY <1>3, <6>1, Division DEF Lo, Hi
        <5>2. x \in Int
          BY DecompositionAssumption DEF Token
        <5>3. x \in Lo(r) .. Hi(r) - 1 <=> Lo(r) <= x /\ x < Hi(r)
          BY <5>1, <5>2
        <5>4. QED
          BY <4>2, <5>3 DEF Written, Promised
      <4>3. QED
        BY <4>1, <4>2
    <3>3. Pos(i, x) < n + 1 <=> Pos(i, x) < n \/ x \in Block(n)
      BY <1>5, <2>5, <2>7
    <3>4. x \in Block(n) => ~(Pos(i, x) < n)
      BY <1>5, <2>5, <2>7
    <3>5. Buffers[i] = b
      BY <2>3, <2>7
    <3>6. QED
      BY <1>19, <2>0, <2>2, <3>1, <3>2, <3>3, <3>4, <3>5
  <2>8. QED
    BY <2>6, <2>7
<1>22. QED
  BY <1>2, <1>14, <1>15, <1>17, <1>18, <1>20, <1>21 DEF IInv

-----------------------------------------------------------------------------
(* The ranks' results.                                                       *)

\* The shards of a sharded output are consecutive, from the first row to the last.
LEMMA ShardsAre ==
    ASSUME ArgInv
    PROVE  /\ Lo(0) = 0 /\ Hi(world - 1) = N
           /\ \A r \in Ranks : Lo(r) \in Nat /\ Hi(r) = Lo(r + 1)
           /\ \A r, q \in Ranks : r < q => Hi(r) <= Lo(q)
<1>1. world \in Nat \ {0} /\ N \in Nat /\ Ranks = 0 .. world - 1
  BY RanksAre, DecompositionAssumption DEF Ranks
<1>2. Lo(0) = 0
  <2>1. N * 0 = world * 0 + 0 /\ 0 \in 0 .. world - 1
    BY <1>1
  <2>2. (N * 0) \div world = 0
    BY <1>1, <2>1, Quotient
  <2>3. QED
    BY <2>2 DEF Lo
<1>3. Hi(world - 1) = N
  <2>1. N * (world - 1 + 1) = world * N + 0 /\ 0 \in 0 .. world - 1
    BY <1>1
  <2>2. (N * (world - 1 + 1)) \div world = N
    BY <1>1, <2>1, Quotient
  <2>3. QED
    BY <2>2 DEF Hi
<1>4. ASSUME NEW r \in Nat PROVE Lo(r) \in Nat
  <2>1. N * r \in Int /\ world * 0 <= N * r
    BY <1>1
  <2>2. Lo(r) \in Int
    BY <1>1, <2>1, Division DEF Lo
  <2>3. 0 <= Lo(r)
    BY <1>1, <2>1, QuotientBound DEF Lo
  <2>4. QED
    BY <2>2, <2>3
<1>5. \A r \in Ranks : Lo(r) \in Nat /\ Hi(r) = Lo(r + 1)
  <2>1. \A r \in Ranks : r \in Nat
    BY <1>1
  <2>2. \A r \in Ranks : Hi(r) = Lo(r + 1)
    BY DEF Hi, Lo
  <2>3. QED
    BY <1>4, <2>1, <2>2
<1>6. ASSUME NEW r \in Nat, NEW q \in Nat, r <= q PROVE Lo(r) <= Lo(q)
  <2>1. N * r \in Int /\ N * q \in Int
    BY <1>1
  <2>2. N * r <= N * q
    BY <1>1, <1>6
  <2>3. Lo(r) \in Int /\ Lo(q) \in Int
    BY <1>4
  <2>4. world * Lo(r) <= N * r
    BY <1>1, <2>1, <2>3, QuotientBound DEF Lo
  <2>5. world * Lo(r) \in Int
    BY <1>1, <2>3
  <2>6. world * Lo(r) <= N * q
    BY <2>1, <2>2, <2>4, <2>5
  <2>7. QED
    BY <1>1, <2>1, <2>3, <2>6, QuotientBound DEF Lo
<1>7. ASSUME NEW r \in Ranks, NEW q \in Ranks, r < q PROVE Hi(r) <= Lo(q)
  <2>1. r + 1 \in Nat /\ q \in Nat /\ r + 1 <= q
    BY <1>1, <1>7
  <2>2. QED
    BY <1>5, <1>6, <2>1
<1>8. QED
  BY <1>2, <1>3, <1>5, <1>7

\* Every row is in one shard.
LEMMA OneShard ==
    ASSUME ArgInv, output = "sharded", NEW x \in Token
    PROVE  Cardinality({q \in Ranks : x \in Promised(q)}) = 1
<1> DEFINE T == {r \in Ranks : Lo(r) <= x}
           S == {q \in Ranks : x \in Promised(q)}
<1>1. /\ world \in Nat \ {0} /\ N \in Nat /\ Ranks = 0 .. world - 1 /\ 0 \in Ranks
      /\ x \in Nat /\ x < N
  BY RanksAre, DecompositionAssumption DEF Ranks, Token
<1>2. T \subseteq Nat /\ IsFiniteSet(T) /\ 0 \in T
  <2>1. T \subseteq Ranks /\ IsFiniteSet(Ranks)
    BY <1>1, FS_Interval
  <2>2. IsFiniteSet(T)
    BY <2>1, FS_Subset
  <2>3. QED
    BY <1>1, <2>1, <2>2, ShardsAre
<1>3. PICK k \in T : \A r \in T : r <= k
  <2> HIDE DEF T
  <2>1. T # {}
    BY <1>2
  <2>2. QED
    BY <1>2, <2>1, LargestNatural
<1>4. k \in Ranks /\ Lo(k) <= x /\ k \in Nat
  BY <1>1, <1>3
<1>5. x < Hi(k)
  <2>1. CASE k = world - 1
    BY <1>1, <2>1, ShardsAre
  <2>2. CASE k # world - 1
    <3>1. k + 1 \in Ranks
      BY <1>1, <1>4, <2>2
    <3>2. ~(Lo(k + 1) <= x)
      <4>1. k + 1 \notin T
        BY <1>3, <1>4
      <4>2. QED
        BY <3>1, <4>1
    <3>3. Lo(k + 1) \in Nat /\ Hi(k) = Lo(k + 1)
      BY <1>4, <3>1, ShardsAre
    <3>4. QED
      BY <1>1, <3>2, <3>3
  <2>3. QED
    BY <2>1, <2>2
<1>6. \A q : x \in Promised(q) <=> Lo(q) <= x /\ x < Hi(q)
  BY DEF Promised
<1>7. ASSUME NEW q \in Ranks, Lo(q) <= x, x < Hi(q) PROVE q = k
  <2>1. q \in Int /\ k \in Int
    BY <1>1, <1>4
  <2>2. Lo(q) \in Nat /\ Lo(k) \in Nat /\ Hi(q) \in Int /\ Hi(k) \in Int
    <3>1. N * (q + 1) \in Int /\ N * (k + 1) \in Int
      BY <1>1, <2>1
    <3>2. QED
      BY <1>1, <1>4, <3>1, ShardsAre, Division DEF Hi
  <2>3. ~(q < k)
    <3>1. ASSUME q < k PROVE Hi(q) <= Lo(k)
      BY <1>4, <3>1, ShardsAre
    <3>2. QED
      BY <1>1, <1>4, <1>7, <2>2, <3>1
  <2>4. ~(k < q)
    <3>1. ASSUME k < q PROVE Hi(k) <= Lo(q)
      BY <1>4, <3>1, ShardsAre
    <3>2. QED
      BY <1>1, <1>5, <1>7, <2>2, <3>1
  <2>5. QED
    BY <2>1, <2>3, <2>4
<1>8. S = {k}
  BY <1>4, <1>5, <1>6, <1>7
<1>9. QED
  BY <1>8, FS_Singleton

\* The invariant gives what the ranks promise.
LEMMA Returned == ASSUME IInv PROVE RanksExact
<1>1. ASSUME NEW r \in Ranks, rpc[r] = "returned", NEW c \in Range(Buffers), NEW x \in Token
      PROVE  result[r][c][x] = IF x \in Promised(r) THEN [y \in Token |-> 1] ELSE Zero
  <2>1. PICK i \in DOMAIN Buffers : c = Buffers[i]
    BY BuffersAre
  <2>2. Ready(r) /\ round[r] >= Rounds(r) /\ round[r] \in Nat
    BY <1>1, RanksAre DEF IInv, RoundInv, Ready, RankInv
  <2>3. Pos(i, x) < round[r]
    <3> DEFINE p == PerBuffer(N)
               l == Len(Buffers)
    <3>1. i \in 1 .. l /\ l \in Nat
      BY BuffersAre
    <3>2. p \in Nat \ {0}
      BY BlocksOf
    <3>3. Pos(i, x) \in Nat /\ Pos(i, x) < i * p
      <4>1. i \in Nat \ {0}
        BY <3>1
      <4>2. QED
        BY <4>1, PosIs
    <3>4. Rounds(r) = l * p
      BY DEF Rounds, End
    <3> HIDE DEF p, l
    <3>5. p * i <= p * l
      BY <3>1, <3>2, Product
    <3>6. p * i = i * p /\ p * l = l * p /\ i * p \in Int /\ l * p \in Int
      BY <3>1, <3>2
    <3>7. QED
      BY <2>2, <3>3, <3>4, <3>5, <3>6
  <2>4. result[r][c][x] = IF x \in Promised(r) THEN [y \in Token |-> 1] ELSE Partial(r, c)[x]
    BY <2>1, <2>2, <2>3 DEF IInv, ResultInv
  <2>5. ASSUME x \notin Promised(r) PROVE Partial(r, c)[x] = Zero
    <3>1. output # "replicated"
      BY <2>5 DEF Promised
    <3>2. ~backward
      BY <3>1 DEF IInv, ArgInv
    <3>3. Buffers = <<"out">> /\ i = 1
      BY <3>2, BuffersAre
    <3>4. c = "out"
      BY <2>1, <3>3
    <3>5. QED
      BY <3>4 DEF Partial, Zero
  <2>6. QED
    BY <2>4, <2>5
<1>2. output = "sharded" => \A x \in Token : Cardinality({q \in Ranks : x \in Promised(q)}) = 1
  BY OneShard DEF IInv
<1>3. QED
  BY <1>1, <1>2 DEF RanksExact

-----------------------------------------------------------------------------
(* A depth the length admits leaves no subproblem empty.                     *)

\* The instance counts as this module does.
LEMMA PlainCardinality == \A S : Plain!Cardinality(S) = Cardinality(S)
  BY DEF Plain!Cardinality, Cardinality

\* The ranks of the tokens of a set are all local positions.
LEMMA RankOnto ==
    ASSUME NEW S, S \subseteq Token, NEW p \in 0 .. Cardinality(S) - 1
    PROVE  \E u \in S : Rank(S, u) = p
<1> DEFINE f == [u \in S |-> Rank(S, u)]
           n == Cardinality(S)
           B(u) == {w \in S : w < u}
<1>1. IsFiniteSet(S) /\ n \in Nat
  <2>1. IsFiniteSet(Token)
    BY FS_Interval, DecompositionAssumption DEF Token
  <2>2. IsFiniteSet(S)
    BY <2>1, FS_Subset
  <2>3. QED
    BY <2>2, FS_CardinalityType
<1>2. f \in [S -> 0 .. n - 1]
  BY RankType
<1>3. ASSUME NEW u \in S, NEW v \in S, u < v PROVE f[u] # f[v]
  <2>1. u \in Int /\ v \in Int /\ \A w \in S : w \in Int
    BY DecompositionAssumption DEF Token
  <2>2. B(u) \cup {u} \subseteq B(v) /\ u \notin B(u)
    <3>1. \A w \in S : w < u => w < v
      BY <1>3, <2>1
    <3>2. ~(u < u)
      BY <2>1
    <3>3. QED
      BY <1>3, <3>1, <3>2
  <2>3. IsFiniteSet(B(u)) /\ IsFiniteSet(B(v))
    BY <1>1, FS_Subset
  <2>4. Cardinality(B(u) \cup {u}) = Cardinality(B(u)) + 1
    BY <2>2, <2>3, FS_AddElement
  <2>5. Cardinality(B(u) \cup {u}) <= Cardinality(B(v))
    <3> HIDE DEF B
    <3>1. QED
      BY <2>2, <2>3, FS_Subset
  <2>6. Cardinality(B(u)) \in Nat /\ Cardinality(B(v)) \in Nat
    BY <2>3, FS_CardinalityType
  <2>7. Cardinality(B(u)) # Cardinality(B(v))
    BY <2>4, <2>5, <2>6
  <2>8. f[u] = Cardinality(B(u)) /\ f[v] = Cardinality(B(v))
    BY DEF Rank
  <2>9. QED
    BY <2>7, <2>8
<1>4. \A u, v \in S : f[u] = f[v] => u = v
  <2>1. \A u, v \in S : u = v \/ u < v \/ v < u
    BY DecompositionAssumption DEF Token
  <2>2. QED
    BY <1>3, <2>1
<1> HIDE DEF f
<1>5. f \in Injection(S, 0 .. n - 1)
  BY <1>2, <1>4 DEF Injection, IsInjective
<1>6. IsFiniteSet(0 .. n - 1) /\ Cardinality(0 .. n - 1) = n
  BY <1>1, FS_Interval
<1>7. f \in Surjection(S, 0 .. n - 1)
  BY <1>5, <1>6, FS_Injection
<1>8. PICK u \in S : f[u] = p
  BY <1>7 DEF Surjection
<1>9. QED
  BY <1>8 DEF f

\* Without alignment the chunks of a local sequence follow each other and are no
\* shorter than the quotient.
LEMMA PlainChunks ==
    ASSUME NEW L \in Nat
    PROVE  /\ L \div C \in Nat
           /\ \A k \in Chunk :
                 /\ Plain!ChunkStart(L, k) \in Nat
                 /\ Plain!ChunkEnd(L, k) \in Nat
                 /\ Plain!ChunkStart(L, k) + (L \div C) <= Plain!ChunkEnd(L, k)
                 /\ Plain!ChunkEnd(L, k) <= L
           /\ \A k, j \in Chunk : k < j => Plain!ChunkEnd(L, k) <= Plain!ChunkStart(L, j)
<1> DEFINE q == L \div C
           r == L % C
           st(k) == k * q + (IF k < r THEN k ELSE r)
<1>0. C \in Nat \ {0} /\ Chunk = 0 .. C - 1
  BY DecompositionAssumption DEF Chunk
<1>1. q \in Int /\ r \in 0 .. C - 1 /\ L = C * q + r
  BY <1>0, Division
<1>2. 0 <= q
  BY <1>0, QuotientBound
<1>3. ASSUME NEW k \in Chunk
      PROVE  /\ Plain!ChunkStart(L, k) = st(k)
             /\ Plain!ChunkEnd(L, k) = IF k = C - 1 THEN L ELSE st(k + 1)
  <2> HIDE DEF q, r
  <2>1. \A i \in Int : 1 * (i * q + (IF i < r THEN i ELSE r)) = st(i)
    BY <1>0, <1>1
  <2>2. L \div 1 = L
    OBVIOUS
  <2>3. \A i \in Int : Plain!ChunkStart(L, i) = st(i)
    BY <2>1, <2>2 DEF Plain!ChunkStart, q, r
  <2>4. k \in Int /\ k + 1 \in Int
    BY <1>0
  <2>5. QED
    BY <2>3, <2>4 DEF Plain!ChunkEnd
<1> HIDE DEF q, r
<1>4. \A k \in Nat : k * q \in Nat /\ st(k) \in Nat
  <2> TAKE k \in Nat
  <2>1. k * q \in Int /\ 0 <= k * q
    BY <1>1, <1>2
  <2>2. QED
    BY <1>0, <1>1, <2>1
<1>5. ASSUME NEW k \in Nat, NEW j \in Nat, k <= j PROVE st(k) <= st(j)
  <2>1. k * q \in Int /\ j * q \in Int
    BY <1>4
  <2>2. k * q <= j * q
    <3>1. (j - k) * q >= 0
      BY <1>1, <1>2, <1>5
    <3>2. (j - k) * q = j * q - k * q
      BY <1>1
    <3>3. QED
      BY <2>1, <3>1, <3>2
  <2>3. (IF k < r THEN k ELSE r) <= (IF j < r THEN j ELSE r)
    BY <1>0, <1>1, <1>5
  <2>4. (IF k < r THEN k ELSE r) \in Int /\ (IF j < r THEN j ELSE r) \in Int
    BY <1>0, <1>1
  <2> DEFINE x == k * q
             y == j * q
             v == IF k < r THEN k ELSE r
             w == IF j < r THEN j ELSE r
  <2>5. st(k) = x + v /\ st(j) = y + w
    OBVIOUS
  <2> HIDE DEF x, y, v, w, st
  <2>6. x \in Int /\ y \in Int /\ v \in Int /\ w \in Int /\ x <= y /\ v <= w
    BY <2>1, <2>2, <2>3, <2>4 DEF x, y, v, w
  <2>7. QED
    BY <2>5, <2>6
<1>6. ASSUME NEW k \in Nat PROVE st(k) + q <= st(k + 1) /\ st(k + 1) \in Nat
  <2>1. (k + 1) * q = k * q + q /\ k * q \in Int
    BY <1>1, <1>4
  <2>2. (IF k < r THEN k ELSE r) <= (IF k + 1 < r THEN k + 1 ELSE r)
    BY <1>0, <1>1
  <2>3. (IF k < r THEN k ELSE r) \in Int /\ (IF k + 1 < r THEN k + 1 ELSE r) \in Int
    BY <1>0, <1>1
  <2>4. st(k + 1) \in Nat
    BY <1>4
  <2>5. QED
    BY <1>1, <2>1, <2>2, <2>3, <2>4
<1>7. st(C - 1) + q = L
  <2>1. (C - 1) * q = C * q - q /\ C * q \in Int /\ (C - 1) * q \in Int
    BY <1>0, <1>1
  <2>2. (IF C - 1 < r THEN C - 1 ELSE r) = r
    BY <1>0, <1>1
  <2>3. QED
    BY <1>0, <1>1, <2>1, <2>2
<1>8. \A k \in Chunk : k \in Nat /\ C - 1 \in Nat
  BY <1>0
<1>9. ASSUME NEW k \in Chunk
      PROVE  /\ Plain!ChunkStart(L, k) \in Nat
             /\ Plain!ChunkEnd(L, k) \in Nat
             /\ Plain!ChunkStart(L, k) + q <= Plain!ChunkEnd(L, k)
             /\ Plain!ChunkEnd(L, k) <= L
  <2>1. Plain!ChunkStart(L, k) \in Nat
    BY <1>3, <1>4, <1>8
  <2>2. CASE k = C - 1
    <3>1. Plain!ChunkEnd(L, k) = L /\ Plain!ChunkStart(L, k) = st(C - 1)
      BY <1>3, <2>2
    <3>2. QED
      BY <1>7, <2>1, <3>1
  <2>3. CASE k # C - 1
    <3>1. Plain!ChunkEnd(L, k) = st(k + 1) /\ Plain!ChunkStart(L, k) = st(k)
      BY <1>3, <2>3
    <3>2. st(k) + q <= st(k + 1) /\ st(k + 1) \in Nat
      BY <1>6, <1>8
    <3>3. k + 1 \in Nat /\ C - 1 \in Nat /\ k + 1 <= C - 1
      BY <1>0, <2>3
    <3>4. st(k + 1) <= st(C - 1) /\ st(C - 1) \in Nat
      BY <1>4, <1>5, <3>3
    <3> HIDE DEF st
    <3>5. QED
      BY <1>1, <1>2, <1>7, <2>1, <3>1, <3>2, <3>4
  <2>4. QED
    BY <2>2, <2>3
<1>10. ASSUME NEW k \in Chunk, NEW j \in Chunk, k < j
       PROVE  Plain!ChunkEnd(L, k) <= Plain!ChunkStart(L, j)
  <2>1. k # C - 1 /\ k + 1 \in Nat /\ j \in Nat /\ k + 1 <= j
    BY <1>0, <1>10
  <2>2. Plain!ChunkEnd(L, k) = st(k + 1) /\ Plain!ChunkStart(L, j) = st(j)
    BY <1>3, <2>1
  <2>3. st(k + 1) <= st(j)
    BY <1>5, <2>1
  <2>4. QED
    BY <2>2, <2>3
<1>11. L \div C \in Nat
  BY <1>1, <1>2 DEF q
<1>12. QED
  BY <1>9, <1>10, <1>11 DEF q

\* A child gathers the whole chunk of its owner.
LEMMA ChildSize ==
    ASSUME NEW t, t.tokens \subseteq Token, NEW j \in Chunk
    PROVE  /\ Plain!Child(t, j).tokens \subseteq Token
           /\ Cardinality(t.tokens) \in Nat /\ Cardinality(Plain!Child(t, j).tokens) \in Nat
           /\ Cardinality(t.tokens) \div C <= Cardinality(Plain!Child(t, j).tokens)
<1> DEFINE S == t.tokens
           T == Plain!Child(t, j).tokens
           L == Cardinality(S)
           q == L \div C
           a == Plain!ChunkStart(L, j)
           U == {u \in S : Rank(S, u) \in a .. a + q - 1}
           f == [u \in U |-> Rank(S, u)]
<1>1. T = {u \in S : Plain!Label(t, u) \in QuorumChunks(j)}
  BY DEF Plain!Child, Plain!QuorumChunks, QuorumChunks
<1>2. IsFiniteSet(S) /\ IsFiniteSet(T) /\ T \subseteq Token /\ L \in Nat /\ Cardinality(T) \in Nat
  <2>1. IsFiniteSet(Token)
    BY FS_Interval, DecompositionAssumption DEF Token
  <2>2. S \subseteq Token /\ T \subseteq S
    BY <1>1
  <2> HIDE DEF S, T
  <2>3. IsFiniteSet(S) /\ IsFiniteSet(T)
    BY <2>1, <2>2, FS_Subset
  <2>4. QED
    BY <2>2, <2>3, FS_CardinalityType DEF L
<1>3. /\ q \in Nat /\ a \in Nat /\ a + q <= Plain!ChunkEnd(L, j)
      /\ Plain!ChunkEnd(L, j) <= L /\ Plain!ChunkEnd(L, j) \in Nat
  <2> HIDE DEF S
  <2>1. QED
    BY <1>2, PlainChunks
<1>4. ASSUME NEW u \in U PROVE u \in T
  <2> DEFINE p == Rank(S, u)
  <2>1. u \in S /\ p \in a .. a + q - 1
    OBVIOUS
  <2> HIDE DEF p, q, a, U, S
  <2>2. p \in Nat /\ a <= p /\ p < Plain!ChunkEnd(L, j)
    BY <1>3, <2>1
  <2>3. ASSUME NEW k \in Chunk, Plain!ChunkStart(L, k) <= p, p < Plain!ChunkEnd(L, k)
        PROVE  k = j
    <3>1. Plain!ChunkStart(L, k) \in Nat /\ Plain!ChunkEnd(L, k) \in Nat
      BY <1>2, PlainChunks
    <3>2. ~(k < j)
      <4>1. ASSUME k < j PROVE Plain!ChunkEnd(L, k) <= a
        BY <1>2, <4>1, PlainChunks DEF a
      <4>2. QED
        BY <1>3, <2>2, <2>3, <3>1, <4>1
    <3>3. ~(j < k)
      <4>1. ASSUME j < k PROVE Plain!ChunkEnd(L, j) <= Plain!ChunkStart(L, k)
        BY <1>2, <4>1, PlainChunks
      <4>2. QED
        BY <1>3, <2>2, <2>3, <3>1, <4>1
    <3>4. k \in Int /\ j \in Int
      BY DecompositionAssumption DEF Chunk
    <3>5. QED
      BY <3>2, <3>3, <3>4
  <2>4. Plain!ChunkAt(L, p) = j
    <3>1. \E k \in Chunk : Plain!ChunkStart(L, k) <= p /\ p < Plain!ChunkEnd(L, k)
      BY <2>2 DEF a
    <3>2. Plain!ChunkAt(L, p) = CHOOSE k \in Chunk :
             Plain!ChunkStart(L, k) <= p /\ p < Plain!ChunkEnd(L, k)
      BY DEF Plain!ChunkAt, Plain!Chunk, Chunk
    <3>3. QED
      BY <2>3, <3>1, <3>2
  <2>5. Plain!Label(t, u) = j
    <3>1. Plain!Rank(t.tokens, u) = p
      BY PlainCardinality DEF Plain!Rank, Rank, p, S
    <3>2. Plain!Label(t, u) = Plain!ChunkAt(L, p)
      BY <3>1, PlainCardinality DEF Plain!Label, L, S
    <3>3. QED
      BY <2>4, <3>2
  <2>6. QED
    BY <1>1, <2>1, <2>5, OwnerGathered
<1>5. U \subseteq T
  BY <1>4
<1>6. f \in Surjection(U, a .. a + q - 1)
  <2>1. f \in [U -> a .. a + q - 1]
    OBVIOUS
  <2>2. ASSUME NEW p \in a .. a + q - 1 PROVE \E u \in U : f[u] = p
    <3>1. p \in 0 .. L - 1
      <4> HIDE DEF a, q, L
      <4>1. QED
        BY <1>2, <1>3
    <3>2. PICK u \in S : Rank(S, u) = p
      <4>1. S \subseteq Token
        OBVIOUS
      <4> HIDE DEF S
      <4>2. QED
        BY <3>1, <4>1, RankOnto
    <3>3. u \in U
      BY <3>2
    <3>4. QED
      BY <3>2, <3>3
  <2> HIDE DEF f, U
  <2>3. QED
    BY <2>1, <2>2 DEF Surjection
<1>7. IsFiniteSet(U) /\ Cardinality(U) <= Cardinality(T) /\ Cardinality(U) \in Nat
  <2> HIDE DEF U, T
  <2>1. IsFiniteSet(U) /\ Cardinality(U) <= Cardinality(T)
    BY <1>2, <1>5, FS_Subset
  <2>2. QED
    BY <2>1, FS_CardinalityType
<1>8. Cardinality(a .. a + q - 1) <= Cardinality(U)
  <2> HIDE DEF U, f
  <2>1. QED
    BY <1>6, <1>7, FS_Surjection
<1>9. Cardinality(a .. a + q - 1) = q
  <2> HIDE DEF a, q
  <2>1. QED
    BY <1>3, FS_Interval
<1>10. q <= Cardinality(T)
  <2> HIDE DEF q, T, U
  <2>1. QED
    BY <1>2, <1>3, <1>7, <1>8, <1>9
<1>11. QED
  BY <1>2, <1>10

\* The values of a function on a finite set are finitely many.
LEMMA ValuesFinite ==
    ASSUME NEW S, IsFiniteSet(S), NEW f
    PROVE  IsFiniteSet({f[x] : x \in S})
<1> DEFINE T == {f[x] : x \in S}
           g == [x \in S |-> f[x]]
<1>1. g \in Surjection(S, T)
  BY DEF Surjection
<1> HIDE DEF g, T
<1>2. IsFiniteSet(T)
  BY <1>1, FS_Surjection
<1>3. QED
  BY <1>2 DEF T

\* The list the positions are counted in, level by level.
TaskList ==
    CHOOSE f : f = [d \in 0 .. Itr |->
        IF d = 0 THEN {Plain!Root} ELSE UNION {Plain!Children(t) : t \in f[d-1]}]

\* TaskList is the list of each level.
LEMMA TaskListIs ==
    /\ n_tasks = Cardinality(TaskList[Itr])
    /\ TaskList[0] = {Plain!Root}
    /\ \A d \in 1 .. Itr : TaskList[d] = UNION {Plain!Children(t) : t \in TaskList[d-1]}
<1> DEFINE next(S) == UNION {Plain!Children(t) : t \in S}
           Fits(f, k) == f = [d \in 0 .. k |-> IF d = 0 THEN {Plain!Root} ELSE next(f[d-1])]
           H == {k \in Nat : \E f : Fits(f, k)}
<1>0. Itr \in Nat
  BY ItrAssumption
<1>1. n_tasks = Cardinality(TaskList[Itr])
  BY Zenon DEF n_tasks, TaskList
<1> HIDE DEF next
<1>2. 0 \in H
  <2> DEFINE f == [d \in 0 .. 0 |-> {Plain!Root}]
  <2>1. Fits(f, 0)
    OBVIOUS
  <2>2. QED
    BY <2>1
<1>3. ASSUME NEW k \in Nat, k \in H PROVE k + 1 \in H
  <2>1. PICK f : Fits(f, k)
    BY <1>3
  <2> DEFINE g == [d \in 0 .. k + 1 |-> IF d = k + 1 THEN next(f[k]) ELSE f[d]]
  <2>2. \A d \in 0 .. k : f[d] = IF d = 0 THEN {Plain!Root} ELSE next(f[d-1])
    BY <2>1
  <2>3. \A d \in 0 .. k : g[d] = f[d]
    OBVIOUS
  <2>4. g[k+1] = next(f[k])
    OBVIOUS
  <2>5. ASSUME NEW d \in 0 .. k + 1
        PROVE  g[d] = IF d = 0 THEN {Plain!Root} ELSE next(g[d-1])
    <3>1. CASE d = k + 1
      <4>1. g[d-1] = f[k] /\ d # 0
        BY <2>3, <3>1
      <4>2. QED
        BY <2>4, <3>1, <4>1
    <3>2. CASE d \in 1 .. k
      <4>1. g[d] = f[d] /\ g[d-1] = f[d-1] /\ d # 0 /\ d \in 0 .. k
        BY <2>3, <3>2
      <4>2. QED
        BY <2>2, <4>1
    <3>3. CASE d = 0
      BY <2>2, <2>3, <3>3
    <3>4. QED
      BY <3>1, <3>2, <3>3
  <2>6. g = [d \in 0 .. k + 1 |-> g[d]]
    OBVIOUS
  <2> HIDE DEF g
  <2>7. Fits(g, k + 1)
    BY <2>5, <2>6
  <2>8. QED
    BY <2>7
<1>4. \E f : Fits(f, Itr)
  <2> HIDE DEF H
  <2>1. Itr \in H
    BY <1>0, <1>2, <1>3, Induction
  <2>2. QED
    BY <2>1 DEF H
<1>5. Fits(TaskList, Itr)
  BY <1>4 DEF TaskList, next
<1>6. \A d \in 0 .. Itr : TaskList[d] = IF d = 0 THEN {Plain!Root} ELSE next(TaskList[d-1])
  BY <1>5
<1>7. TaskList[0] = {Plain!Root} /\ \A d \in 1 .. Itr : TaskList[d] = next(TaskList[d-1])
  BY <1>0, <1>6
<1>8. QED
  BY <1>1, <1>7 DEF next

\* The subproblems of a level lie within the tokens, their paths have the level's
\* length, and there are finitely many of them.
Level(k) ==
    /\ IsFiniteSet(TaskList[k])
    /\ \A t \in TaskList[k] :
          t.tokens \subseteq Token /\ t.path \in Seq(Chunk) /\ Len(t.path) = k

\* No subproblem of the level is shorter than m tokens.
Sizes(k, m) == \A t \in TaskList[k] : m <= Cardinality(t.tokens)

\* The level holds a subproblem for each of n places.
Places(k, n) ==
    /\ \A p \in [1 .. Itr -> Chunk] : Place(p)[k] \in 0 .. n - 1
    /\ \A i \in 0 .. n - 1 : \E t \in TaskList[k], p \in [1 .. Itr -> Chunk] :
          Place(p)[k] = i /\ \A d \in 1 .. k : p[d] = t.path[d]

\* If no subproblem of a level is empty, none of the next is.
LEMMA DeeperLevel ==
    ASSUME NEW k \in Nat, k + 1 <= Itr, Level(k)
    PROVE  Level(k + 1)
<1>1. TaskList[k+1] = UNION {Plain!Children(t) : t \in TaskList[k]}
  <2>1. k + 1 \in 1 .. Itr /\ (k + 1) - 1 = k
    BY ItrAssumption
  <2>2. QED
    BY <2>1, TaskListIs
<1>2. ASSUME NEW t \in TaskList[k]
      PROVE  /\ IsFiniteSet(Plain!Children(t))
             /\ \A c \in Plain!Children(t) :
                   c.tokens \subseteq Token /\ c.path \in Seq(Chunk) /\ Len(c.path) = k + 1
  <2>1. Plain!Children(t) = {c \in {Plain!Child(t, j) : j \in Chunk} : c.tokens # {}}
    BY DEF Plain!Children, Plain!Chunk, Chunk
  <2>2. IsFiniteSet(Plain!Children(t))
    <3>1. IsFiniteSet(Chunk)
      BY FS_Interval, DecompositionAssumption DEF Chunk
    <3> DEFINE S == {Plain!Child(t, j) : j \in Chunk}
               g == [j \in Chunk |-> Plain!Child(t, j)]
    <3>2. IsFiniteSet(S)
      <4>1. S = {g[j] : j \in Chunk}
        OBVIOUS
      <4> HIDE DEF S, g
      <4>2. IsFiniteSet({g[j] : j \in Chunk})
        BY <3>1, ValuesFinite
      <4>3. QED
        BY <4>1, <4>2
    <3>3. Plain!Children(t) \subseteq S
      BY <2>1
    <3> HIDE DEF S
    <3>4. QED
      BY <3>2, <3>3, FS_Subset
  <2>3. ASSUME NEW c \in Plain!Children(t)
        PROVE  c.tokens \subseteq Token /\ c.path \in Seq(Chunk) /\ Len(c.path) = k + 1
    <3>1. PICK j \in Chunk : c = Plain!Child(t, j)
      BY <2>1
    <3>2. c.path = Append(t.path, j)
      BY <3>1 DEF Plain!Child
    <3>3. t.tokens \subseteq Token /\ t.path \in Seq(Chunk) /\ Len(t.path) = k
      BY DEF Level
    <3>4. c.tokens \subseteq Token
      BY <3>1, <3>3, ChildSize
    <3>5. QED
      BY <3>2, <3>3, <3>4
  <2>4. QED
    BY <2>2, <2>3
<1>3. IsFiniteSet(TaskList[k+1])
  <2> DEFINE F == {Plain!Children(t) : t \in TaskList[k]}
  <2>1. IsFiniteSet(TaskList[k])
    BY DEF Level
  <2>2. IsFiniteSet(F)
    <3> DEFINE g == [t \in TaskList[k] |-> Plain!Children(t)]
    <3>1. F = {g[t] : t \in TaskList[k]}
      OBVIOUS
    <3> HIDE DEF F, g
    <3>2. IsFiniteSet({g[t] : t \in TaskList[k]})
      BY <2>1, ValuesFinite
    <3>3. QED
      BY <3>1, <3>2
  <2>3. \A T \in F : IsFiniteSet(T)
    BY <1>2
  <2> HIDE DEF F
  <2>4. IsFiniteSet(UNION F)
    BY <2>2, <2>3, FS_UNION
  <2>5. QED
    BY <1>1, <2>4 DEF F
<1>4. QED
  BY <1>1, <1>2, <1>3 DEF Level

\* Every child of a subproblem with at least C tokens holds a token.
LEMMA NextSizes ==
    ASSUME NEW k \in Nat, k + 1 <= Itr, Level(k), NEW m \in Nat, m >= C, Sizes(k, m)
    PROVE  /\ m \div C \in Nat /\ Sizes(k + 1, m \div C)
           /\ \A t \in TaskList[k], j \in Chunk : Plain!Child(t, j) \in TaskList[k+1]
<1>0. C \in Nat \ {0}
  BY DecompositionAssumption
<1>1. TaskList[k+1] = UNION {Plain!Children(t) : t \in TaskList[k]}
  <2>1. k + 1 \in 1 .. Itr /\ (k + 1) - 1 = k
    BY ItrAssumption
  <2>2. QED
    BY <2>1, TaskListIs
<1>2. m \div C \in Int /\ 1 <= m \div C
  <2>1. C * 1 <= m /\ m \in Int /\ 1 \in Int
    BY <1>0
  <2>2. 1 <= m \div C
    BY <1>0, <2>1, QuotientBound
  <2>3. m \div C \in Int
    BY <1>0, <2>1, Division
  <2>4. QED
    BY <2>2, <2>3
<1>3. ASSUME NEW t \in TaskList[k], NEW j \in Chunk
      PROVE  /\ m \div C <= Cardinality(Plain!Child(t, j).tokens)
             /\ Plain!Child(t, j).tokens # {}
  <2> DEFINE L == Cardinality(t.tokens)
             q == m \div C
             s == Cardinality(Plain!Child(t, j).tokens)
  <2>1. t.tokens \subseteq Token /\ m <= L
    BY DEF Level, Sizes
  <2>2. L \in Nat /\ s \in Nat /\ L \div C <= s
    BY <2>1, ChildSize
  <2> HIDE DEF L, s
  <2>3. C * q <= L
    <3>1. C * q <= m
      BY <1>0, <1>2, QuotientBound
    <3>2. C * q \in Int
      BY <1>0, <1>2
    <3>3. QED
      BY <2>1, <2>2, <3>1, <3>2
  <2>4. q <= L \div C /\ L \div C \in Int
    <3>1. L \in Int /\ q \in Int
      BY <1>2, <2>2
    <3> HIDE DEF q
    <3>2. q <= L \div C
      BY <1>0, <2>3, <3>1, QuotientBound
    <3>3. L \div C \in Int
      BY <1>0, <3>1, Division
    <3>4. QED
      BY <3>2, <3>3
  <2> HIDE DEF q
  <2>5. q <= s /\ 1 <= s
    BY <1>2, <2>2, <2>4 DEF q
  <2>6. Plain!Child(t, j).tokens # {}
    <3>1. ASSUME Plain!Child(t, j).tokens = {} PROVE FALSE
      <4>1. s = 0
        BY <3>1, FS_EmptySet DEF s
      <4>2. QED
        BY <2>5, <4>1
    <3>2. QED
      BY <3>1
  <2>7. QED
    BY <2>5, <2>6 DEF q, s
<1>4. ASSUME NEW t \in TaskList[k], NEW j \in Chunk PROVE Plain!Child(t, j) \in TaskList[k+1]
  <2>1. Plain!Child(t, j) \in Plain!Children(t)
    BY <1>3 DEF Plain!Children, Plain!Chunk, Chunk
  <2>2. QED
    BY <1>1, <2>1
<1>5. Sizes(k + 1, m \div C)
  <2> SUFFICES ASSUME NEW c \in TaskList[k+1] PROVE m \div C <= Cardinality(c.tokens)
    BY DEF Sizes
  <2>1. PICK t \in TaskList[k] : c \in Plain!Children(t)
    BY <1>1
  <2>2. PICK j \in Chunk : c = Plain!Child(t, j)
    BY <2>1 DEF Plain!Children, Plain!Chunk, Chunk
  <2>3. QED
    BY <1>3, <2>2
<1>6. QED
  BY <1>2, <1>4, <1>5

\* A level whose subproblems all have their C children has C times as many places.
LEMMA NextPlaces ==
    ASSUME NEW k \in Nat, k + 1 <= Itr, Level(k), NEW n \in Nat \ {0}, Places(k, n),
           \A t \in TaskList[k], j \in Chunk : Plain!Child(t, j) \in TaskList[k+1]
    PROVE  C * n \in Nat \ {0} /\ Places(k + 1, C * n)
<1>0. C \in Nat \ {0} /\ Chunk = 0 .. C - 1 /\ Itr \in Nat
  BY DecompositionAssumption, ItrAssumption DEF Chunk
<1>1. C * n \in Nat \ {0}
  BY <1>0
<1>2. k + 1 \in 1 .. Itr /\ (k + 1) - 1 = k /\ k \in 0 .. Itr
  BY <1>0
<1>3. ASSUME NEW p \in [1 .. Itr -> Chunk] PROVE Place(p)[k+1] = C * Place(p)[k] + p[k+1]
  <2>1. \A d \in 1 .. Itr : p[d] \in Chunk
    OBVIOUS
  <2>2. QED
    BY <1>2, <2>1, PlaceIs
<1>4. ASSUME NEW p \in [1 .. Itr -> Chunk] PROVE Place(p)[k+1] \in 0 .. C * n - 1
  <2> DEFINE a == Place(p)[k]
             j == p[k+1]
  <2>1. a \in 0 .. n - 1 /\ j \in 0 .. C - 1
    BY <1>0, <1>2 DEF Places
  <2>2. Place(p)[k+1] = C * a + j
    BY <1>3
  <2> HIDE DEF a, j
  <2>3. C * a <= C * (n - 1) /\ C * (n - 1) = C * n - C
    <3>1. a \in Int /\ n - 1 \in Int /\ a <= n - 1
      BY <2>1
    <3>2. C * a <= C * (n - 1)
      BY <1>0, <3>1, Product
    <3>3. QED
      BY <1>0, <3>2
  <2>4. C * a \in Int /\ 0 <= C * a
    BY <1>0, <2>1
  <2> DEFINE u == C * a
             v == C * n
  <2>5. u <= v - C /\ u \in Int /\ 0 <= u /\ v \in Nat /\ Place(p)[k+1] = u + j
    BY <1>1, <2>2, <2>3, <2>4
  <2> HIDE DEF u, v
  <2>6. Place(p)[k+1] \in 0 .. v - 1
    BY <1>0, <2>1, <2>5
  <2>7. QED
    BY <2>6 DEF v
<1>5. ASSUME NEW i \in 0 .. C * n - 1
      PROVE  \E c \in TaskList[k+1], p \in [1 .. Itr -> Chunk] :
                Place(p)[k+1] = i /\ \A d \in 1 .. k + 1 : p[d] = c.path[d]
  <2> DEFINE a == i \div C
             j == i % C
  <2>1. a \in Int /\ j \in Chunk /\ i = C * a + j
    <3>1. i \in Int
      BY <1>1
    <3>2. QED
      BY <1>0, <3>1, Division
  <2>2. a \in 0 .. n - 1
    <3>1. C * 0 <= i /\ ~(C * n <= i) /\ i \in Int
      BY <1>0, <1>1
    <3>2. 0 <= a /\ ~(n <= a)
      BY <1>0, <3>1, QuotientBound
    <3> HIDE DEF a
    <3>3. QED
      BY <2>1, <3>2
  <2> HIDE DEF a, j
  <2>3. PICK t \in TaskList[k], p \in [1 .. Itr -> Chunk] :
           Place(p)[k] = a /\ \A d \in 1 .. k : p[d] = t.path[d]
    BY <2>2 DEF Places
  <2> DEFINE q == [p EXCEPT ![k+1] = j]
             c == Plain!Child(t, j)
  <2>4. q \in [1 .. Itr -> Chunk] /\ q[k+1] = j /\ \A d \in 1 .. k : q[d] = p[d]
    BY <1>2, <2>1
  <2> HIDE DEF q
  <2>5. Place(q)[k] = Place(p)[k]
    <3>1. \A d \in 1 .. Itr : p[d] \in Chunk /\ q[d] \in Chunk
      BY <2>4
    <3>2. Place(p)[k] = Place(q)[k]
      BY <1>2, <2>4, <3>1, PlaceSame
    <3>3. QED
      BY <3>2
  <2>6. Place(q)[k+1] = i
    BY <1>3, <2>1, <2>3, <2>4, <2>5
  <2>7. c \in TaskList[k+1]
    BY <2>1
  <2>8. \A d \in 1 .. k + 1 : q[d] = c.path[d]
    <3>1. c.path = Append(t.path, j)
      BY DEF Plain!Child
    <3>2. t.path \in Seq(Chunk) /\ Len(t.path) = k
      BY DEF Level
    <3> HIDE DEF c
    <3>3. c.path[k+1] = j /\ \A d \in 1 .. k : c.path[d] = t.path[d]
      BY <3>1, <3>2
    <3>4. QED
      BY <2>3, <2>4, <3>3
  <2> HIDE DEF c
  <2>9. QED
    BY <2>4, <2>6, <2>7, <2>8
<1>6. QED
  BY <1>1, <1>4, <1>5 DEF Places

\* A depth the length admits: every path of that depth has a subproblem in the list.
LEMMA DepthFillsList == ASSUME Itr <= MaxDepth PROVE FullList
<1>0. /\ Itr \in Nat \ {0} /\ C \in Nat \ {0} /\ N \in Nat /\ MaxDepth \in Nat
      /\ Chunk = 0 .. C - 1
  BY DecompositionAssumption, ItrAssumption, MaxDepthType DEF Chunk
<1>1. C # 1
  BY <1>0 DEF MaxDepth
<1>2. PICK levels :
         /\ MaxDepth = levels[N]
         /\ \A n \in 0 .. N :
               levels[n] \in Nat /\ levels[n] = IF n < C THEN 0 ELSE 1 + levels[n \div C]
  BY <1>1, LevelsAre
<1> DEFINE Good(k) == /\ Level(k)
                      /\ \E m \in 0 .. N : levels[m] + k = MaxDepth /\ Sizes(k, m)
                      /\ \E n \in Nat \ {0} : Places(k, n)
           H == {k \in Nat : k <= Itr => Good(k)}
<1>3. 0 \in H
  <2>1. TaskList[0] = {Plain!Root} /\ Plain!Root.tokens = Token /\ Plain!Root.path = <<>>
    BY TaskListIs DEF Plain!Root, Plain!Token, Token
  <2>2. Level(0)
    <3>1. IsFiniteSet({Plain!Root})
      BY FS_Singleton
    <3>2. <<>> \in Seq(Chunk) /\ Len(<<>>) = 0
      OBVIOUS
    <3>3. QED
      BY <2>1, <3>1, <3>2 DEF Level
  <2>3. Cardinality(Token) = N
    BY <1>0, FS_Interval DEF Token
  <2>4. N \in 0 .. N /\ levels[N] + 0 = MaxDepth /\ Sizes(0, N)
    <3>1. Sizes(0, N)
      BY <1>0, <2>1, <2>3 DEF Sizes
    <3>2. N \in 0 .. N
      BY <1>0
    <3>3. levels[N] + 0 = MaxDepth
      BY <1>0, <1>2
    <3>4. QED
      BY <3>1, <3>2, <3>3
  <2>5. Places(0, 1)
    <3>1. ASSUME NEW p \in [1 .. Itr -> Chunk] PROVE Place(p)[0] = 0
      <4>1. \A d \in 1 .. Itr : p[d] \in Chunk
        OBVIOUS
      <4>2. QED
        BY <4>1, PlaceIs
    <3>2. [d \in 1 .. Itr |-> 0] \in [1 .. Itr -> Chunk]
      BY <1>0
    <3>3. 0 .. 1 - 1 = {0} /\ 1 .. 0 = {}
      OBVIOUS
    <3>4. \A i \in {0} : \E t \in TaskList[0], p \in [1 .. Itr -> Chunk] :
             Place(p)[0] = i /\ \A d \in {} : p[d] = t.path[d]
      BY <2>1, <3>1, <3>2
    <3>5. QED
      BY <3>1, <3>3, <3>4 DEF Places
  <2>6. QED
    BY <2>2, <2>4, <2>5
<1>4. ASSUME NEW k \in Nat, k \in H PROVE k + 1 \in H
  <2> SUFFICES ASSUME k + 1 <= Itr PROVE Good(k + 1)
    OBVIOUS
  <2>1. Good(k)
    BY <1>0, <1>4
  <2>2. PICK m \in 0 .. N : levels[m] + k = MaxDepth /\ Sizes(k, m)
    BY <2>1
  <2>3. PICK n \in Nat \ {0} : Places(k, n)
    BY <2>1
  <2>4. m \in Nat /\ m <= N /\ levels[m] \in Nat /\ levels[m] >= 1
    <3>1. levels[m] \in Nat
      BY <1>2
    <3>2. levels[m] + k = MaxDepth
      BY <2>2
    <3>3. QED
      BY <1>0, <3>1, <3>2
  <2>5. m >= C /\ levels[m] = 1 + levels[m \div C]
    <3>1. ~(m < C)
      BY <1>2, <2>4
    <3>2. m >= C
      BY <1>0, <2>4, <3>1
    <3>3. QED
      BY <1>2, <3>1, <3>2
  <2>6. Level(k + 1)
    BY <2>1, DeeperLevel
  <2>7. /\ m \div C \in Nat /\ Sizes(k + 1, m \div C)
        /\ \A t \in TaskList[k], j \in Chunk : Plain!Child(t, j) \in TaskList[k+1]
    BY <2>1, <2>2, <2>4, <2>5, NextSizes
  <2>8. C * n \in Nat \ {0} /\ Places(k + 1, C * n)
    BY <2>1, <2>3, <2>7, NextPlaces
  <2>9. m \div C \in 0 .. N
    <3>1. m \div C \in 0 .. m - 1
      BY <1>1, <2>4, <2>5, QuotientLess
    <3> DEFINE q == m \div C
    <3> HIDE DEF q
    <3>2. q \in 0 .. m - 1
      BY <3>1 DEF q
    <3>3. q \in 0 .. N
      BY <1>0, <2>4, <3>2
    <3>4. QED
      BY <3>3 DEF q
  <2>10. levels[m \div C] + (k + 1) = MaxDepth
    <3>1. levels[m \div C] \in Nat
      BY <1>2, <2>9
    <3>2. QED
      BY <2>2, <2>5, <3>1
  <2>11. QED
    BY <2>6, <2>7, <2>8, <2>9, <2>10
<1>5. Good(Itr)
  <2> HIDE DEF H
  <2>1. Itr \in H
    BY <1>0, <1>3, <1>4, Induction
  <2>2. QED
    BY <1>0, <2>1 DEF H
<1>6. PICK n \in Nat \ {0} : Places(Itr, n)
  BY <1>5
<1> DEFINE T == TaskList[Itr]
           U == {t \in T : Place(t.path)[Itr] \in 0 .. n - 1}
           f == [t \in U |-> Place(t.path)[Itr]]
<1>7. ASSUME NEW i \in 0 .. n - 1 PROVE \E t \in U : f[t] = i
  <2>1. PICK t \in T, p \in [1 .. Itr -> Chunk] :
           Place(p)[Itr] = i /\ \A d \in 1 .. Itr : p[d] = t.path[d]
    BY <1>6 DEF Places
  <2>2. \A d \in 1 .. Itr : p[d] \in Chunk /\ t.path[d] \in Chunk
    BY <2>1
  <2>3. Itr \in 0 .. Itr
    BY <1>0
  <2>4. Place(p)[Itr] = Place(t.path)[Itr]
    BY <2>1, <2>2, <2>3, PlaceSame
  <2>5. QED
    BY <2>1, <2>4
<1>8. f \in [U -> 0 .. n - 1]
  OBVIOUS
<1> HIDE DEF f
<1>9. f \in Surjection(U, 0 .. n - 1)
  <2> HIDE DEF U
  <2>1. QED
    BY <1>7, <1>8 DEF Surjection
<1>10. IsFiniteSet(T)
  BY <1>5 DEF Level
<1>11. IsFiniteSet(U) /\ Cardinality(U) <= Cardinality(T)
  <2>1. U \in SUBSET T
    OBVIOUS
  <2> HIDE DEF U, T
  <2>2. QED
    BY <1>10, <2>1, FS_Subset
<1> HIDE DEF U, T
<1>12. Cardinality(0 .. n - 1) <= Cardinality(U)
  BY <1>9, <1>11, FS_Surjection
<1>13. Cardinality(0 .. n - 1) = n
  BY <1>6, FS_Interval
<1>14. Cardinality(U) \in Nat /\ Cardinality(T) \in Nat
  BY <1>10, <1>11, FS_CardinalityType
<1>15. n <= n_tasks /\ n_tasks \in Nat
  <2>1. n_tasks = Cardinality(T)
    BY TaskListIs DEF T
  <2>2. QED
    BY <1>11, <1>12, <1>13, <1>14, <2>1
<1>16. ASSUME NEW p \in [1 .. Itr -> Chunk] PROVE PathIdx([path |-> p]) \in 0 .. n_tasks - 1
  <2>1. Place(p)[Itr] \in 0 .. n - 1
    BY <1>6 DEF Places
  <2>2. PathIdx([path |-> p]) = Place(p)[Itr]
    <3>1. [path |-> p].path = p
      OBVIOUS
    <3>2. QED
      BY <3>1, PathIdxIs
  <2>3. QED
    BY <1>15, <2>1, <2>2
<1>17. QED
  BY <1>16 DEF FullList

-----------------------------------------------------------------------------
\* RanksExact of Distributed, for every group, wherever no subproblem of the initial
\* depth is empty: a rank that returns holds what it promises, whatever each refined
\* on its own.
THEOREM RanksCorrect == ASSUME FullList PROVE DistSpec => []RanksExact
<1>1. DistInit => IInv
  BY InitInv
<1>2. TypeOK /\ ExactlyOnce /\ IInv /\ [DistNext]_distVars => IInv'
  <2> SUFFICES ASSUME TypeOK, ExactlyOnce, IInv, [DistNext]_distVars PROVE IInv'
    OBVIOUS
  <2>1. CASE BuildTasks
    BY <2>1, BuildTasksInv
  <2>2. ASSUME NEW r \in Ranks, NEW t \in pending, RankMerge(r, t) PROVE IInv'
    BY <2>2, RankMergeInv
  <2>3. ASSUME NEW r \in Ranks, NEW t \in pending, RankRefine(r, t) PROVE IInv'
    BY <2>3, RankRefineInv
  <2>4. ASSUME NEW r \in Ranks, RankReady(r) PROVE IInv'
    BY <2>4, RankReadyInv
  <2>5. ASSUME NEW r \in Ranks, RankReturns(r) \/ RankRaises(r) PROVE IInv'
    BY <2>5, RankLeavesInv
  <2>6. CASE AllReduce
    BY <2>6, AllReduceInv
  <2>7. CASE UNCHANGED distVars
    <3>1. UNCHANGED <<world, backward, output, mine, rpc, part, round, result,
                      level, pending, attended>>
      BY <2>7 DEF distVars, rankVars, argVars, vars
    <3>2. /\ ArgInv' /\ Ranks' = Ranks /\ Buffers' = Buffers
          /\ \A q : Promised(q)' = Promised(q) /\ Rounds(q)' = Rounds(q)
      BY <3>1, SameArgs DEF IInv, argVars
    <3>3. RankInv' /\ PathInv'
      BY <3>1, <3>2 DEF IInv, RankInv, PathInv
    <3>4. ReadyInv' /\ RoundInv'
      BY <3>1, <3>2 DEF IInv, ReadyInv, RoundInv, Ready, Owned
    <3>5. PartInv'
      <4>1. \A x, y \in Token : OneRank(x, y)' <=> OneRank(x, y)
        BY <3>1, <3>2 DEF OneRank
      <4>2. PartInv
        BY DEF IInv
      <4>3. QED
        BY <3>1, <4>1, <4>2 DEF PartInv
    <3>6. ResultInv'
      BY <3>1, <3>2 DEF IInv, ResultInv, Ready, Partial, Pos
    <3>7. QED
      BY <3>2, <3>3, <3>4, <3>5, <3>6 DEF IInv
  <2>8. QED
    BY <2>1, <2>2, <2>3, <2>4, <2>5, <2>6, <2>7 DEF DistNext, Progress, Step
<1>3. IInv => RanksExact
  BY Returned
<1>4. QED
  BY <1>1, <1>2, <1>3, Projects, TypeCorrect, CoverCorrect, PTL DEF DistSpec

\* RanksExact for every group and every depth the length admits (max_depth_for).
THEOREM RanksCorrectAtDepth == ASSUME Itr <= MaxDepth PROVE DistSpec => []RanksExact
  BY DepthFillsList, RanksCorrect
=============================================================================
