----------------------------- MODULE BackwardProofs -----------------------------
(***************************************************************************)
(* stream_cqsa_backward is exact for every decomposition, shard, number of *)
(* streams and failure, on the device path and on the host path.           *)
(***************************************************************************)
EXTENDS Backward, DecompositionProofs

FutureState == {"none", "queued", "done", "oom", "error"}
Job == [task : Path, slot : Slot]
Name == Path \cup {None}

CallInv ==
    /\ host_resident \in BOOLEAN /\ allow_escalation \in BOOLEAN
    /\ shard \subseteq Range(Tasks[Itr])
    /\ exc \in {"none", "oom", "error"}
    /\ outcome \in {"running", "returned", "raised"}
    /\ outcome = "returned" => pc = "end"
    /\ pc \in IF host_resident
              THEN {"attempt", "flush", "gather", "output", "except", "end"}
              ELSE {"loop", "run", "dq", "dk", "dv", "except", "end"}

-----------------------------------------------------------------------------
(* Sets of subproblems that stand for the shard.                             *)

Related(p, q) == q \in Ancestors(p) \/ p \in Ancestors(q)

\* A keeps every kept pair of the shard in one place, and no other pair.
Cut(A) ==
    /\ \A q \in A : q \in Path /\ \E p \in shard : p \in Ancestors(q) /\ KeptOf[q] \subseteq KeptOf[p]
    /\ \A p \in shard : \A x \in KeptOf[p] :
          \E q \in A : /\ p \in Ancestors(q) /\ x \in KeptOf[q]
                       /\ \A r \in A : p \in Ancestors(r) /\ x \in KeptOf[r] => r = q

-----------------------------------------------------------------------------
(* The device path.                                                          *)

Open == Range(pending) \cup ({cur} \ {None})
Clean(p) == \A g \in Gradient : grad[g][p] = 0
Done == {p \in Path : grad["dv"][p] # 0}

DeviceType ==
    /\ pending \in Seq(Path) /\ Distinct(pending)
    /\ cur \in Name
    /\ grad \in [Gradient -> [Path -> {0, 1}]]
    /\ retries \in 0 .. Budget + 1
    /\ dirty \in BOOLEAN /\ (dirty => pc \in {"except", "end"})
    /\ IsFiniteSet(Done)
    /\ host_resident => pending = <<>> /\ ~dirty /\ \A p \in Path : Clean(p)

\* How far the additions of the current subproblem have got.
CurInv ==
    /\ pc = "loop" => cur = None
    /\ pc \in {"run", "dq", "dk", "dv", "except"} => cur \in Path
    /\ cur \notin Range(pending)
    /\ pc \in {"run", "dq"} \/ (pc = "except" /\ exc = "oom" /\ ~dirty) => Clean(cur)
    /\ pc = "dk" => grad["dq"][cur] = 1 /\ grad["dk"][cur] = 0 /\ grad["dv"][cur] = 0
    /\ pc = "dv" => grad["dq"][cur] = 1 /\ grad["dk"][cur] = 1 /\ grad["dv"][cur] = 0
    /\ pc # "end" => retries <= Budget
    /\ outcome = "returned" => pending = <<>> /\ cur = None

\* What is open is disjoint from what was added, above and below.
OpenInv ==
    /\ \A p, q \in Open : Related(p, q) => p = q
    /\ \A p \in Open : \A q \in Path : Related(p, q) /\ q # cur => Clean(q)
    /\ \A q \in Path : q # cur => grad["dq"][q] = grad["dk"][q] /\ grad["dk"][q] = grad["dv"][q]
    /\ Cut(Open \cup Done)

DeviceInv == ~host_resident => CurInv /\ OpenInv

-----------------------------------------------------------------------------
(* The host path.                                                            *)

HostType ==
    /\ accumulate_on_gpu \in BOOLEAN /\ scatter_async \in BOOLEAN
    /\ host_resident => max_parallel \in Pars
    /\ depth \in Depth /\ tasks \in Seq(Path) /\ Distinct(tasks)
    /\ \A k \in DOMAIN tasks : Len(tasks[k]) = depth
    /\ i \in 0 .. Len(tasks)
    /\ caller \in {"busy", "idle"}
    /\ DOMAIN queue = Slot
    /\ stage_in \in [Slot -> Name] /\ dev \in [Slot -> Name] /\ product \in [Slot -> Name]
    /\ stage_out \in [Depth -> [Slot -> Name]]
    /\ slot_state \in [Slot -> Name] /\ slot_scatter \in [Slot -> Name]
    /\ future \in [Path -> FutureState]
    /\ jobs \in [Depth -> Seq(Job)]
    /\ added \in [Depth -> [Path -> Nat]]

Running == pc \in {"flush", "gather", "output"}
Issued  == {tasks[k] : k \in 1 .. i}

\* The work of a subproblem on its stream, without its last operation and with it.
LoadOf(p)   == [op |-> "load", task |-> p]
KernelOf(p) == [op |-> "kernel", task |-> p]
OutOf(p)    == [op |-> IF accumulate_on_gpu THEN "add" ELSE "d2h", task |-> p]

Bare(s, p) ==
    \/ queue[s] = <<LoadOf(p), KernelOf(p)>> /\ stage_in[s] = p
    \/ queue[s] = <<KernelOf(p)>> /\ dev[s] = p
    \/ queue[s] = <<>> /\ product[s] = p

Full(s, p) ==
    \/ queue[s] = <<LoadOf(p), KernelOf(p), OutOf(p)>> /\ stage_in[s] = p
    \/ queue[s] = <<KernelOf(p), OutOf(p)>> /\ dev[s] = p
    \/ queue[s] = <<OutOf(p)>> /\ product[s] = p

\* Of which attempt the tasks are.
TasksInv ==
    /\ Range(tasks) = {p \in Range(Tasks[depth]) : SubSeq(p, 1, Itr) \in shard}
    /\ Cut(Range(tasks))
    /\ pc \in {"gather", "output"} => i < Len(tasks)

\* The slots: one subproblem each, from its gather to its scatter.
LaneInv ==
    \A s \in Slot :
        /\ queue[s] = <<>> \/ \E p \in Path : Bare(s, p) \/ Full(s, p)
        /\ slot_state[s] # None =>
              /\ slot_state[s] \in Issued
              /\ \/ Full(s, slot_state[s])
                 \/ queue[s] = <<>> /\ (~accumulate_on_gpu => stage_out[depth][s] = slot_state[s])
        /\ slot_scatter[s] # None => queue[s] = <<>> /\ slot_state[s] = None
        /\ \A r \in Slot : slot_state[s] = slot_state[r] => s = r \/ slot_state[s] = None

\* How far the host has got with the slot of the iteration.
PhaseInv ==
    \A s \in Slot :
        /\ pc = "gather" /\ s = S => slot_state[s] = None /\ slot_scatter[s] = None
        /\ pc = "output" /\ s = S =>
              slot_state[s] = None /\ slot_scatter[s] = None /\ Bare(s, Current)
        /\ Running /\ slot_state[s] = None => queue[s] = <<>> \/ (pc = "output" /\ s = S)
        /\ pc = "attempt" \/ outcome = "returned" => queue[s] = <<>> /\ slot_state[s] = None

\* The scatters handed to the workers, one to a subproblem, find its gradients.
JobInv ==
    \A d \in Depth :
        /\ \A k, l \in DOMAIN jobs[d] : jobs[d][k].task = jobs[d][l].task => k = l
        /\ \A j \in Range(jobs[d]) :
              /\ Len(j.task) = d /\ future[j.task] = "queued"
              /\ ~accumulate_on_gpu => stage_out[d][j.slot] = j.task
              /\ d = depth => slot_scatter[j.slot] = j.task

\* Whose scatter has been handed over.
FutureInv ==
    /\ \A p \in Path : Len(p) = depth /\ future[p] = "queued" => \E j \in Range(jobs[depth]) : j.task = p
    /\ Running => \A p \in Path :
          Len(p) = depth /\ future[p] \in {"queued", "oom", "error"} => \E s \in Slot : slot_scatter[s] = p
    /\ \A s \in Slot : slot_state[s] # None => future[slot_state[s]] = "none"
    /\ \A p \in Path : Len(p) = depth /\ p \notin Issued => future[p] = "none"
    /\ accumulate_on_gpu => \A p \in Path : future[p] \notin {"oom", "error"}

\* Attempts that did not start.
FreshInv ==
    /\ \A d \in Depth : d > depth \/ (d = depth /\ pc = "attempt") =>
          /\ jobs[d] = <<>> /\ \A p \in Path : added[d][p] = 0
          /\ \A p \in Path : Len(p) = d => future[p] = "none"
    /\ pc = "attempt" => i = 0 /\ caller = "idle" /\ \A s \in Slot : slot_scatter[s] = None
    /\ caller = "busy" /\ accumulate_on_gpu => \A p \in Path : added[depth][p] = 0

\* What is still to be added to the accumulators of the attempt.
Owed(p) ==
    \/ p \notin Issued
    \/ accumulate_on_gpu /\ \E s \in Slot : slot_state[s] = p /\ Full(s, p)
    \/ ~accumulate_on_gpu /\ (future[p] = "queued" \/ \E s \in Slot : slot_state[s] = p)

AddedInv ==
    /\ Running =>
          \A p \in Path : (p \in Issued => future[p] \notin {"oom", "error"}) =>
              added[depth][p] = IF Owed(p) THEN 0 ELSE 1
    /\ outcome = "returned" =>
          /\ \A p \in Path : added[depth][p] = IF p \in Range(tasks) THEN 1 ELSE 0
          /\ jobs[depth] = <<>>

HostInv == host_resident =>
    TasksInv /\ LaneInv /\ PhaseInv /\ JobInv /\ FutureInv /\ FreshInv /\ AddedInv

\* The device path issues nothing to the streams and the workers.
IdleInv == ~host_resident =>
    (\A s \in Slot : queue[s] = <<>>) /\ (\A d \in Depth : jobs[d] = <<>>)

IInv == CallInv /\ DeviceType /\ DeviceInv /\ HostType /\ HostInv /\ IdleInv

-----------------------------------------------------------------------------
\* A finite set of numbers has a maximum.
LEMMA MaxIs ==
    ASSUME NEW T, T \subseteq Nat, IsFiniteSet(T), T # {}
    PROVE  Max(T) \in T /\ \A x \in T : x <= Max(T)
<1>1. \E m \in T : \A x \in T : m >= x
  BY LargestNatural
<1>2. Max(T) \in T /\ \A x \in T : Max(T) >= x
  BY <1>1 DEF Max
<1>3. QED
  BY <1>2

\* The shard is a finite set of paths of the initial depth, and so is any part of it.
LEMMA ShardIs ==
    ASSUME CallInv
    PROVE  /\ \A p \in shard : p \in Path /\ p \in Seq(Chunk) /\ Len(p) = Itr
           /\ IsFiniteSet(shard) /\ Cardinality(shard) \in Nat
           /\ \A A : IsFiniteSet({p \in shard : p \in A})
<1> DEFINE list == Tasks[Itr]
<1>1. Itr \in 0 .. Deepest
  BY DeepestType
<1>2. list \in Seq(Path) /\ \A k \in DOMAIN list : Len(list[k]) = Itr
  BY <1>1, TasksAre
<1>3. shard \subseteq Range(list)
  BY DEF CallInv
<1> HIDE DEF list
<1>4. \A p \in Range(list) : p \in Path /\ Len(p) = Itr
  BY <1>2 DEF Range
<1>5. IsFiniteSet(Range(list))
  <2> DEFINE D == 1 .. Len(list)
             f == [k \in D |-> list[k]]
  <2>1. IsFiniteSet(D)
    <3>1. 1 \in Int /\ Len(list) \in Int
      BY <1>2
    <3>2. QED
      BY <3>1, FS_Interval
  <2>2. Range(list) = {list[k] : k \in D}
    BY <1>2 DEF Range
  <2>3. f \in Surjection(D, Range(list))
    BY <2>2 DEF Surjection
  <2> HIDE DEF D, f
  <2>4. QED
    BY <2>1, <2>3, FS_Surjection
<1>6. IsFiniteSet(shard) /\ Cardinality(shard) \in Nat
  BY <1>3, <1>5, FS_Subset, FS_CardinalityType
<1>7. \A A : IsFiniteSet({p \in shard : p \in A})
  <2> TAKE A
  <2> DEFINE B == {p \in shard : p \in A}
  <2>1. B \in SUBSET shard
    OBVIOUS
  <2> HIDE DEF B
  <2>2. IsFiniteSet(B)
    BY <1>6, <2>1, FS_Subset
  <2>3. QED
    BY <2>2 DEF B
<1>8. QED
  BY <1>3, <1>4, <1>6, <1>7, PathIs

\* The retry budget is a number.
LEMMA BudgetType == CallInv => Budget \in Nat
<1> SUFFICES ASSUME CallInv PROVE Budget \in Nat
  OBVIOUS
<1> DEFINE a == Cardinality(shard)
           b == MaxDepth
<1>1. a \in Nat /\ b \in Nat
  BY ShardIs, MaxDepthType
<1>2. Budget = 64 + 16 * Max({1, a}) * Max({1, b})
  BY DEF Budget
<1> HIDE DEF a, b
<1>3. \A n \in Nat : Max({1, n}) \in Nat
  <2> TAKE n \in Nat
  <2> DEFINE T == {1, n}
  <2>1. T \subseteq Nat /\ T # {}
    OBVIOUS
  <2>0. IsFiniteSet({1})
    BY FS_Singleton
  <2>2. IsFiniteSet({1} \cup {n}) /\ {1} \cup {n} = T
    BY <2>0, FS_AddElement
  <2> HIDE DEF T
  <2>3. Max(T) \in T
    BY <2>1, <2>2, MaxIs
  <2>4. QED
    BY <2>1, <2>3 DEF T
<1> DEFINE m == Max({1, a})
           k == Max({1, b})
<1>4. m \in Nat /\ k \in Nat
  BY <1>1, <1>3
<1> HIDE DEF m, k
<1>5. 16 * m * k \in Nat
  BY <1>4
<1>6. Budget = 64 + 16 * m * k
  BY <1>2 DEF m, k
<1>7. QED
  BY <1>5, <1>6

\* On the host path the slot of a subproblem is a slot.
LEMMA SlotType ==
    ASSUME host_resident, HostType
    PROVE  /\ Slot \subseteq Nat
           /\ i < Len(tasks) => S \in Slot
<1>1. Max(Pars) \in Nat \ {0} /\ max_parallel \in Nat \ {0} /\ max_parallel <= Max(Pars)
  <2>1. Pars \subseteq Nat /\ Pars # {} /\ IsFiniteSet(Pars) /\ max_parallel \in Pars
    BY BackwardAssumption DEF HostType
  <2>2. Max(Pars) \in Pars /\ \A x \in Pars : x <= Max(Pars)
    BY <2>1, MaxIs
  <2>3. QED
    BY <2>1, <2>2, BackwardAssumption
<1>2. Slot \subseteq Nat
  BY <1>1 DEF Slot
<1>3. ASSUME i < Len(tasks) PROVE S \in Slot
  <2> DEFINE l == Len(tasks)
             m == max_parallel
  <2>1. l \in Nat /\ i \in Nat /\ i < l
    BY <1>3 DEF HostType
  <2>2. n_par = Min({m, l})
    BY DEF n_par
  <2> HIDE DEF l
  <2>3. Min({m, l}) \in {m, l} /\ Min({m, l}) <= m /\ Min({m, l}) <= l
    <3>1. \E x \in {m, l} : \A y \in {m, l} : x <= y
      BY <1>1, <2>1
    <3> DEFINE T == {m, l}
    <3>2. Min(T) \in T /\ \A y \in T : Min(T) <= y
      BY <3>1 DEF Min
    <3>3. QED
      BY <3>2
  <2> DEFINE n == n_par
  <2>4. n \in Nat \ {0} /\ n <= m
    BY <1>1, <2>1, <2>2, <2>3
  <2> HIDE DEF n, m
  <2>5. i % n \in 0 .. n - 1
    BY <2>1, <2>4
  <2>6. S = (i % n) + 1
    BY DEF S, n
  <2>7. QED
    BY <1>1, <2>4, <2>5, <2>6 DEF Slot, m
<1>4. QED
  BY <1>2, <1>3

-----------------------------------------------------------------------------
\* What the paths below a path descend from.
LEMMA Descent ==
    /\ \A p \in Path : p \in Seq(Chunk) /\ p \in Ancestors(p)
    /\ \A p \in Path : \A j \in Chunk : Ancestors(Append(p, j)) = Ancestors(p) \cup {Append(p, j)}
    /\ \A p \in Path : \A q \in Ancestors(p) : q \in Path /\ Len(q) <= Len(p)
    /\ \A p \in Path : \A q, r \in Ancestors(p) : Len(q) = Len(r) => q = r
    /\ \A p \in Path : \A q, r \in Ancestors(p) : Len(q) <= Len(r) => q \in Ancestors(r)
<1>1. \A p \in Path : p \in Seq(Chunk) /\ p \in Ancestors(p)
  BY PathIs, AncestorsIs
<1>2. \A p \in Path : \A j \in Chunk : Ancestors(Append(p, j)) = Ancestors(p) \cup {Append(p, j)}
  BY <1>1, ChildAncestors
<1>3. \A p \in Path : \A q \in Ancestors(p) : q \in Path /\ Len(q) <= Len(p)
  <2> SUFFICES ASSUME NEW p \in Path, NEW q \in Ancestors(p) PROVE q \in Path /\ Len(q) <= Len(p)
    OBVIOUS
  <2>1. q \in Seq(Chunk) /\ Len(q) <= Len(p) /\ Len(p) <= Deepest
    BY <1>1, PathIs, AncestorsIs
  <2>2. Len(q) <= Deepest
    BY <1>1, <2>1, DeepestType
  <2>3. QED
    BY <2>1, <2>2, PathIs
<1>4. \A p \in Path : \A q, r \in Ancestors(p) : Len(q) = Len(r) => q = r
  BY <1>1, AncestorsIs
<1>5. \A p \in Path : \A q, r \in Ancestors(p) : Len(q) <= Len(r) => q \in Ancestors(r)
  BY <1>1, AncestorsNest
<1>6. QED
  BY <1>1, <1>2, <1>3, <1>4, <1>5

\* The children of a path: which they are, what they keep, and what they descend from.
LEMMA KidFacts ==
    ASSUME NEW c \in Path, Len(c) < Deepest
    PROVE  /\ Kids(c) \in Seq(Path) /\ Distinct(Kids(c))
           /\ \A k \in Range(Kids(c)) :
                 /\ k \in Path /\ Len(k) = Len(c) + 1 /\ KeptOf[k] \subseteq KeptOf[c]
                 /\ Ancestors(k) = Ancestors(c) \cup {k}
                 /\ \A r \in Path : k \in Ancestors(r) => c \in Ancestors(r)
           /\ \A x \in KeptOf[c] : \E k \in Range(Kids(c)) :
                 /\ x \in KeptOf[k]
                 /\ \A r \in Range(Kids(c)) : x \in KeptOf[r] => r = k
<1> DEFINE kids == Range(Kids(c))
<1>1. /\ Kids(c) \in Seq(Path) /\ Distinct(Kids(c))
      /\ kids = {Append(c, j) : j \in Chunk} \cap Nonempty
      /\ {TaskOf[q] : q \in kids} = Children(TaskOf[c])
  BY KidsIs
<1> HIDE DEF kids
<1>2. \A k \in kids : /\ k \in Path /\ Len(k) = Len(c) + 1 /\ Ancestors(k) = Ancestors(c) \cup {k}
                     /\ \A r \in Path : k \in Ancestors(r) => c \in Ancestors(r)
  <2> SUFFICES ASSUME NEW k \in kids
               PROVE  /\ k \in Path /\ Len(k) = Len(c) + 1 /\ Ancestors(k) = Ancestors(c) \cup {k}
                      /\ \A r \in Path : k \in Ancestors(r) => c \in Ancestors(r)
    OBVIOUS
  <2>1. PICK j \in Chunk : k = Append(c, j)
    BY <1>1
  <2>2. c \in Seq(Chunk)
    BY Descent
  <2>3. Len(k) = Len(c) + 1
    BY <2>1, <2>2
  <2>4. k \in Path
    BY <2>1, PathStep
  <2>5. \A r \in Path : k \in Ancestors(r) => c \in Ancestors(r)
    BY <2>1, <2>2, Descent, AncestorsIs
  <2>6. QED
    BY <2>1, <2>3, <2>4, <2>5, Descent
<1>3. \A p \in Path : KeptOf[p] = Kept(TaskOf[p]) /\ TaskOf[p].path = p
  BY TableIs, TaskWellFormed DEF KeptOf
<1> DEFINE t == TaskOf[c]
<1>4. /\ \A k \in Children(t) : Kept(k) \subseteq Kept(t)
      /\ \A x \in Kept(t) : \E k \in Children(t) :
            /\ x \in Kept(k)
            /\ \A s \in Children(t) : x \in Kept(s) => s = k
  <2>1. WellFormed(t)
    BY TaskWellFormed
  <2> HIDE DEF t
  <2>2. QED
    BY <2>1, ChildrenPartition
<1>5. \A k \in kids : TaskOf[k] \in Children(t)
  BY <1>1
<1>6. \A s \in Children(t) : \E k \in kids : s = TaskOf[k]
  BY <1>1
<1>7. KeptOf[c] = Kept(t)
  BY <1>3
<1>8. \A k \in kids : KeptOf[k] \subseteq KeptOf[c]
  BY <1>2, <1>3, <1>4, <1>5, <1>7
<1> HIDE DEF t
<1>9. ASSUME NEW x \in KeptOf[c]
      PROVE  \E k \in kids : x \in KeptOf[k] /\ \A r \in kids : x \in KeptOf[r] => r = k
  <2>1. PICK s \in Children(t) : /\ x \in Kept(s)
                                 /\ \A u \in Children(t) : x \in Kept(u) => u = s
    BY <1>4, <1>7
  <2>2. PICK k \in kids : s = TaskOf[k]
    BY <1>6
  <2>3. x \in KeptOf[k]
    BY <1>2, <1>3, <2>1, <2>2
  <2>4. \A r \in kids : x \in KeptOf[r] => r = k
    <3> SUFFICES ASSUME NEW r \in kids, x \in KeptOf[r] PROVE r = k
      OBVIOUS
    <3>1. TaskOf[r] = TaskOf[k]
      BY <1>2, <1>3, <1>5, <2>1, <2>2
    <3>2. QED
      BY <1>2, <1>3, <3>1
  <2>5. QED
    BY <2>3, <2>4
<1>10. QED
  BY <1>1, <1>2, <1>8, <1>9 DEF kids

\* What is in a cut is below the shard, where it is at the shard's depth or deeper.
LEMMA CutBelow ==
    ASSUME CallInv, NEW A, Cut(A), NEW q \in A
    PROVE  q \in Path /\ Itr <= Len(q)
<1>1. q \in Path /\ \E p \in shard : p \in Ancestors(q)
  BY DEF Cut
<1>2. PICK p \in shard : p \in Ancestors(q)
  BY <1>1
<1>3. QED
  BY <1>1, <1>2, ShardIs, Descent

\* The shard itself is a cut.
LEMMA CutShard == CallInv => Cut(shard)
<1> SUFFICES ASSUME CallInv PROVE Cut(shard)
  OBVIOUS
<1>1. \A p \in shard : p \in Path /\ p \in Ancestors(p) /\ Len(p) = Itr
  BY ShardIs, Descent
<1>2. \A p, r \in shard : p \in Ancestors(r) => r = p
  BY <1>1, Descent
<1>3. QED
  BY <1>1, <1>2 DEF Cut

\* Some subproblems of a cut replaced by their children: a cut.
LEMMA CutRefine ==
    ASSUME CallInv, NEW A, Cut(A), NEW B, B \subseteq A, \A c \in B : Len(c) < Deepest
    PROVE  Cut((A \ B) \cup UNION {Range(Kids(c)) : c \in B})
<1> DEFINE below == UNION {Range(Kids(c)) : c \in B}
           D == (A \ B) \cup below
<1>1. \A c \in B : c \in Path /\ Len(c) < Deepest /\ Itr <= Len(c)
  BY CutBelow
<1>2. \A k \in below : \E c \in B : k \in Range(Kids(c))
  OBVIOUS
<1>3. \A c \in B : \A k \in Range(Kids(c)) : k \in below
  OBVIOUS
<1> HIDE DEF below
<1>4. ASSUME NEW q \in D
      PROVE  q \in Path /\ \E p \in shard : p \in Ancestors(q) /\ KeptOf[q] \subseteq KeptOf[p]
  <2>1. CASE q \in A
    BY <2>1 DEF Cut
  <2>2. CASE q \in below
    <3>1. PICK c \in B : q \in Range(Kids(c))
      BY <1>2, <2>2
    <3>2. q \in Path /\ KeptOf[q] \subseteq KeptOf[c] /\ Ancestors(q) = Ancestors(c) \cup {q}
      BY <1>1, <3>1, KidFacts
    <3>3. PICK p \in shard : p \in Ancestors(c) /\ KeptOf[c] \subseteq KeptOf[p]
      BY DEF Cut
    <3>4. QED
      BY <3>2, <3>3
  <2>3. QED
    BY <2>1, <2>2
<1>5. ASSUME NEW p \in shard, NEW x \in KeptOf[p]
      PROVE  \E q \in D : /\ p \in Ancestors(q) /\ x \in KeptOf[q]
                          /\ \A r \in D : p \in Ancestors(r) /\ x \in KeptOf[r] => r = q
  <2>1. PICK q \in A : /\ p \in Ancestors(q) /\ x \in KeptOf[q]
                       /\ \A r \in A : p \in Ancestors(r) /\ x \in KeptOf[r] => r = q
    BY DEF Cut
  <2>2. ASSUME NEW r \in below, p \in Ancestors(r), x \in KeptOf[r]
        PROVE  q \in B /\ r \in Range(Kids(q))
    <3>1. PICK c \in B : r \in Range(Kids(c))
      BY <1>2
    <3>2. /\ KeptOf[r] \subseteq KeptOf[c] /\ Ancestors(r) = Ancestors(c) \cup {r}
          /\ Len(r) = Len(c) + 1
      BY <1>1, <3>1, KidFacts
    <3>3. p # r
      <4>1. Len(p) = Itr /\ c \in Seq(Chunk) /\ Itr <= Len(c) /\ Itr \in Nat
        BY <1>1, ShardIs, PathIs, DeepestType
      <4>2. QED
        BY <3>2, <4>1
    <3>4. c = q
      BY <2>1, <2>2, <3>2, <3>3
    <3>5. QED
      BY <3>1, <3>4
  <2>3. CASE q \notin B
    BY <2>1, <2>2, <2>3
  <2>4. CASE q \in B
    <3>1. PICK k \in Range(Kids(q)) :
             /\ x \in KeptOf[k]
             /\ \A r \in Range(Kids(q)) : x \in KeptOf[r] => r = k
      BY <1>1, <2>1, <2>4, KidFacts
    <3>2. p \in Ancestors(k)
      BY <1>1, <2>1, <2>4, KidFacts
    <3>3. k \in D
      BY <1>3, <2>4
    <3>4. \A r \in D : p \in Ancestors(r) /\ x \in KeptOf[r] => r = k
      BY <2>1, <2>2, <2>4, <3>1
    <3>5. QED
      BY <3>1, <3>2, <3>3, <3>4
  <2>5. QED
    BY <2>3, <2>4
<1>6. QED
  BY <1>4, <1>5 DEF Cut, below

\* A cut counts what the shard counts.
LEMMA CutCounts ==
    ASSUME CallInv, NEW n \in [Path -> {0, 1}], Cut({q \in Path : n[q] = 1}), NEW x
    PROVE  Counted(x, n) = Cardinality({p \in shard : x \in KeptOf[p]})
<1> DEFINE A == {q \in Path : n[q] = 1}
           M == {q \in Path : x \in KeptOf[q]}
           P == {p \in shard : x \in KeptOf[p]}
           U == UNION {{q} \X (1 .. n[q]) : q \in M}
           below(p) == CHOOSE q \in A : p \in Ancestors(q) /\ x \in KeptOf[q]
           f == [p \in P |-> <<below(p), 1>>]
<1>1. U = {<<q, 1>> : q \in A \cap M}
  <2>1. \A q \in M : (n[q] = 1 /\ q \in A) \/ (n[q] = 0 /\ q \notin A)
    <3>1. \A q \in M : q \in Path /\ (n[q] = 1 \/ n[q] = 0)
      OBVIOUS
    <3>2. QED
      BY <3>1
  <2>2. 1 .. 1 = {1} /\ 1 .. 0 = {}
    OBVIOUS
  <2>3. \A q \in M : {q} \X (1 .. n[q]) = IF q \in A THEN {<<q, 1>>} ELSE {}
    BY <2>1, <2>2
  <2> HIDE DEF A, M
  <2>4. QED
    BY <2>3
<1>2. Cut(A)
  OBVIOUS
<1>3. A \cap M = {q \in A : x \in KeptOf[q]}
  OBVIOUS
<1>4. IsFiniteSet(P)
  <2> DEFINE K == {p \in shard : p \in {r \in shard : x \in KeptOf[r]}}
  <2>1. IsFiniteSet(K)
    BY ShardIs
  <2>2. K = P
    OBVIOUS
  <2>3. QED
    BY <2>1, <2>2
<1> HIDE DEF A, U, M
<1>5. \A p \in P : /\ below(p) \in A /\ p \in Ancestors(below(p)) /\ x \in KeptOf[below(p)]
                   /\ \A r \in A : p \in Ancestors(r) /\ x \in KeptOf[r] => r = below(p)
  <2> TAKE p \in P
  <2>1. PICK q \in A : /\ p \in Ancestors(q) /\ x \in KeptOf[q]
                       /\ \A r \in A : p \in Ancestors(r) /\ x \in KeptOf[r] => r = q
    BY <1>2 DEF Cut
  <2>2. below(p) \in A /\ p \in Ancestors(below(p)) /\ x \in KeptOf[below(p)]
    BY <2>1
  <2> HIDE DEF below
  <2>3. QED
    BY <2>1, <2>2
<1>6. \A p \in P : f[p] = <<below(p), 1>> /\ f[p] \in U
  BY <1>1, <1>3, <1>5
<1> HIDE DEF below
<1>7. \A p, r \in P : f[p] = f[r] => p = r
  <2> SUFFICES ASSUME NEW p \in P, NEW r \in P, f[p] = f[r] PROVE p = r
    OBVIOUS
  <2>1. below(p) = below(r)
    BY <1>6
  <2>2. below(p) \in Path
    BY <1>2, <1>5, CutBelow
  <2>3. p \in Ancestors(below(p)) /\ r \in Ancestors(below(p)) /\ Len(p) = Len(r)
    BY <1>5, <2>1, ShardIs
  <2>4. QED
    BY <2>2, <2>3, Descent
<1>8. \A u \in U : \E p \in P : f[p] = u
  <2> SUFFICES ASSUME NEW u \in U PROVE \E p \in P : f[p] = u
    OBVIOUS
  <2>1. PICK q \in A : u = <<q, 1>> /\ x \in KeptOf[q]
    BY <1>1, <1>3
  <2>2. PICK p \in shard : p \in Ancestors(q) /\ KeptOf[q] \subseteq KeptOf[p]
    BY <1>2 DEF Cut
  <2>3. p \in P
    BY <2>1, <2>2
  <2>4. q = below(p)
    BY <1>5, <2>1, <2>2, <2>3
  <2>5. QED
    BY <1>6, <2>1, <2>3, <2>4
<1> HIDE DEF P
<1>9. f \in Bijection(P, U)
  <2>1. f \in [P -> U]
    BY <1>6
  <2> HIDE DEF f
  <2>2. QED
    BY <1>7, <1>8, <2>1 DEF Bijection, Injection, Surjection, IsInjective
<1>10. Cardinality(U) = Cardinality(P)
  <2>1. ExistsBijection(P, U)
    BY <1>9 DEF ExistsBijection
  <2>2. QED
    BY <1>4, <2>1, FS_Bijection
<1>11. Counted(x, n) = Cardinality(U)
  BY DEF Counted, U, M
<1>12. QED
  BY <1>10, <1>11 DEF P

-----------------------------------------------------------------------------
\* The subproblems of a level that are below the shard.
OfShard(d) == {p \in Range(Tasks[d]) : SubSeq(p, 1, Itr) \in shard}

\* The task list an attempt starts from, of the shard at the initial level and of
\* what is below it at a deeper one.
LEMMA MineIs ==
    ASSUME CallInv, NEW d \in Depth
    PROVE  /\ Mine(Tasks[d]) \in Seq(Path) /\ Distinct(Mine(Tasks[d]))
           /\ Range(Mine(Tasks[d])) = OfShard(d)
           /\ \A k \in DOMAIN Mine(Tasks[d]) : Len(Mine(Tasks[d])[k]) = d
           /\ \A p \in OfShard(d) : p \in Path /\ Len(p) = d
<1> DEFINE list == Tasks[d]
           keep == {p \in Range(list) : SubSeq(p, 1, Itr) \in shard}
<1>1. d \in 0 .. Deepest
  BY DeepestType DEF Depth
<1>2. list \in Seq(Path) /\ Distinct(list) /\ \A k \in DOMAIN list : Len(list[k]) = d
  BY <1>1, TasksAre
<1>3. OfShard(d) = keep
  BY DEF OfShard
<1> HIDE DEF list
<1>4. Mine(list) = Entries(list, keep)
  <2>1. \A k \in DOMAIN list : list[k] \in keep <=> SubSeq(list[k], 1, Itr) \in shard
    BY DEF Range
  <2>2. [k \in DOMAIN list |-> IF SubSeq(list[k], 1, Itr) \in shard THEN <<list[k]>> ELSE <<>>]
           = [k \in DOMAIN list |-> IF list[k] \in keep THEN <<list[k]>> ELSE <<>>]
    BY <2>1
  <2>3. QED
    BY <2>2 DEF Mine, Selected, Entries
<1> HIDE DEF keep
<1>5. /\ Entries(list, keep) \in Seq(Path) /\ Distinct(Entries(list, keep))
      /\ Range(Entries(list, keep)) = Range(list) \cap keep
  BY <1>2, EntriesAre
<1>6. keep \subseteq Range(list)
  BY DEF keep
<1>7. \A p \in Range(list) : p \in Path /\ Len(p) = d
  BY <1>2 DEF Range
<1>8. Range(Mine(list)) = keep
  BY <1>4, <1>5, <1>6
<1>9. \A k \in DOMAIN Mine(list) : Len(Mine(list)[k]) = d
  <2>1. \A k \in DOMAIN Mine(list) : Mine(list)[k] \in Range(Mine(list))
    BY DEF Range
  <2>2. QED
    BY <1>6, <1>7, <1>8, <2>1
<1>10. QED
  BY <1>3, <1>4, <1>5, <1>6, <1>7, <1>8, <1>9 DEF list

\* The shard as a list: each of its paths once.
LEMMA ShardTasksAre ==
    ASSUME CallInv
    PROVE  /\ ShardTasks \in Seq(Path) /\ Distinct(ShardTasks)
           /\ Range(ShardTasks) = shard
           /\ \A k \in DOMAIN ShardTasks : Len(ShardTasks[k]) = Itr
           /\ OfShard(Itr) = shard
<1> DEFINE list == Tasks[Itr]
<1>1. Itr \in 0 .. Deepest
  BY DeepestType
<1>2. list \in Seq(Path) /\ Distinct(list)
  BY <1>1, TasksAre
<1>3. shard \subseteq Range(list)
  BY DEF CallInv
<1>4. OfShard(Itr) = {p \in Range(list) : SubSeq(p, 1, Itr) \in shard}
  BY DEF OfShard
<1>5. \A p \in Range(list) : p \in Seq(Chunk) /\ Len(p) = Itr
  <2>1. \A k \in DOMAIN list : list[k] \in Path /\ Len(list[k]) = Itr
    BY <1>1, <1>2, TasksAre
  <2>2. QED
    BY <2>1, PathIs DEF Range
<1> HIDE DEF list
<1>6. \A p \in Range(list) : SubSeq(p, 1, Itr) = p
  <2> SUFFICES ASSUME NEW p \in Range(list) PROVE SubSeq(p, 1, Itr) = p
    OBVIOUS
  <2>1. p \in Seq(Chunk) /\ Len(p) = Itr /\ Itr \in Nat \ {0}
    BY <1>5, ItrAssumption
  <2>2. QED
    BY <2>1
<1>7. OfShard(Itr) = shard
  BY <1>3, <1>4, <1>6
<1>8. ShardTasks = Entries(list, shard)
  BY DEF ShardTasks, Selected, Entries, list
<1>9. /\ Entries(list, shard) \in Seq(Path) /\ Distinct(Entries(list, shard))
      /\ Range(Entries(list, shard)) = Range(list) \cap shard
  BY <1>2, EntriesAre
<1>10. Range(ShardTasks) = shard
  BY <1>3, <1>8, <1>9
<1>11. \A k \in DOMAIN ShardTasks : ShardTasks[k] \in Range(ShardTasks)
  BY DEF Range
<1>12. QED
  BY <1>3, <1>5, <1>7, <1>8, <1>9, <1>10, <1>11

\* One level deeper the shard is covered by the children of what covered it.
LEMMA Deepening ==
    ASSUME CallInv, NEW d \in Depth, d + 1 \in Depth, Cut(OfShard(d))
    PROVE  Cut(OfShard(d + 1))
<1>1. d \in 0 .. Deepest /\ d + 1 \in 1 .. Deepest /\ Itr <= d /\ Itr \in Nat \ {0} /\ d \in Nat
  BY DeepestType DEF Depth
<1>2. Range(Tasks[d + 1]) = UNION {Range(Kids(p)) : p \in Range(Tasks[d])}
  <2>1. Range(Tasks[d + 1]) = UNION {Range(Kids(p)) : p \in Range(Tasks[(d + 1) - 1])}
    BY <1>1, TasksAre
  <2>2. (d + 1) - 1 = d
    BY <1>1
  <2>3. QED
    BY <2>1, <2>2
<1>3. \A p \in Range(Tasks[d]) : p \in Path /\ Len(p) = d
  <2>1. Tasks[d] \in Seq(Path) /\ \A k \in DOMAIN Tasks[d] : Len(Tasks[d][k]) = d
    BY <1>1, TasksAre
  <2>2. QED
    BY <2>1 DEF Range
<1>4. ASSUME NEW p \in Range(Tasks[d]), NEW k \in Range(Kids(p))
      PROVE  SubSeq(k, 1, Itr) = SubSeq(p, 1, Itr)
  <2>1. p \in Path /\ Len(p) = d /\ Len(p) < Deepest
    BY <1>1, <1>3, DeepestType
  <2>2. PICK j \in Chunk : k = Append(p, j)
    BY <2>1, KidsIs
  <2>3. p \in Seq(Chunk) /\ Itr \in 1 .. Len(p)
    BY <1>1, <2>1, Descent
  <2>4. QED
    BY <2>2, <2>3
<1>5. OfShard(d + 1) = UNION {Range(Kids(p)) : p \in OfShard(d)}
  <2>1. \A k : k \in OfShard(d + 1) <=> k \in Range(Tasks[d + 1]) /\ SubSeq(k, 1, Itr) \in shard
    BY DEF OfShard
  <2>2. \A p : p \in OfShard(d) <=> p \in Range(Tasks[d]) /\ SubSeq(p, 1, Itr) \in shard
    BY DEF OfShard
  <2>3. \A k : k \in Range(Tasks[d + 1]) <=> \E p \in Range(Tasks[d]) : k \in Range(Kids(p))
    BY <1>2
  <2>4. \A k : k \in OfShard(d + 1) <=> \E p \in OfShard(d) : k \in Range(Kids(p))
    BY <1>4, <2>1, <2>2, <2>3
  <2>5. QED
    BY <2>4
<1> DEFINE A == OfShard(d)
<1>6. \A c \in A : Len(c) < Deepest
  BY <1>1, <1>3, DeepestType DEF OfShard
<1>7. Cut((A \ A) \cup UNION {Range(Kids(c)) : c \in A})
  <2> HIDE DEF A
  <2>1. A \subseteq A /\ Cut(A)
    BY DEF A
  <2>2. QED
    BY <1>6, <2>1, CutRefine
<1>8. (A \ A) \cup UNION {Range(Kids(c)) : c \in A} = OfShard(d + 1)
  BY <1>5
<1>9. QED
  BY <1>7, <1>8

-----------------------------------------------------------------------------
\* Steps.

\* A step is an action of the path the call is on, or changes nothing.
LEMMA NextCases ==
    ASSUME [Next]_vars
    PROVE  \/ /\ ~host_resident /\ UNCHANGED <<callVars, hostVars>>
              /\ \/ Pop \/ Compute \/ AddDq \/ AddDk \/ AddDv \/ HandleError \/ DeviceGiveUp
                 \/ RefineTask \/ DeviceReturn \/ ComputeFails \/ AddFails
           \/ /\ host_resident /\ UNCHANGED deviceVars
              /\ \/ StartAttempt \/ FlushSlot \/ ReuseSlot \/ Gather \/ Output \/ HostReturn
                 \/ ScatterRaises \/ HostGiveUp \/ Escalate \/ IssueFails \/ CallerDone
                 \/ \E s \in Slot : DrainSlot(s) \/ CollectScatter(s)
                 \/ \E s \in Slot : Load(s) \/ Kernel(s) \/ DeviceAdd(s) \/ D2h(s)
                 \/ \E d \in Depth : Scatter(d) \/ ScatterFails(d)
           \/ UNCHANGED vars
  BY DEF Next, DevicePath, HostPath, Ended, DeviceStep, DeviceFails, HostStep, HostFails, StreamStep

\* The arguments of the call, its thread and its outcome.
LEMMA CallStep == CallInv /\ HostType /\ HostInv /\ [Next]_vars => CallInv'
<1> SUFFICES ASSUME CallInv, HostType, HostInv, [Next]_vars PROVE CallInv'
  OBVIOUS
<1> USE DEF CallInv, callVars, argVars, loopVars
<1>1. CASE UNCHANGED vars
  BY <1>1 DEF vars
<1>2. CASE ~host_resident /\ UNCHANGED <<callVars, hostVars>>
  BY <1>2, NextCases DEF Pop, Compute, AddDq, AddDk, AddDv, HandleError, DeviceGiveUp,
     RefineTask, DeviceReturn, ComputeFails, AddFails, Gradient, vars
<1>3. CASE host_resident /\ UNCHANGED deviceVars
  <2>1. CASE StartAttempt \/ HostReturn \/ HostGiveUp \/ Escalate
    BY <1>3, <2>1 DEF StartAttempt, HostReturn, HostGiveUp, Escalate
  <2>2. CASE FlushSlot \/ ReuseSlot \/ Gather \/ Output
    BY <1>3, <2>2 DEF FlushSlot, Flush, ReuseSlot, Gather, Output
  <2>3. CASE IssueFails \/ CallerDone
    BY <1>3, <2>3 DEF IssueFails, Raise, CallerDone
  <2>4. CASE ScatterRaises
    BY <1>3, <2>4 DEF ScatterRaises, ScatterFailed
  <2>5. CASE \E s \in Slot : DrainSlot(s) \/ CollectScatter(s)
    BY <1>3, <2>5 DEF DrainSlot, CollectScatter, Flush
  <2>6. CASE \E s \in Slot : Load(s) \/ Kernel(s) \/ DeviceAdd(s) \/ D2h(s)
    BY <1>3, <2>6 DEF Load, Kernel, DeviceAdd, D2h, Exec
  <2>7. CASE \E d \in Depth : Scatter(d) \/ ScatterFails(d)
    BY <1>3, <2>7 DEF Scatter, ScatterFails, Take
  <2>8. QED
    BY <1>1, <1>3, <2>1, <2>2, <2>3, <2>4, <2>5, <2>6, <2>7, NextCases
<1>4. QED
  BY <1>1, <1>2, <1>3, NextCases

-----------------------------------------------------------------------------
\* Steps of the device path.

\* An addition of the current subproblem, made once.
LEMMA AddIs ==
    ASSUME DeviceType, NEW g \in Gradient, cur \in Path, grad[g][cur] = 0, Add(g)
    PROVE  /\ grad' \in [Gradient -> [Path -> {0, 1}]] /\ grad'[g][cur] = 1
           /\ \A h \in Gradient : \A q \in Path : h # g \/ q # cur => grad'[h][q] = grad[h][q]
<1>1. PICK p \in Path : p = cur
  OBVIOUS
<1>2. grad' = [grad EXCEPT ![g][p] = 1]
  BY <1>1 DEF Add, DeviceType
<1>3. grad \in [Gradient -> [Path -> {0, 1}]]
  BY DEF DeviceType
<1>4. QED
  BY <1>1, <1>2, <1>3

\* What was added in part is open; what is done is not.
LEMMA OpenFacts ==
    ASSUME DeviceType, CurInv, OpenInv
    PROVE  /\ \A p \in Open : p \in Path
           /\ \A q \in Path : ~Clean(q) => q \in Done \/ q = cur
           /\ \A p \in Range(pending) : p \in Path /\ Clean(p) /\ p \notin Done /\ p # cur
<1>1. \A p \in Range(pending) : p \in Path
  BY DEF DeviceType, Range
<1>2. \A p \in Open : p \in Path
  BY <1>1 DEF Open, DeviceType, Name
<1>3. ASSUME NEW q \in Path, ~Clean(q), q # cur PROVE q \in Done
  <2>1. grad["dq"][q] = grad["dk"][q] /\ grad["dk"][q] = grad["dv"][q]
    BY <1>3 DEF OpenInv
  <2>2. grad["dv"][q] # 0
    BY <1>3, <2>1 DEF Clean, Gradient
  <2>3. QED
    BY <2>2 DEF Done
<1>4. ASSUME NEW p \in Range(pending) PROVE Clean(p) /\ p \notin Done /\ p # cur
  <2>1. p \in Path /\ p \in Open /\ Related(p, p)
    BY <1>1, Descent DEF Open, Related
  <2>2. p # cur
    BY <1>4 DEF CurInv
  <2>3. Clean(p)
    BY <2>1, <2>2 DEF OpenInv
  <2>4. QED
    BY <2>2, <2>3 DEF Clean, Done, Gradient
<1>5. QED
  BY <1>1, <1>2, <1>3, <1>4

\* The same sets under the same shard are cuts.
LEMMA CutNext ==
    ASSUME UNCHANGED shard, NEW A, Cut(A), (Open \cup Done)' = A
    PROVE  Cut(Open \cup Done)'
  BY DEF Cut

\* Nothing but the control point moves.
LEMMA DeviceKeeps ==
    ASSUME CallInv, DeviceType, CurInv, OpenInv, UNCHANGED <<shard, host_resident>>,
           UNCHANGED <<pending, cur, grad>>
    PROVE  OpenInv'
<1>1. Open' = Open /\ Done' = Done /\ UNCHANGED <<cur, grad>>
  BY DEF Open, Done
<1>2. Cut(Open \cup Done)
  BY DEF OpenInv
<1>3. Cut(Open \cup Done)'
  <2>1. PICK A : A = Open \cup Done
    OBVIOUS
  <2>2. QED
    BY <1>1, <1>2, <2>1, CutNext
<1>4. \A p : Clean(p)' <=> Clean(p)
  BY DEF Clean
<1>5. QED
  BY <1>1, <1>3, <1>4 DEF OpenInv

\* The next subproblem is taken from the queue: it was open there.
LEMMA PopStep ==
    ASSUME CallInv, DeviceType, CurInv, OpenInv, UNCHANGED shard, Pop
    PROVE  DeviceType' /\ CurInv' /\ OpenInv' /\ Open' = Open
<1>1. /\ pc = "loop" /\ pending # <<>> /\ pc' = "run" /\ cur' = Head(pending)
      /\ pending' = Tail(pending) /\ UNCHANGED <<host_resident, shard, exc, retries, dirty, grad, outcome>>
  BY DEF Pop, callVars
<1>2. /\ Tail(pending) \in Seq(Path) /\ Range(pending) = {Head(pending)} \cup Range(Tail(pending))
      /\ Distinct(Tail(pending)) /\ Head(pending) \notin Range(Tail(pending))
  BY <1>1, TailIs DEF DeviceType
<1>3. cur = None /\ Head(pending) \in Path /\ Clean(Head(pending))
  BY <1>1, <1>2, OpenFacts DEF CurInv
<1>4. \A p : Clean(p)' <=> Clean(p)
  BY <1>1 DEF Clean
<1>5. Open' = Open /\ Done' = Done
  BY <1>1, <1>2, <1>3, BackwardCallAssumption DEF Open, Done
<1>6. DeviceType'
  <2>1. Budget' = Budget
    BY <1>1 DEF Budget
  <2>2. ~host_resident
    BY <1>1 DEF DeviceType
  <2>3. IsFiniteSet(Done')
    BY <1>5 DEF DeviceType
  <2>4. QED
    BY <1>1, <1>2, <1>3, <2>1, <2>2, <2>3 DEF DeviceType, Name
<1>7. CurInv'
  <2>1. Clean(cur)'
    BY <1>1, <1>3 DEF Clean
  <2>2. retries <= Budget /\ Budget' = Budget /\ outcome' # "returned"
    BY <1>1 DEF CurInv, CallInv, Budget
  <2>3. QED
    BY <1>1, <1>2, <1>3, <2>1, <2>2 DEF CurInv
<1>8. OpenInv'
  <2>1. Cut(Open \cup Done)'
    <3>1. PICK A : A = Open \cup Done
      OBVIOUS
    <3>2. QED
      BY <1>1, <1>5, <3>1, CutNext DEF OpenInv
  <2>2. \A q \in Path : q # cur
    BY <1>3, BackwardCallAssumption
  <2>3. QED
    BY <1>1, <1>4, <1>5, <2>1, <2>2 DEF OpenInv
<1>9. QED
  BY <1>5, <1>6, <1>7, <1>8

\* Failures and ends: the queue and the gradients stay.
LEMMA FailStep ==
    ASSUME CallInv, DeviceType, CurInv, OpenInv, UNCHANGED shard, ~host_resident,
           Compute \/ ComputeFails \/ AddFails \/ HandleError \/ DeviceGiveUp \/ DeviceReturn
    PROVE  DeviceType' /\ CurInv' /\ OpenInv'
<1>1. UNCHANGED <<shard, host_resident, pending, cur, grad>>
  BY DEF Compute, ComputeFails, AddFails, HandleError, DeviceGiveUp, DeviceReturn, callVars
<1>2. OpenInv'
  BY <1>1, DeviceKeeps
<1>3. Budget' = Budget /\ Done' = Done /\ \A p : Clean(p)' <=> Clean(p)
  BY <1>1 DEF Budget, Done, Clean
<1>4. Clean(cur)' <=> Clean(cur)
  BY <1>1 DEF Clean
<1>5. Budget \in Nat
  BY BudgetType
<1>6. DeviceType'
  <2>1. retries' \in 0 .. Budget + 1
    BY <1>5 DEF DeviceType, CurInv, Compute, ComputeFails, AddFails, HandleError, DeviceGiveUp,
       DeviceReturn
  <2>2. dirty' \in BOOLEAN /\ (dirty' => pc' \in {"except", "end"})
    <3>1. CASE AddFails
      <4>1. pc' = "except" /\ dirty' \in BOOLEAN
        BY <3>1 DEF AddFails, DirtyAfter, DeviceType
      <4>2. QED
        BY <4>1
    <3>2. CASE Compute \/ ComputeFails
      BY <3>2 DEF DeviceType, Compute, ComputeFails
    <3>3. CASE HandleError \/ DeviceGiveUp \/ DeviceReturn
      BY <3>3 DEF DeviceType, HandleError, DeviceGiveUp, DeviceReturn
    <3>4. QED
      BY <3>1, <3>2, <3>3
  <2>3. IsFiniteSet(Done')
    BY <1>3 DEF DeviceType
  <2>4. QED
    BY <1>1, <1>3, <2>1, <2>2, <2>3 DEF DeviceType
<1>7. CurInv'
  <2>1. CASE Compute
    BY <1>1, <1>3, <1>4, <2>1 DEF Compute, CurInv, CallInv, Clean, Gradient
  <2>2. CASE ComputeFails
    BY <1>1, <1>3, <1>4, <2>2 DEF ComputeFails, CurInv, CallInv
  <2>3. CASE AddFails
    BY <1>1, <1>3, <1>4, <2>3 DEF AddFails, DirtyAfter, Gradient, CurInv, CallInv
  <2>4. CASE HandleError \/ DeviceGiveUp
    BY <1>1, <1>3, <1>4, <2>4 DEF HandleError, DeviceGiveUp, CurInv, CallInv
  <2>5. CASE DeviceReturn
    BY <1>1, <1>3, <1>4, <2>5 DEF DeviceReturn, CurInv, CallInv
  <2>6. QED
    BY <2>1, <2>2, <2>3, <2>4, <2>5
<1>8. QED
  BY <1>2, <1>6, <1>7

\* One of the first two additions: the subproblem stays the current one.
LEMMA AddStep ==
    ASSUME CallInv, DeviceType, CurInv, OpenInv, UNCHANGED shard, AddDq \/ AddDk
    PROVE  DeviceType' /\ CurInv' /\ OpenInv'
<1>1. /\ UNCHANGED <<host_resident, shard, pending, cur, exc, retries, dirty, outcome>>
      /\ pc \in {"dq", "dk"} /\ pc' \in {"dk", "dv"} /\ cur \in Path /\ cur \notin Range(pending)
  BY DEF AddDq, AddDk, callVars, CurInv
<1>2. PICK g \in {"dq", "dk"} : Add(g) /\ grad[g][cur] = 0 /\ pc = g
  <2>1. CASE AddDq
    BY <2>1 DEF AddDq, CurInv, Clean, Gradient
  <2>2. CASE AddDk
    BY <2>2 DEF AddDk, CurInv
  <2>3. QED
    BY <2>1, <2>2
<1>3. /\ grad' \in [Gradient -> [Path -> {0, 1}]] /\ grad'[g][cur] = 1
      /\ \A h \in Gradient : \A q \in Path : h # g \/ q # cur => grad'[h][q] = grad[h][q]
  <2>1. g \in Gradient
    BY DEF Gradient
  <2>2. QED
    BY <1>1, <1>2, <2>1, AddIs
<1>4. grad["dv"][cur] = 0 /\ \A q \in Path : grad'["dv"][q] = grad["dv"][q]
  BY <1>1, <1>2, <1>3 DEF CurInv, Clean, Gradient
<1>5. Done' = Done /\ Open' = Open /\ Budget' = Budget
  BY <1>1, <1>4 DEF Done, Open, Budget
<1>6. \A q \in Path : q # cur => (Clean(q)' <=> Clean(q))
  BY <1>3 DEF Clean
<1>7. DeviceType'
  <2>1. ~dirty /\ ~host_resident
    BY <1>1 DEF DeviceType, CallInv
  <2>2. IsFiniteSet(Done')
    BY <1>5 DEF DeviceType
  <2>3. QED
    BY <1>1, <1>3, <1>5, <2>1, <2>2 DEF DeviceType
<1>8. CurInv'
  <2>1. retries <= Budget /\ outcome # "returned"
    BY <1>1 DEF CurInv, CallInv
  <2>2. CASE AddDq
    <3>1. g = "dq" /\ pc' = "dk"
      BY <1>2, <2>2 DEF AddDq
    <3>2. grad["dk"][cur] = 0
      BY <2>2 DEF AddDq, CurInv, Clean, Gradient
    <3>3. grad'["dq"][cur] = 1 /\ grad'["dk"][cur] = 0 /\ grad'["dv"][cur] = 0
      BY <1>1, <1>3, <1>4, <3>1, <3>2 DEF Gradient
    <3>4. QED
      BY <1>1, <1>5, <2>1, <3>1, <3>3 DEF CurInv
  <2>3. CASE AddDk
    <3>1. g = "dk" /\ pc' = "dv"
      BY <1>2, <2>3 DEF AddDk
    <3>2. grad["dq"][cur] = 1
      BY <2>3 DEF AddDk, CurInv
    <3>3. grad'["dq"][cur] = 1 /\ grad'["dk"][cur] = 1 /\ grad'["dv"][cur] = 0
      BY <1>1, <1>3, <1>4, <3>1, <3>2 DEF Gradient
    <3>4. QED
      BY <1>1, <1>5, <2>1, <3>1, <3>3 DEF CurInv
  <2>4. QED
    BY <2>2, <2>3
<1>9. OpenInv'
  <2>1. Cut(Open \cup Done)'
    <3>1. PICK A : A = Open \cup Done
      OBVIOUS
    <3>2. QED
      BY <1>1, <1>5, <3>1, CutNext DEF OpenInv
  <2>2. \A p, q \in Open' : Related(p, q) => p = q
    BY <1>5 DEF OpenInv
  <2>3. \A p \in Open' : \A q \in Path : Related(p, q) /\ q # cur => Clean(q)'
    BY <1>5, <1>6 DEF OpenInv
  <2>4. \A q \in Path : q # cur => grad'["dq"][q] = grad'["dk"][q] /\ grad'["dk"][q] = grad'["dv"][q]
    BY <1>3 DEF OpenInv, Gradient
  <2>5. QED
    BY <1>1, <2>1, <2>2, <2>3, <2>4 DEF OpenInv
<1>10. QED
  BY <1>7, <1>8, <1>9

\* The last addition: the subproblem is done.
LEMMA LastAddStep ==
    ASSUME CallInv, DeviceType, CurInv, OpenInv, UNCHANGED shard, AddDv
    PROVE  /\ DeviceType' /\ CurInv' /\ OpenInv'
           /\ Open' = Open \ {cur} /\ cur \in Open
           /\ cur \in Path /\ grad["dv"] \in [Path -> {0, 1}] /\ grad["dv"][cur] = 0
           /\ grad'["dv"] = [grad["dv"] EXCEPT ![cur] = 1]
<1>1. /\ UNCHANGED <<host_resident, shard, pending, exc, retries, dirty, outcome>>
      /\ pc = "dv" /\ pc' = "loop" /\ cur' = None /\ cur \in Path /\ cur \notin Range(pending)
  BY DEF AddDv, callVars, CurInv
<1>2. Add("dv") /\ grad["dv"][cur] = 0 /\ grad["dq"][cur] = 1 /\ grad["dk"][cur] = 1
  BY DEF AddDv, CurInv
<1>3. /\ grad' \in [Gradient -> [Path -> {0, 1}]] /\ grad'["dv"][cur] = 1
      /\ \A h \in Gradient : \A q \in Path : h # "dv" \/ q # cur => grad'[h][q] = grad[h][q]
  <2>1. "dv" \in Gradient
    BY DEF Gradient
  <2>2. QED
    BY <1>1, <1>2, <2>1, AddIs
<1>4. grad'["dq"][cur] = 1 /\ grad'["dk"][cur] = 1
  BY <1>1, <1>2, <1>3 DEF Gradient
<1>5. Done' = Done \cup {cur}
  BY <1>1, <1>3 DEF Done, Gradient
<1>6. Open = Range(pending) \cup {cur} /\ Open' = Range(pending) /\ Budget' = Budget
  BY <1>1, BackwardCallAssumption DEF Open, Budget
<1>7. \A q \in Path : q # cur => (Clean(q)' <=> Clean(q))
  BY <1>3 DEF Clean
<1>8. DeviceType'
  <2>1. ~dirty /\ ~host_resident
    BY <1>1 DEF DeviceType, CallInv
  <2>2. IsFiniteSet(Done')
    BY <1>5, FS_AddElement DEF DeviceType
  <2>3. QED
    BY <1>1, <1>3, <1>6, <2>1, <2>2 DEF DeviceType, Name
<1>9. CurInv'
  <2>1. retries <= Budget /\ outcome # "returned" /\ None \notin Range(pending)
    BY <1>1, OpenFacts, BackwardCallAssumption DEF CurInv, CallInv
  <2>2. QED
    BY <1>1, <1>6, <2>1 DEF CurInv
<1>10. OpenInv'
  <2>1. Cut(Open \cup Done)'
    <3>1. PICK A : A = Open \cup Done
      OBVIOUS
    <3>2. (Open \cup Done)' = A
      BY <1>5, <1>6, <3>1
    <3>3. QED
      BY <1>1, <3>1, <3>2, CutNext DEF OpenInv
  <2>2. \A p, q \in Open' : Related(p, q) => p = q
    BY <1>6 DEF OpenInv
  <2>3. \A p \in Open' : \A q \in Path : Related(p, q) => Clean(q)'
    <3> SUFFICES ASSUME NEW p \in Range(pending), NEW q \in Path, Related(p, q) PROVE Clean(q)'
      BY <1>6
    <3>1. q # cur
      BY <1>1, <1>6 DEF OpenInv
    <3>2. Clean(q)
      BY <1>6, <3>1 DEF OpenInv
    <3>3. QED
      BY <1>7, <3>1, <3>2
  <2>4. \A q \in Path : grad'["dq"][q] = grad'["dk"][q] /\ grad'["dk"][q] = grad'["dv"][q]
    BY <1>3, <1>4 DEF OpenInv, Gradient
  <2>5. QED
    BY <2>1, <2>2, <2>3, <2>4 DEF OpenInv
<1>11. grad'["dv"] = [grad["dv"] EXCEPT ![cur] = 1] /\ grad["dv"] \in [Path -> {0, 1}]
  <2>1. PICK p \in Path : p = cur
    BY <1>1
  <2>2. grad' = [grad EXCEPT !["dv"][p] = @ + 1] /\ grad \in [Gradient -> [Path -> {0, 1}]]
    BY <1>2, <2>1 DEF Add, DeviceType
  <2>3. QED
    BY <1>2, <2>1, <2>2 DEF Gradient
<1>12. QED
  BY <1>1, <1>2, <1>6, <1>8, <1>9, <1>10, <1>11

\* The current subproblem is replaced by its children before it contributed: none
\* of them is related to anything that is open or was added.
LEMMA RefineStep ==
    ASSUME CallInv, DeviceType, CurInv, OpenInv, UNCHANGED shard, ~host_resident, RefineTask
    PROVE  /\ DeviceType' /\ CurInv' /\ OpenInv'
           /\ cur \in Open /\ cur \in Path /\ Len(cur) < Deepest
           /\ Open' = (Open \ {cur}) \cup Range(Kids(cur))
<1>1. /\ UNCHANGED <<host_resident, shard, dirty, grad, outcome>> /\ retries' = retries + 1
      /\ pc = "except" /\ pc' = "loop" /\ cur' = None /\ pending' = Kids(cur) \o pending
      /\ exc = "oom" /\ ~dirty /\ retries < Budget /\ exc' = "none"
  BY DEF RefineTask, Recoverable, CanRefine, Replaced, callVars
<1>2. PICK c \in Path : c = cur
  BY <1>1 DEF CurInv
<1>3. c \notin Range(pending) /\ Clean(c) /\ Len(c) < Deepest
  <2>1. Len(c) < MaxDepth
    BY <1>2 DEF RefineTask, CanRefine
  <2>2. c \in Seq(Chunk)
    BY Descent
  <2>3. Len(c) < Deepest
    BY <2>1, <2>2, DeepestType, MaxDepthType
  <2>4. QED
    BY <1>1, <1>2, <2>3 DEF CurInv
<1> DEFINE kids == Range(Kids(c))
<1>4. /\ Kids(c) \in Seq(Path) /\ Distinct(Kids(c))
      /\ \A k \in kids : /\ k \in Path /\ Len(k) = Len(c) + 1
                         /\ Ancestors(k) = Ancestors(c) \cup {k}
                         /\ \A r \in Path : k \in Ancestors(r) => c \in Ancestors(r)
  BY <1>3, KidFacts
<1> HIDE DEF kids
<1>5. Open = Range(pending) \cup {c} /\ c \in Open /\ \A p \in Open : p \in Path
  BY <1>2, OpenFacts, BackwardCallAssumption DEF Open
<1>6. \A k \in kids : k # c /\ ~(k \in Ancestors(c)) /\ c \in Ancestors(k) /\ Related(c, k)
  <2> TAKE k \in kids
  <2>1. c \in Seq(Chunk) /\ Len(k) = Len(c) + 1
    BY <1>4, Descent
  <2>2. ~(Len(k) <= Len(c)) /\ k # c
    BY <2>1
  <2>3. QED
    BY <1>4, <2>2, Descent DEF Related
<1>7. ASSUME NEW k \in kids, NEW q \in Path, Related(k, q)
      PROVE  Clean(q) /\ (q \in Open => q = c) /\ (q \in kids => q = k)
  <2>1. q = k \/ Related(c, q)
    BY <1>4, <1>7 DEF Related
  <2>3. Clean(q)
    <3>1. CASE q = c
      BY <1>3, <3>1
    <3>2. CASE q # c
      BY <1>2, <1>5, <1>6, <2>1, <3>2 DEF OpenInv
    <3>3. QED
      BY <3>1, <3>2
  <2>4. q \in Open => q = c
    BY <1>5, <1>6, <2>1 DEF OpenInv
  <2>5. q \in kids => q = k
    <3> SUFFICES ASSUME q \in kids, q # k PROVE FALSE
      OBVIOUS
    <3>1. q \in Ancestors(c) \/ k \in Ancestors(c)
      BY <1>4, <1>7 DEF Related
    <3>2. QED
      BY <1>6, <3>1
  <2>6. QED
    BY <2>3, <2>4, <2>5
<1>8. kids \cap Range(pending) = {}
  <2>1. \A k \in kids : Related(k, k) /\ k \in Path
    BY <1>4, Descent DEF Related
  <2>2. QED
    BY <1>5, <1>6, <1>7, <2>1
<1>9. /\ pending' \in Seq(Path) /\ Distinct(pending')
      /\ Range(pending') = kids \cup Range(pending)
  BY <1>1, <1>2, <1>4, <1>8, ConcatDistinct DEF DeviceType, kids
<1>10. Open' = kids \cup Range(pending) /\ Done' = Done /\ Budget' = Budget
  BY <1>1, <1>9 DEF Open, Done, Budget
<1>11. Open' = (Open \ {c}) \cup kids
  BY <1>3, <1>5, <1>10
<1>12. \A q : Clean(q)' <=> Clean(q)
  BY <1>1 DEF Clean
<1>13. DeviceType'
  <2>1. IsFiniteSet(Done') /\ ~host_resident
    BY <1>10, <1>1 DEF DeviceType, RefineTask
  <2>2. Budget \in Nat
    BY BudgetType
  <2>3. QED
    BY <1>1, <1>9, <1>10, <2>1, <2>2 DEF DeviceType, Name
<1>14. CurInv'
  <2>1. retries' <= Budget /\ outcome' # "returned"
    BY <1>1, BudgetType DEF CallInv, DeviceType
  <2>2. None \notin Range(pending')
    BY <1>4, <1>9, OpenFacts, BackwardCallAssumption
  <2>3. QED
    BY <1>1, <1>10, <2>1, <2>2 DEF CurInv
<1>15. OpenInv'
  <2>1. Cut(Open \cup Done)'
    <3>1. PICK A : A = Open \cup Done
      OBVIOUS
    <3> DEFINE B == {c}
               D == (A \ B) \cup UNION {Range(Kids(b)) : b \in B}
    <3>2. Cut(A) /\ B \subseteq A /\ \A b \in B : Len(b) < Deepest
      BY <1>3, <1>5, <3>1 DEF OpenInv
    <3>3. Cut(D)
      <4> HIDE DEF B
      <4>1. QED
        BY <3>2, CutRefine
    <3>4. c \notin Done
      BY <1>3 DEF Clean, Done, Gradient
    <3>5. (Open \cup Done)' = D
      BY <1>3, <1>5, <1>10, <3>1, <3>4 DEF kids
    <3> HIDE DEF D
    <3>6. QED
      BY <1>1, <3>3, <3>5, CutNext
  <2>2. \A p, q \in Open' : Related(p, q) => p = q
    <3> SUFFICES ASSUME NEW p \in kids \cup Range(pending), NEW q \in kids \cup Range(pending), Related(p, q)
                 PROVE  p = q
      BY <1>10
    <3>1. p \in Path /\ q \in Path /\ Related(q, p)
      BY <1>4, <1>5 DEF Related
    <3>2. CASE p \in Range(pending) /\ q \in Range(pending)
      BY <1>5, <3>2 DEF OpenInv
    <3>3. CASE p \in kids
      BY <1>3, <1>5, <1>7, <3>1, <3>3
    <3>4. CASE q \in kids
      BY <1>3, <1>5, <1>7, <3>1, <3>4
    <3>5. QED
      BY <3>2, <3>3, <3>4
  <2>3. \A p \in Open' : \A q \in Path : Related(p, q) => Clean(q)'
    <3> SUFFICES ASSUME NEW p \in kids \cup Range(pending), NEW q \in Path, Related(p, q)
                 PROVE  Clean(q)
      BY <1>10, <1>12
    <3>1. CASE p \in kids
      BY <1>7, <3>1
    <3>2. CASE p \in Range(pending)
      BY <1>2, <1>3, <1>5, <3>2 DEF OpenInv
    <3>3. QED
      BY <3>1, <3>2
  <2>4. \A q \in Path : grad'["dq"][q] = grad'["dk"][q] /\ grad'["dk"][q] = grad'["dv"][q]
    <3> SUFFICES ASSUME NEW q \in Path
                 PROVE  grad["dq"][q] = grad["dk"][q] /\ grad["dk"][q] = grad["dv"][q]
      BY <1>1
    <3>1. CASE q = c
      BY <1>3, <3>1 DEF Clean, Gradient
    <3>2. CASE q # c
      BY <1>2, <3>2 DEF OpenInv
    <3>3. QED
      BY <3>1, <3>2
  <2>5. QED
    BY <2>1, <2>2, <2>3, <2>4 DEF OpenInv
<1>16. QED
  BY <1>2, <1>3, <1>5, <1>11, <1>13, <1>14, <1>15 DEF kids

\* A step of the device path.
LEMMA DeviceStepInv ==
    ASSUME CallInv, DeviceType, DeviceInv, HostType, HostInv, [Next]_vars
    PROVE  DeviceType' /\ DeviceInv'
<1>1. CASE UNCHANGED vars
  <2>1. Open' = Open /\ Done' = Done /\ Budget' = Budget /\ UNCHANGED <<deviceVars, pc, host_resident>>
    BY <1>1 DEF vars, deviceVars, callVars, Open, Done, Budget
  <2>2. DeviceType'
    BY <2>1 DEF DeviceType, deviceVars, Clean
  <2>3. DeviceInv'
    <3>1. CASE host_resident
      BY <2>1, <3>1 DEF DeviceInv
    <3>2. CASE ~host_resident
      <4>1. CurInv /\ OpenInv /\ UNCHANGED <<shard, outcome, exc>>
        BY <1>1, <3>2 DEF DeviceInv, vars, callVars
      <4>2. OpenInv'
        BY <2>1, <4>1, DeviceKeeps DEF deviceVars
      <4>3. CurInv'
        BY <2>1, <4>1 DEF CurInv, deviceVars, Clean
      <4>4. QED
        BY <4>2, <4>3 DEF DeviceInv
    <3>3. QED
      BY <3>1, <3>2
  <2>4. QED
    BY <2>2, <2>3
<1>2. CASE host_resident /\ UNCHANGED deviceVars
  <2>1. host_resident' /\ UNCHANGED shard
    <3>1. CASE UNCHANGED vars
      BY <1>2, <3>1 DEF vars, callVars
    <3>2. CASE \/ StartAttempt \/ FlushSlot \/ ReuseSlot \/ Gather \/ Output \/ HostReturn
               \/ ScatterRaises \/ HostGiveUp \/ Escalate \/ IssueFails \/ CallerDone
      BY <1>2, <3>2 DEF StartAttempt, FlushSlot, Flush, ReuseSlot, Gather, Output, HostReturn,
         ScatterRaises, HostGiveUp, Escalate, IssueFails, Raise, CallerDone, argVars, callVars
    <3>3. CASE \/ \E s \in Slot : DrainSlot(s) \/ CollectScatter(s)
               \/ \E s \in Slot : Load(s) \/ Kernel(s) \/ DeviceAdd(s) \/ D2h(s)
               \/ \E d \in Depth : Scatter(d) \/ ScatterFails(d)
      BY <1>2, <3>3 DEF DrainSlot, CollectScatter, Flush, Load, Kernel, DeviceAdd, D2h, Exec,
         Scatter, ScatterFails, Take, argVars, callVars
    <3>4. QED
      BY <1>2, <3>1, <3>2, <3>3, NextCases
  <2>2. Done' = Done /\ Budget' = Budget
    BY <1>2, <2>1 DEF deviceVars, Done, Budget
  <2>3. DeviceType'
    BY <1>2, <2>1, <2>2 DEF DeviceType, deviceVars, Clean
  <2>4. QED
    BY <2>1, <2>3 DEF DeviceInv
<1>3. CASE ~host_resident /\ UNCHANGED <<callVars, hostVars>> /\ ~UNCHANGED vars
  <2>1. CurInv /\ OpenInv /\ UNCHANGED shard /\ ~host_resident'
    BY <1>3 DEF DeviceInv, callVars
  <2>2. \/ Pop \/ Compute \/ AddDq \/ AddDk \/ AddDv \/ HandleError \/ DeviceGiveUp
        \/ RefineTask \/ DeviceReturn \/ ComputeFails \/ AddFails
    BY <1>3, NextCases
  <2>3. DeviceType' /\ CurInv' /\ OpenInv'
    <3>1. CASE Pop
      BY <2>1, <3>1, PopStep
    <3>2. CASE AddDq \/ AddDk
      BY <2>1, <3>2, AddStep
    <3>3. CASE AddDv
      BY <2>1, <3>3, LastAddStep
    <3>4. CASE RefineTask
      BY <1>3, <2>1, <3>4, RefineStep
    <3>5. CASE \/ Compute \/ HandleError \/ DeviceGiveUp
               \/ DeviceReturn \/ ComputeFails \/ AddFails
      BY <1>3, <2>1, <3>5, FailStep
    <3>6. QED
      BY <2>2, <3>1, <3>2, <3>3, <3>4, <3>5
  <2>4. QED
    BY <2>3 DEF DeviceInv
<1>4. QED
  BY <1>1, <1>2, <1>3, NextCases

-----------------------------------------------------------------------------
\* Steps of the host path: the types.

\* A subproblem and a slot make a job,
LEMMA JobFields ==
    ASSUME NEW p \in Path, NEW s \in Slot
    PROVE  [task |-> p, slot |-> s] \in Job
  BY DEF Job

\* and a job is made of these.
LEMMA JobFieldsOf ==
    ASSUME NEW j \in Job
    PROVE  j.task \in Path /\ j.slot \in Slot
  BY DEF Job

\* One more addition, to the accumulators of an attempt.
Bumped(a, d, x) == [a EXCEPT ![d][x] = @ + 1]

\* One more addition at depth d, and nowhere else.
LEMMA BumpType ==
    ASSUME NEW a \in [Depth -> [Path -> Nat]], NEW d \in Depth, NEW x
    PROVE  /\ Bumped(a, d, x) \in [Depth -> [Path -> Nat]]
           /\ \A e \in Depth : \A p \in Path :
                 Bumped(a, d, x)[e][p] = IF e = d /\ p = x THEN a[e][p] + 1 ELSE a[e][p]
<1> DEFINE row == [a[d] EXCEPT ![x] = @ + 1]
<1>1. row \in [Path -> Nat] /\ \A p \in Path : row[p] = IF p = x THEN a[d][p] + 1 ELSE a[d][p]
  <2>1. a[d] \in [Path -> Nat]
    OBVIOUS
  <2>2. CASE x \in Path
    BY <2>1, <2>2
  <2>3. CASE x \notin Path
    <3>1. row = a[d]
      BY <2>1, <2>3
    <3>2. QED
      BY <2>1, <2>3, <3>1
  <2>4. QED
    BY <2>2, <2>3
<1>2. Bumped(a, d, x) = [a EXCEPT ![d] = row]
  BY DEF Bumped
<1> HIDE DEF row
<1>3. QED
  BY <1>1, <1>2

\* _scatter, as an addition of what is in the staging buffer.
LEMMA ScatteredIs ==
    ASSUME HostType, NEW d \in Depth, NEW s
    PROVE  Scattered(d, s) = IF accumulate_on_gpu THEN added ELSE Bumped(added, d, stage_out[d][s])
<1>1. CASE accumulate_on_gpu
  BY <1>1 DEF Scattered
<1>2. CASE ~accumulate_on_gpu
  BY <1>2 DEF Scattered, Accumulators, Bumped
<1>3. QED
  BY <1>1, <1>2

\* A slot is flushed: what was copied back is added, or its scatter handed over.
LEMMA FlushType ==
    ASSUME HostType, NEW s \in Slot, Flush(s)
    PROVE  HostType'
<1>1. /\ slot_state[s] \in Path /\ depth \in Depth
      /\ UNCHANGED <<accumulate_on_gpu, scatter_async, max_parallel, host_resident, depth, tasks, i,
                     caller, queue, stage_in, dev, product, stage_out>>
      /\ slot_state' = [slot_state EXCEPT ![s] = None]
  BY DEF Flush, HostType, Name, argVars, callVars, loopVars, gpuVars
<1>2. PICK p \in Path : p = slot_state[s]
  BY <1>1
<1>3. slot_state' \in [Slot -> Name]
  BY <1>1 DEF HostType, Name
<1>4. slot_scatter' \in [Slot -> Name] /\ future' \in [Path -> FutureState]
  BY <1>2 DEF Flush, HostType, Name, FutureState
<1>5. jobs' \in [Depth -> Seq(Job)]
  <2>1. CASE Async
    <3>1. jobs' = [jobs EXCEPT ![depth] = Append(@, [task |-> p, slot |-> s])]
      BY <1>2, <2>1 DEF Flush
    <3>2. [task |-> p, slot |-> s] \in Job
      BY JobFields
    <3>3. Append(jobs[depth], [task |-> p, slot |-> s]) \in Seq(Job)
      BY <1>1, <3>2, AppendIs DEF HostType
    <3>4. QED
      BY <3>1, <3>3 DEF HostType
  <2>2. CASE ~Async
    BY <2>2 DEF Flush, HostType
  <2>3. QED
    BY <2>1, <2>2
<1>6. added' \in [Depth -> [Path -> Nat]]
  <2>1. added \in [Depth -> [Path -> Nat]]
    BY DEF HostType
  <2>2. \A x : Bumped(added, depth, x) \in [Depth -> [Path -> Nat]]
    BY <1>1, <2>1, BumpType
  <2>3. Scattered(depth, s) \in [Depth -> [Path -> Nat]]
    BY <1>1, <2>1, <2>2, ScatteredIs
  <2>4. QED
    BY <2>1, <2>3 DEF Flush
<1>7. QED
  BY <1>1, <1>3, <1>4, <1>5, <1>6 DEF HostType

\* A worker takes a scatter.
LEMMA TakeType ==
    ASSUME HostType, NEW d \in Depth, NEW state \in FutureState, Take(d, state),
           added' \in {added, Scattered(d, Head(jobs[d]).slot)}
    PROVE  HostType'
<1>1. UNCHANGED <<accumulate_on_gpu, scatter_async, max_parallel, host_resident, depth, tasks, i,
                  caller, queue, stage_in, dev, product, stage_out, slot_state, slot_scatter>>
  BY DEF Take, argVars, callVars, loopVars, gpuVars, slotVars
<1>2. jobs[d] \in Seq(Job) /\ jobs[d] # <<>> /\ Head(jobs[d]) \in Job /\ Tail(jobs[d]) \in Seq(Job)
  BY TailIs DEF HostType, Take
<1>3. jobs' \in [Depth -> Seq(Job)]
  BY <1>2 DEF HostType, Take
<1>4. future' \in [Path -> FutureState]
  BY DEF HostType, Take
<1>5. added' \in [Depth -> [Path -> Nat]]
  <2>1. added \in [Depth -> [Path -> Nat]]
    BY DEF HostType
  <2>2. \A x : Bumped(added, d, x) \in [Depth -> [Path -> Nat]]
    BY <2>1, BumpType
  <2>3. Scattered(d, Head(jobs[d]).slot) \in [Depth -> [Path -> Nat]]
    BY <2>1, <2>2, ScatteredIs
  <2>4. QED
    BY <2>1, <2>3
<1>6. QED
  BY <1>1, <1>3, <1>4, <1>5 DEF HostType

\* The next attempt.
LEMMA EscalateFacts ==
    ASSUME CallInv, HostType, host_resident, Escalate
    PROVE  /\ depth' = depth + 1 /\ depth + 1 \in Depth /\ depth < Deepest
           /\ tasks' = Mine(Tasks[depth + 1])
<1>1. depth' = depth + 1 /\ tasks' = Mine(Tasks[depth + 1]) /\ depth < MaxDepth
  BY DEF Escalate, Deeper, TasksAt
<1>2. depth \in Int /\ Itr <= depth /\ Itr \in Int /\ MaxDepth \in Int /\ Deepest \in Int /\ MaxDepth <= Deepest
  BY DeepestType, MaxDepthType DEF HostType, Depth
<1>3. depth + 1 \in Depth /\ depth < Deepest
  BY <1>1, <1>2 DEF Depth
<1>4. QED
  BY <1>1, <1>3

\* Going one level deeper keeps the types of the host path.
LEMMA EscalateType ==
    ASSUME CallInv, HostType, host_resident, Escalate
    PROVE  HostType'
<1>1. /\ UNCHANGED <<accumulate_on_gpu, scatter_async, max_parallel, host_resident,
                     caller, queue, dev, product, stage_out, future, jobs, added>>
      /\ i' = 0
      /\ stage_in' = [s \in Slot |-> None] /\ slot_state' = [s \in Slot |-> None]
      /\ slot_scatter' = [s \in Slot |-> None]
  BY DEF Escalate, argVars, callVars, gpuVars, jobVars
<1>2. /\ depth' = depth + 1 /\ depth' \in Depth /\ tasks' \in Seq(Path) /\ Distinct(tasks')
      /\ \A k \in DOMAIN tasks' : Len(tasks'[k]) = depth'
  BY EscalateFacts, MineIs
<1>3. i' \in 0 .. Len(tasks')
  BY <1>1, <1>2
<1>4. stage_in' \in [Slot -> Name] /\ slot_state' \in [Slot -> Name] /\ slot_scatter' \in [Slot -> Name]
  BY <1>1 DEF Name
<1>5. QED
  BY <1>1, <1>2, <1>3, <1>4 DEF HostType

\* Which subproblem an iteration works on, in which slot.
LEMMA CurrentIs ==
    ASSUME host_resident, HostType, i < Len(tasks)
    PROVE  /\ S \in Slot /\ i + 1 \in DOMAIN tasks /\ Current = tasks[i + 1] /\ Current \in Path
           /\ Len(Current) = depth /\ Current \notin Issued /\ i \in Nat
<1>1. i \in Nat /\ tasks \in Seq(Path) /\ i + 1 \in DOMAIN tasks
  BY DEF HostType
<1>2. Current = tasks[i + 1] /\ Current \in Path /\ Len(Current) = depth
  BY <1>1 DEF Current, HostType
<1>3. Current \notin Issued
  <2> SUFFICES ASSUME NEW k \in 1 .. i, tasks[i + 1] = tasks[k] PROVE FALSE
    BY <1>2 DEF Issued
  <2>1. k \in DOMAIN tasks /\ k # i + 1
    BY <1>1
  <2>2. QED
    BY <1>1, <2>1 DEF HostType, Distinct
<1>4. QED
  BY <1>1, <1>2, <1>3, SlotType

\* Every action keeps the types of the host path.
LEMMA HostTypeStep == CallInv /\ HostType /\ HostInv /\ [Next]_vars => HostType'
<1> SUFFICES ASSUME CallInv, HostType, HostInv, [Next]_vars PROVE HostType'
  OBVIOUS
<1>1. CASE UNCHANGED <<callVars, hostVars>>
  BY <1>1 DEF callVars, hostVars, gpuVars, slotVars, jobVars, HostType
<1>2. CASE host_resident /\ UNCHANGED deviceVars
  <2> USE <1>2 DEF argVars, callVars, loopVars, gpuVars, slotVars, jobVars
  <2>1. CASE StartAttempt
    BY <2>1 DEF StartAttempt, HostType
  <2>2. CASE FlushSlot
    <3>1. S \in Slot /\ Flush(S)
      BY <2>2, CurrentIs DEF FlushSlot
    <3>2. PICK s \in Slot : Flush(s)
      BY <3>1
    <3>3. QED
      BY <3>2, FlushType
  <2>3. CASE ReuseSlot
    BY <2>3 DEF ReuseSlot, HostType, Name
  <2>4. CASE Gather
    <3>1. i < Len(tasks)
      BY <2>4 DEF Gather, HostInv, TasksInv
    <3>2. Current \in Path
      BY <3>1, CurrentIs
    <3>3. stage_in' \in [Slot -> Name] /\ DOMAIN queue' = Slot
      BY <2>4, <3>2 DEF Gather, HostType, Name
    <3>4. QED
      BY <2>4, <3>3 DEF Gather, HostType
  <2>5. CASE Output
    <3>1. i < Len(tasks)
      BY <2>5 DEF Output, HostInv, TasksInv
    <3>2. Current \in Path
      BY <3>1, CurrentIs
    <3>3. slot_state' \in [Slot -> Name] /\ DOMAIN queue' = Slot
      BY <2>5, <3>2 DEF Output, HostType, Name
    <3>4. i' \in 0 .. Len(tasks')
      BY <2>5, <3>1 DEF Output, HostType
    <3>5. QED
      BY <2>5, <3>3, <3>4 DEF Output, HostType
  <2>6. CASE HostReturn \/ HostGiveUp
    BY <2>6 DEF HostReturn, HostGiveUp, HostType
  <2>7. CASE ScatterRaises
    BY <2>7 DEF ScatterRaises, HostType
  <2>8. CASE Escalate
    BY <2>8, EscalateType
  <2>9. CASE IssueFails
    <3>1. DOMAIN queue' = Slot
      BY <2>9 DEF IssueFails, HostType
    <3>2. QED
      BY <2>9, <3>1 DEF IssueFails, Raise, HostType
  <2>10. CASE CallerDone
    <3>1. added' \in [Depth -> [Path -> Nat]]
      BY <2>10 DEF CallerDone, Accumulators, HostType
    <3>2. QED
      BY <2>10, <3>1 DEF CallerDone, HostType
  <2>11. ASSUME NEW s \in Slot, DrainSlot(s) PROVE HostType'
    BY <2>11, FlushType DEF DrainSlot
  <2>12. ASSUME NEW s \in Slot, CollectScatter(s) PROVE HostType'
    BY <2>12 DEF CollectScatter, HostType, Name
  <2>13. ASSUME NEW s \in Slot, Load(s) PROVE HostType'
    <3>1. dev' \in [Slot -> Name] /\ DOMAIN queue' = Slot
      BY <2>13 DEF Load, Exec, HostType
    <3>2. QED
      BY <2>13, <3>1 DEF Load, Exec, HostType
  <2>14. ASSUME NEW s \in Slot, Kernel(s) PROVE HostType'
    <3>1. product' \in [Slot -> Name] /\ DOMAIN queue' = Slot
      BY <2>14 DEF Kernel, Exec, HostType
    <3>2. QED
      BY <2>14, <3>1 DEF Kernel, Exec, HostType
  <2>15. ASSUME NEW s \in Slot, DeviceAdd(s) PROVE HostType'
    <3>1. added' = Bumped(added, depth, product[s]) /\ DOMAIN queue' = Slot
      BY <2>15 DEF DeviceAdd, Accumulators, Exec, HostType, Bumped
    <3>2. added \in [Depth -> [Path -> Nat]] /\ depth \in Depth
      BY DEF HostType
    <3>3. added' \in [Depth -> [Path -> Nat]]
      BY <3>1, <3>2, BumpType
    <3>4. QED
      BY <2>15, <3>1, <3>3 DEF DeviceAdd, Exec, HostType
  <2>16. ASSUME NEW s \in Slot, D2h(s) PROVE HostType'
    <3>1. stage_out' \in [Depth -> [Slot -> Name]] /\ DOMAIN queue' = Slot
      BY <2>16 DEF D2h, Exec, HostType
    <3>2. QED
      BY <2>16, <3>1 DEF D2h, Exec, HostType
  <2>17. ASSUME NEW d \in Depth, Scatter(d) PROVE HostType'
    BY <2>17, TakeType DEF Scatter, FutureState
  <2>18. ASSUME NEW d \in Depth, ScatterFails(d) PROVE HostType'
    BY <2>18, TakeType DEF ScatterFails, FutureState
  <2>19. CASE UNCHANGED vars
    BY <1>1, <2>19 DEF vars
  <2>20. QED
    BY <2>1, <2>2, <2>3, <2>4, <2>5, <2>6, <2>7, <2>8, <2>9, <2>10, <2>11, <2>12, <2>13, <2>14,
       <2>15, <2>16, <2>17, <2>18, <2>19, NextCases
<1>3. QED
  BY <1>1, <1>2, NextCases DEF vars

-----------------------------------------------------------------------------
\* Steps of the host path: what the slots and the streams hold.

\* The operations of a slot keep their form while the slot is left alone.
LEMMA LaneSame ==
    ASSUME NEW s \in Slot, UNCHANGED accumulate_on_gpu,
           queue'[s] = queue[s], stage_in'[s] = stage_in[s], dev'[s] = dev[s],
           product'[s] = product[s]
    PROVE  \A p : (Bare(s, p)' <=> Bare(s, p)) /\ (Full(s, p)' <=> Full(s, p))
  BY DEF Bare, Full, LoadOf, KernelOf, OutOf

\* What the queue of a slot looks like.
LEMMA LaneForms ==
    ASSUME NEW s, NEW p
    PROVE  /\ Bare(s, p) => queue[s] = <<>> \/ Head(queue[s]).op \in {"load", "kernel"}
           /\ Full(s, p) => queue[s] # <<>>
           /\ Full(s, p) /\ Head(queue[s]).op = "add" =>
                 accumulate_on_gpu /\ product[s] = p /\ Tail(queue[s]) = <<>>
           /\ Full(s, p) /\ Head(queue[s]).op = "d2h" =>
                 ~accumulate_on_gpu /\ product[s] = p /\ Tail(queue[s]) = <<>>
<1>1. /\ LoadOf(p).op = "load" /\ KernelOf(p).op = "kernel"
      /\ OutOf(p).op = IF accumulate_on_gpu THEN "add" ELSE "d2h"
  BY DEF LoadOf, KernelOf, OutOf
<1>2. Bare(s, p) => queue[s] = <<>> \/ Head(queue[s]).op \in {"load", "kernel"}
  BY <1>1, ShortLists DEF Bare
<1>3. Full(s, p) => queue[s] # <<>>
  BY ShortLists DEF Full
<1>4. Full(s, p) /\ Head(queue[s]).op \in {"add", "d2h"} => queue[s] = <<OutOf(p)>> /\ product[s] = p
  <2>1. CASE queue[s] = <<LoadOf(p), KernelOf(p), OutOf(p)>>
    BY <1>1, <2>1, ShortLists
  <2>2. CASE queue[s] = <<KernelOf(p), OutOf(p)>>
    BY <1>1, <2>2, ShortLists
  <2>3. QED
    BY <2>1, <2>2 DEF Full
<1>5. QED
  BY <1>1, <1>2, <1>3, <1>4, ShortLists

\* A copy in or a kernel moves the work of its slot on.
LEMMA LoadMoves ==
    ASSUME HostType, NEW s \in Slot, NEW p \in Path, Load(s) \/ Kernel(s)
    PROVE  (Bare(s, p) => Bare(s, p)') /\ (Full(s, p) => Full(s, p)')
<1>1. /\ LoadOf(p).op = "load" /\ KernelOf(p).op = "kernel"
      /\ OutOf(p).op = IF accumulate_on_gpu THEN "add" ELSE "d2h"
  BY DEF LoadOf, KernelOf, OutOf
<1>2. /\ LoadOf(p)' = LoadOf(p) /\ KernelOf(p)' = KernelOf(p) /\ OutOf(p)' = OutOf(p)
  BY DEF Load, Kernel, Exec, argVars, LoadOf, KernelOf, OutOf
<1>3. queue'[s] = Tail(queue[s])
  BY DEF Load, Kernel, Exec, HostType
<1>0. /\ Tail(<<LoadOf(p), KernelOf(p)>>) = <<KernelOf(p)>>
      /\ Tail(<<LoadOf(p), KernelOf(p), OutOf(p)>>) = <<KernelOf(p), OutOf(p)>>
      /\ Tail(<<KernelOf(p)>>) = <<>> /\ Tail(<<KernelOf(p), OutOf(p)>>) = <<OutOf(p)>>
  BY ShortLists
<1>4. CASE Load(s)
  <2>1. /\ Head(queue[s]).op = "load" /\ dev'[s] = stage_in[s]
    BY <1>4 DEF Load, Exec, HostType
  <2>2. Bare(s, p) => queue[s] = <<LoadOf(p), KernelOf(p)>> /\ stage_in[s] = p
    <3>1. queue[s] # <<>>
      BY <1>4 DEF Load, Exec
    <3>2. queue[s] # <<KernelOf(p)>>
      BY <1>1, <2>1, ShortLists
    <3>3. QED
      BY <3>1, <3>2 DEF Bare
  <2>3. Full(s, p) => queue[s] = <<LoadOf(p), KernelOf(p), OutOf(p)>> /\ stage_in[s] = p
    <3>1. queue[s] # <<KernelOf(p), OutOf(p)>> /\ queue[s] # <<OutOf(p)>>
      BY <1>1, <2>1, ShortLists
    <3>2. QED
      BY <3>1 DEF Full
  <2>4. Bare(s, p) => queue'[s] = <<KernelOf(p)>> /\ dev'[s] = p
    BY <1>0, <1>3, <2>1, <2>2
  <2>5. Full(s, p) => queue'[s] = <<KernelOf(p), OutOf(p)>> /\ dev'[s] = p
    BY <1>0, <1>3, <2>1, <2>3
  <2>6. QED
    BY <1>2, <2>4, <2>5 DEF Bare, Full
<1>5. CASE Kernel(s)
  <2>1. /\ Head(queue[s]).op = "kernel" /\ product'[s] = dev[s]
    BY <1>5 DEF Kernel, Exec, HostType
  <2>2. Bare(s, p) => queue[s] = <<KernelOf(p)>> /\ dev[s] = p
    <3>1. queue[s] # <<>>
      BY <1>5 DEF Kernel, Exec
    <3>2. queue[s] # <<LoadOf(p), KernelOf(p)>>
      BY <1>1, <2>1, ShortLists
    <3>3. QED
      BY <3>1, <3>2 DEF Bare
  <2>3. Full(s, p) => queue[s] = <<KernelOf(p), OutOf(p)>> /\ dev[s] = p
    <3>1. queue[s] # <<LoadOf(p), KernelOf(p), OutOf(p)>> /\ queue[s] # <<OutOf(p)>>
      BY <1>1, <2>1, ShortLists
    <3>2. QED
      BY <3>1 DEF Full
  <2>4. Bare(s, p) => queue'[s] = <<>> /\ product'[s] = p
    BY <1>0, <1>3, <2>1, <2>2
  <2>5. Full(s, p) => queue'[s] = <<OutOf(p)>> /\ product'[s] = p
    BY <1>0, <1>3, <2>1, <2>3
  <2>6. QED
    BY <1>2, <2>4, <2>5 DEF Bare, Full
<1>6. QED
  BY <1>4, <1>5

\* Slots that a step leaves alone stay as they were.
LEMMA LaneKeeps ==
    ASSUME HostType, LaneInv, UNCHANGED accumulate_on_gpu, UNCHANGED depth,
           NEW s \in Slot,
           queue'[s] = queue[s], stage_in'[s] = stage_in[s], dev'[s] = dev[s],
           product'[s] = product[s], stage_out'[depth][s] = stage_out[depth][s],
           slot_state'[s] = slot_state[s], slot_scatter'[s] = slot_scatter[s],
           \A p \in Issued : p \in Issued'
    PROVE  /\ queue'[s] = <<>> \/ \E p \in Path : Bare(s, p)' \/ Full(s, p)'
           /\ slot_state'[s] # None =>
                 /\ slot_state'[s] \in Issued'
                 /\ \/ Full(s, slot_state[s])'
                    \/ queue'[s] = <<>> /\ (~accumulate_on_gpu' => stage_out'[depth'][s] = slot_state'[s])
           /\ slot_scatter'[s] # None => queue'[s] = <<>> /\ slot_state'[s] = None
<1>1. \A p : (Bare(s, p)' <=> Bare(s, p)) /\ (Full(s, p)' <=> Full(s, p))
  BY LaneSame
<1>2. queue'[s] = <<>> \/ \E p \in Path : Bare(s, p)' \/ Full(s, p)'
  BY <1>1 DEF LaneInv
<1>3. ASSUME slot_state'[s] # None
      PROVE  /\ slot_state'[s] \in Issued'
             /\ \/ Full(s, slot_state[s])'
                \/ queue'[s] = <<>> /\ (~accumulate_on_gpu' => stage_out'[depth'][s] = slot_state'[s])
  <2>1. PICK p : p = slot_state[s]
    OBVIOUS
  <2>2. /\ p \in Issued
        /\ \/ Full(s, p)
           \/ queue[s] = <<>> /\ (~accumulate_on_gpu => stage_out[depth][s] = p)
    <3>1. slot_state[s] \in Issued
      BY <1>3 DEF LaneInv
    <3>2. \/ Full(s, slot_state[s])
          \/ queue[s] = <<>> /\ (~accumulate_on_gpu => stage_out[depth][s] = slot_state[s])
      BY <1>3 DEF LaneInv
    <3>3. Full(s, slot_state[s]) => Full(s, p)
      BY <2>1 DEF Full
    <3>4. p \in Issued
      BY <2>1, <3>1
    <3>5. \/ Full(s, p)
          \/ queue[s] = <<>> /\ (~accumulate_on_gpu => stage_out[depth][s] = p)
      BY <2>1, <3>2, <3>3, Zenon
    <3>6. QED
      BY <3>4, <3>5
  <2>3. Full(s, p)' => Full(s, slot_state[s])'
    BY <2>1 DEF Full
  <2>4. QED
    BY <1>1, <2>1, <2>2, <2>3
<1>4. slot_scatter'[s] # None => queue'[s] = <<>> /\ slot_state'[s] = None
  BY DEF LaneInv
<1>5. QED
  BY <1>2, <1>3, <1>4

\* The tasks of the attempt.
LEMMA TasksStep ==
    ASSUME CallInv, HostType, host_resident, TasksInv, UNCHANGED shard,
           \/ UNCHANGED <<depth, tasks>> /\ (pc' \in {"gather", "output"} => i' < Len(tasks))
           \/ Escalate
    PROVE  TasksInv'
<1>1. CASE UNCHANGED <<depth, tasks>> /\ (pc' \in {"gather", "output"} => i' < Len(tasks))
  <2>1. Cut(Range(tasks))'
    BY <1>1 DEF TasksInv, Cut
  <2>2. QED
    BY <1>1, <2>1 DEF TasksInv
<1>2. CASE Escalate
  <2>1. depth' = depth + 1 /\ depth + 1 \in Depth /\ tasks' = Mine(Tasks[depth + 1]) /\ depth \in Depth
    BY <1>2, EscalateFacts DEF HostType
  <2>2. PICK d \in Depth : d = depth
    BY <2>1
  <2>3. Range(tasks) = OfShard(d)
    BY <2>2 DEF TasksInv, OfShard
  <2>4. Cut(OfShard(d + 1))
    BY <2>1, <2>2, <2>3, Deepening DEF TasksInv
  <2>5. Range(tasks') = OfShard(d + 1)
    BY <2>1, <2>2, MineIs
  <2>6. Range(tasks') = {p \in Range(Tasks[depth']) : SubSeq(p, 1, Itr) \in shard'}
    BY <2>1, <2>2, <2>5 DEF OfShard
  <2>7. Cut(Range(tasks))'
    <3>1. PICK A : A = OfShard(d + 1)
      OBVIOUS
    <3>2. Cut(A) /\ Range(tasks') = A
      BY <2>4, <2>5, <3>1
    <3>3. QED
      BY <3>2 DEF Cut
  <2>8. pc' = "attempt"
    BY <1>2 DEF Escalate
  <2>9. QED
    BY <2>6, <2>7, <2>8 DEF TasksInv
<1>3. QED
  BY <1>1, <1>2

\* The subproblems issued are tasks of the attempt.
LEMMA IssuedIs ==
    ASSUME HostType
    PROVE  \A p \in Issued : p \in Path /\ Len(p) = depth /\ p \in Range(tasks)
<1> SUFFICES ASSUME NEW p \in Issued PROVE p \in Path /\ Len(p) = depth /\ p \in Range(tasks)
  OBVIOUS
<1>1. PICK k \in 1 .. i : p = tasks[k]
  BY DEF Issued
<1>2. k \in DOMAIN tasks /\ tasks \in Seq(Path)
  BY DEF HostType
<1>3. QED
  BY <1>1, <1>2 DEF HostType, Range

\* The scatters of an attempt are of subproblems of its depth.
LEMMA JobsAre ==
    ASSUME HostType, JobInv, NEW d \in Depth
    PROVE  /\ jobs[d] \in Seq(Job)
           /\ \A j \in Range(jobs[d]) : /\ j.task \in Path /\ j.slot \in Slot /\ Len(j.task) = d
                                        /\ future[j.task] = "queued"
<1>1. jobs[d] \in Seq(Job)
  BY DEF HostType
<1>2. \A j \in Range(jobs[d]) : j \in Job
  BY <1>1 DEF Range
<1>3. QED
  BY <1>1, <1>2, JobFieldsOf DEF JobInv

\* A slot is flushed.
LEMMA FlushFacts ==
    ASSUME host_resident, HostType, LaneInv, FutureInv, NEW s \in Slot, Flush(s)
    PROVE  LET p == slot_state[s]
           IN  /\ p \in Path /\ p # None /\ p \in Issued /\ Len(p) = depth
               /\ future[p] = "none" /\ queue[s] = <<>> /\ slot_scatter[s] = None
               /\ ~accumulate_on_gpu => stage_out[depth][s] = p
               /\ \A r \in Slot : r # s => slot_state[r] # p /\ slot_state'[r] = slot_state[r]
                                           /\ slot_scatter'[r] = slot_scatter[r]
               /\ slot_state'[s] = None
               /\ slot_scatter'[s] = IF Async THEN p ELSE None
               /\ \A q \in Path : future'[q] = IF Async /\ q = p THEN "queued" ELSE future[q]
<1>1. /\ slot_state[s] # None /\ queue[s] = <<>>
      /\ slot_state' = [slot_state EXCEPT ![s] = None]
  BY DEF Flush, Landed
<1>2. PICK p : p = slot_state[s]
  OBVIOUS
<1>3. p \in Path /\ p # None /\ p \in Issued /\ Len(p) = depth
  BY <1>1, <1>2, IssuedIs DEF LaneInv
<1>4. future[p] = "none"
  BY <1>1, <1>2 DEF FutureInv
<1>5. slot_scatter[s] = None
  BY <1>1 DEF LaneInv
<1>6. ~accumulate_on_gpu => stage_out[depth][s] = p
  <2>1. ~Full(s, slot_state[s])
    BY <1>1, LaneForms
  <2>2. QED
    BY <1>1, <1>2, <2>1 DEF LaneInv
<1>7. \A r \in Slot : r # s => slot_state[r] # p
  BY <1>1, <1>2 DEF LaneInv
<1>8. slot_scatter' = IF Async THEN [slot_scatter EXCEPT ![s] = p] ELSE [slot_scatter EXCEPT ![s] = None]
  BY <1>2 DEF Flush
<1>9. future' = IF Async THEN [future EXCEPT ![p] = "queued"] ELSE future
  BY <1>2 DEF Flush
<1>10. /\ slot_state'[s] = None /\ slot_scatter'[s] = IF Async THEN p ELSE None
       /\ \A r \in Slot : r # s => slot_state'[r] = slot_state[r] /\ slot_scatter'[r] = slot_scatter[r]
  BY <1>1, <1>8 DEF HostType
<1>11. \A q \in Path : future'[q] = IF Async /\ q = p THEN "queued" ELSE future[q]
  BY <1>3, <1>9 DEF HostType
<1>12. QED
  BY <1>1, <1>2, <1>3, <1>4, <1>5, <1>6, <1>7, <1>10, <1>11

\* flush: the slot's scatter is done or handed over.
LEMMA FlushStep ==
    ASSUME CallInv, host_resident, HostType, HostInv, pc = "flush", NEW s \in Slot, Flush(s)
    PROVE  LaneInv' /\ PhaseInv' /\ JobInv' /\ FutureInv' /\ FreshInv' /\ AddedInv'
<1> USE DEF HostInv
<1>1. UNCHANGED <<accumulate_on_gpu, scatter_async, max_parallel, host_resident, pc, outcome, depth,
                  tasks, i, caller, queue, stage_in, dev, product, stage_out>>
  BY DEF Flush, argVars, callVars, loopVars, gpuVars
<1>2. PICK p : p = slot_state[s]
  OBVIOUS
<1>3. /\ p \in Path /\ p # None /\ p \in Issued /\ Len(p) = depth
      /\ future[p] = "none" /\ queue[s] = <<>> /\ slot_scatter[s] = None
      /\ ~accumulate_on_gpu => stage_out[depth][s] = p
      /\ \A r \in Slot : r # s => slot_state[r] # p /\ slot_state'[r] = slot_state[r]
                                  /\ slot_scatter'[r] = slot_scatter[r]
      /\ slot_state'[s] = None
      /\ slot_scatter'[s] = IF Async THEN p ELSE None
      /\ \A q \in Path : future'[q] = IF Async /\ q = p THEN "queued" ELSE future[q]
  BY <1>2, FlushFacts
<1>4. Issued' = Issued /\ Running' /\ Running /\ pc = "flush" /\ outcome # "returned"
  BY <1>1 DEF Issued, Running, CallInv
<1>5. depth \in Depth
  BY DEF HostType
<1>6. \A r \in Slot : \A q : (Bare(r, q)' <=> Bare(r, q)) /\ (Full(r, q)' <=> Full(r, q))
  BY <1>1, LaneSame
<1>7. LaneInv'
  <2>1. ASSUME NEW r \in Slot
        PROVE  /\ queue'[r] = <<>> \/ \E q \in Path : Bare(r, q)' \/ Full(r, q)'
               /\ slot_state'[r] # None =>
                     /\ slot_state'[r] \in Issued'
                     /\ \/ Full(r, slot_state[r])'
                        \/ queue'[r] = <<>> /\ (~accumulate_on_gpu' => stage_out'[depth'][r] = slot_state'[r])
               /\ slot_scatter'[r] # None => queue'[r] = <<>> /\ slot_state'[r] = None
    <3>1. CASE r = s
      BY <1>1, <1>3, <3>1
    <3>2. CASE r # s
      BY <1>1, <1>3, <1>4, <3>2, LaneKeeps
    <3>3. QED
      BY <3>1, <3>2
  <2>2. \A r, t \in Slot : slot_state'[r] = slot_state'[t] => r = t \/ slot_state'[r] = None
    BY <1>3 DEF LaneInv
  <2>3. QED
    BY <2>1, <2>2 DEF LaneInv
<1>8. PhaseInv'
  BY <1>1, <1>3, <1>4 DEF PhaseInv
<1>9. JobInv'
  <2>1. CASE Async
    <3> DEFINE job == [task |-> p, slot |-> s]
    <3>1. jobs' = [jobs EXCEPT ![depth] = Append(@, job)]
      BY <1>2, <2>1 DEF Flush
    <3>2. job \in Job /\ job.task = p /\ job.slot = s
      BY <1>3, JobFields
    <3> HIDE DEF job
    <3>3. \A d \in Depth : d # depth => jobs'[d] = jobs[d]
      BY <3>1 DEF HostType
    <3>4. jobs'[depth] = Append(jobs[depth], job)
      BY <1>5, <3>1 DEF HostType
    <3>5. jobs[depth] \in Seq(Job)
      BY <1>5 DEF HostType
    <3> DEFINE q == jobs[depth]
    <3>6. /\ Range(jobs'[depth]) = Range(q) \cup {job}
          /\ \A k \in DOMAIN q : jobs'[depth][k] = q[k] /\ k \in DOMAIN jobs'[depth]
          /\ jobs'[depth][Len(q) + 1] = job
          /\ \A k \in DOMAIN jobs'[depth] : k \in DOMAIN q \/ k = Len(q) + 1
      BY <3>2, <3>4, <3>5, AppendIs
    <3> HIDE DEF q
    <3>7. \A j \in Range(q) : j.task # p /\ j.slot # s /\ j.task \in Path /\ j.slot \in Slot
      <4> SUFFICES ASSUME NEW j \in Range(q)
                   PROVE  j.task # p /\ j.slot # s /\ j.task \in Path /\ j.slot \in Slot
        OBVIOUS
      <4>1. /\ j.task \in Path /\ j.slot \in Slot /\ future[j.task] = "queued"
            /\ slot_scatter[j.slot] = j.task
        BY <1>5, JobsAre DEF q, JobInv
      <4>2. QED
        BY <1>3, <4>1, BackwardCallAssumption
    <3>8. ASSUME NEW d \in Depth
          PROVE  /\ \A k, l \in DOMAIN jobs'[d] : jobs'[d][k].task = jobs'[d][l].task => k = l
                 /\ \A j \in Range(jobs'[d]) :
                       /\ Len(j.task) = d /\ future'[j.task] = "queued"
                       /\ ~accumulate_on_gpu' => stage_out'[d][j.slot] = j.task
                       /\ d = depth' => slot_scatter'[j.slot] = j.task
      <4>1. CASE d # depth
        BY <1>1, <1>3, <3>3, <4>1, JobsAre DEF JobInv
      <4>2. CASE d = depth
        <5>1. \A k, l \in DOMAIN jobs'[d] : jobs'[d][k].task = jobs'[d][l].task => k = l
          <6>1. \A k \in DOMAIN q : q[k] \in Range(q)
            BY DEF Range
          <6>2. \A k, l \in DOMAIN q : q[k].task = q[l].task => k = l
            BY <1>5 DEF JobInv, q
          <6>3. QED
            BY <3>2, <3>6, <3>7, <4>2, <6>1, <6>2
        <5>2. ASSUME NEW j \in Range(q)
              PROVE  /\ Len(j.task) = d /\ future'[j.task] = "queued"
                     /\ ~accumulate_on_gpu' => stage_out'[d][j.slot] = j.task
                     /\ slot_scatter'[j.slot] = j.task
          BY <1>1, <1>3, <3>7, <4>2 DEF JobInv, q
        <5>3. /\ Len(job.task) = d /\ future'[job.task] = "queued"
              /\ ~accumulate_on_gpu' => stage_out'[d][job.slot] = job.task
              /\ slot_scatter'[job.slot] = job.task
          BY <1>1, <1>3, <2>1, <3>2, <4>2
        <5>4. QED
          BY <3>6, <4>2, <5>1, <5>2, <5>3
      <4>3. QED
        BY <4>1, <4>2
    <3>9. QED
      BY <3>8 DEF JobInv
  <2>2. CASE ~Async
    <3>1. jobs' = jobs /\ (\A q \in Path : future'[q] = future[q]) /\ \A r \in Slot : slot_scatter'[r] = slot_scatter[r]
      BY <1>3, <2>2 DEF Flush
    <3>2. QED
      BY <1>1, <3>1, JobsAre DEF JobInv
  <2>3. QED
    BY <2>1, <2>2
<1>10. FutureInv'
  <2>1. ASSUME NEW q \in Path, Len(q) = depth', future'[q] = "queued"
        PROVE  \E j \in Range(jobs'[depth']) : j.task = q
    <3>1. CASE Async
      <4> DEFINE job == [task |-> p, slot |-> s]
      <4>1. jobs' = [jobs EXCEPT ![depth] = Append(@, job)]
        BY <1>2, <3>1 DEF Flush
      <4>2. job \in Job /\ job.task = p
        BY <1>3, JobFields
      <4> HIDE DEF job
      <4>3. jobs[depth] \in Seq(Job) /\ jobs'[depth] = Append(jobs[depth], job)
        BY <1>5, <4>1 DEF HostType
      <4>4. Range(jobs'[depth]) = Range(jobs[depth]) \cup {job}
        BY <4>2, <4>3, AppendIs
      <4>5. QED
        BY <1>1, <1>3, <2>1, <4>2, <4>4 DEF FutureInv
    <3>2. CASE ~Async
      BY <1>1, <1>3, <2>1, <3>2 DEF FutureInv, Flush
    <3>3. QED
      BY <3>1, <3>2
  <2>2. ASSUME NEW q \in Path, Len(q) = depth', future'[q] \in {"queued", "oom", "error"}
        PROVE  \E r \in Slot : slot_scatter'[r] = q
    <3>1. CASE Async /\ q = p
      BY <1>3, <3>1
    <3>2. CASE ~(Async /\ q = p)
      <4>1. future[q] \in {"queued", "oom", "error"} /\ Len(q) = depth
        BY <1>1, <1>3, <2>2, <3>2
      <4>2. PICK r \in Slot : slot_scatter[r] = q
        BY <1>4, <4>1 DEF FutureInv
      <4>3. r # s
        BY <1>3, <4>2, BackwardCallAssumption
      <4>4. QED
        BY <1>3, <4>2, <4>3
    <3>3. QED
      BY <3>1, <3>2
  <2>3. \A r \in Slot : slot_state'[r] # None => future'[slot_state'[r]] = "none"
    <3>1. \A r \in Slot : slot_state[r] # None => slot_state[r] \in Path
      BY DEF HostType, Name
    <3>2. QED
      BY <1>3, <3>1 DEF FutureInv
  <2>4. \A q \in Path : Len(q) = depth' /\ q \notin Issued' => future'[q] = "none"
    BY <1>1, <1>3, <1>4 DEF FutureInv
  <2>5. accumulate_on_gpu' => \A q \in Path : future'[q] \notin {"oom", "error"}
    BY <1>1, <1>3 DEF FutureInv
  <2>6. QED
    BY <2>1, <2>2, <2>3, <2>4, <2>5 DEF FutureInv
<1>11. /\ \A d \in Depth : \A q \in Path : ~(d = depth /\ q = p) => added'[d][q] = added[d][q]
       /\ added'[depth][p] = IF accumulate_on_gpu \/ Async THEN added[depth][p] ELSE added[depth][p] + 1
  <2>1. CASE Async
    BY <2>1 DEF Flush
  <2>2. CASE ~Async
    <3>1. added' = Scattered(depth, s)
      BY <2>2 DEF Flush
    <3>2. CASE accumulate_on_gpu
      BY <3>1, <3>2, <1>5, ScatteredIs
    <3>3. CASE ~accumulate_on_gpu
      <4>1. added' = Bumped(added, depth, p)
        BY <1>3, <1>5, <3>1, <3>3, ScatteredIs
      <4>2. added \in [Depth -> [Path -> Nat]]
        BY DEF HostType
      <4>3. \A e \in Depth : \A q \in Path :
               added'[e][q] = IF e = depth /\ q = p THEN added[e][q] + 1 ELSE added[e][q]
        BY <1>5, <4>1, <4>2, BumpType
      <4>4. QED
        BY <1>3, <1>5, <2>2, <3>3, <4>3
    <3>4. QED
      BY <3>2, <3>3
  <2>3. QED
    BY <2>1, <2>2
<1>12. FreshInv'
  <2>1. \A d \in Depth : d # depth => jobs'[d] = jobs[d]
    BY DEF Flush, HostType
  <2>2. ASSUME NEW d \in Depth, d > depth
        PROVE  /\ jobs'[d] = <<>> /\ \A q \in Path : added'[d][q] = 0
               /\ \A q \in Path : Len(q) = d => future'[q] = "none"
    <3>1. d # depth
      BY <2>2, DeepestType DEF HostType, Depth
    <3>2. QED
      BY <1>3, <1>11, <2>1, <2>2, <3>1 DEF FreshInv
  <2>3. caller' = "busy" /\ accumulate_on_gpu' => \A q \in Path : added'[depth'][q] = 0
    BY <1>1, <1>3, <1>5, <1>11 DEF FreshInv
  <2>4. QED
    BY <1>1, <1>4, <2>2, <2>3 DEF FreshInv
<1>13. AddedInv'
  <2>1. ASSUME NEW q \in Path, q \in Issued' => future'[q] \notin {"oom", "error"}
        PROVE  added'[depth'][q] = IF Owed(q)' THEN 0 ELSE 1
    <3>1. q \in Issued => future[q] \notin {"oom", "error"}
      BY <1>3, <1>4, <2>1
    <3>2. added[depth][q] = IF Owed(q) THEN 0 ELSE 1
      BY <1>4, <3>1 DEF AddedInv
    <3>3. CASE q # p
      <4>1. Owed(q)' <=> Owed(q)
        <5>1. \A r \in Slot : slot_state'[r] = q <=> slot_state[r] = q
          BY <1>2, <1>3, <3>3, BackwardCallAssumption
        <5>2. QED
          BY <1>1, <1>3, <1>4, <1>6, <3>3, <5>1 DEF Owed
      <4>2. added'[depth'][q] = added[depth][q]
        BY <1>1, <1>5, <1>11, <3>3
      <4>3. QED
        BY <3>2, <4>1, <4>2
    <3>4. CASE q = p
      <4>1. \A r \in Slot : slot_state'[r] # p
        BY <1>3
      <4>2. CASE accumulate_on_gpu
        <5>1. ~Owed(p)
          <6>1. \A r \in Slot : slot_state[r] = p => r = s
            BY <1>3
          <6>2. ~Full(s, p)
            BY <1>3, LaneForms
          <6>3. QED
            BY <1>3, <4>2, <6>1, <6>2 DEF Owed
        <5>2. ~Owed(p)'
          BY <1>1, <1>3, <1>4, <4>1, <4>2 DEF Owed
        <5>3. QED
          BY <1>1, <1>11, <3>2, <3>4, <4>2, <5>1, <5>2
      <4>3. CASE ~accumulate_on_gpu
        <5>1. Owed(p)
          BY <1>2, <4>3 DEF Owed
        <5>2. Owed(p)' <=> Async
          BY <1>1, <1>3, <1>4, <4>1, <4>3 DEF Owed
        <5>3. added[depth][p] = 0
          BY <3>2, <3>4, <5>1
        <5>4. QED
          BY <1>1, <1>11, <3>4, <4>3, <5>2, <5>3
      <4>4. QED
        BY <4>2, <4>3
    <3>5. QED
      BY <3>3, <3>4
  <2>2. QED
    BY <1>1, <1>4, <2>1 DEF AddedInv
<1>14. QED
  BY <1>7, <1>8, <1>9, <1>10, <1>12, <1>13

-----------------------------------------------------------------------------
\* Nothing is handed over, added or put in flight.
LEMMA QuietStep ==
    ASSUME CallInv, host_resident, HostType, HostInv,
           UNCHANGED <<accumulate_on_gpu, depth, tasks, i, jobs, future, slot_state>>,
           \A d \in Depth : \A p \in Path : added'[d][p] = added[d][p],
           \A d \in Depth : \A r \in Slot :
              stage_out'[d][r] = stage_out[d][r] \/ (d = depth /\ queue[r] # <<>>),
           Running' => Running \/ pc = "attempt",
           pc' # "attempt",
           caller' = "busy" => caller = "busy" \/ pc = "attempt",
           \A r \in Slot : \/ slot_scatter'[r] = slot_scatter[r]
                           \/ slot_scatter[r] \in Path => future[slot_scatter[r]] = "done",
           Running' /\ Running /\ accumulate_on_gpu =>
              \A r \in Slot : \A p \in Path : slot_state[r] = p => (Full(r, p)' <=> Full(r, p)),
           outcome' = "returned" =>
              /\ \A p \in Path : added[depth][p] = IF p \in Range(tasks) THEN 1 ELSE 0
              /\ jobs[depth] = <<>>
    PROVE  JobInv' /\ FutureInv' /\ FreshInv' /\ AddedInv'
<1> USE DEF HostInv
<1>1. depth \in Depth /\ Issued' = Issued
  BY DEF HostType, Issued
<1>2. \A r \in Slot : slot_scatter[r] \in Path \/ slot_scatter[r] = None
  BY DEF HostType, Name
<1>3. JobInv'
  <2> SUFFICES ASSUME NEW d \in Depth
               PROVE  /\ \A k, l \in DOMAIN jobs[d] : jobs[d][k].task = jobs[d][l].task => k = l
                      /\ \A j \in Range(jobs[d]) :
                            /\ Len(j.task) = d /\ future[j.task] = "queued"
                            /\ ~accumulate_on_gpu => stage_out'[d][j.slot] = j.task
                            /\ d = depth => slot_scatter'[j.slot] = j.task
    BY DEF JobInv
  <2>1. \A k, l \in DOMAIN jobs[d] : jobs[d][k].task = jobs[d][l].task => k = l
    BY DEF JobInv
  <2>2. ASSUME NEW j \in Range(jobs[d])
        PROVE  /\ Len(j.task) = d /\ future[j.task] = "queued"
               /\ ~accumulate_on_gpu => stage_out'[d][j.slot] = j.task
               /\ d = depth => slot_scatter'[j.slot] = j.task
    <3>1. j.task \in Path /\ j.slot \in Slot /\ Len(j.task) = d /\ future[j.task] = "queued"
      BY JobsAre
    <3>2. /\ ~accumulate_on_gpu => stage_out[d][j.slot] = j.task
          /\ d = depth => slot_scatter[j.slot] = j.task
      BY DEF JobInv
    <3>3. d = depth => slot_scatter'[j.slot] = j.task
      BY <3>1, <3>2
    <3>4. stage_out'[d][j.slot] = stage_out[d][j.slot]
      <4>1. d = depth => queue[j.slot] = <<>>
        BY <3>1, <3>2, BackwardCallAssumption DEF LaneInv
      <4>2. QED
        BY <3>1, <4>1
    <3>5. QED
      BY <3>1, <3>2, <3>3, <3>4
  <2>3. QED
    BY <2>1, <2>2
<1>4. FutureInv'
  <2>1. Running' => \A p \in Path :
           Len(p) = depth /\ future[p] \in {"queued", "oom", "error"} =>
              \E r \in Slot : slot_scatter'[r] = p
    <3> SUFFICES ASSUME Running', NEW p \in Path, Len(p) = depth,
                        future[p] \in {"queued", "oom", "error"}
                 PROVE  \E r \in Slot : slot_scatter'[r] = p
      OBVIOUS
    <3>1. Running
      BY <1>1 DEF FreshInv
    <3>2. PICK r \in Slot : slot_scatter[r] = p
      BY <3>1 DEF FutureInv
    <3>3. QED
      BY <3>2
  <2>2. QED
    BY <1>1, <2>1 DEF FutureInv
<1>5. FreshInv'
  <2>1. \A d \in Depth : d > depth =>
           /\ jobs[d] = <<>> /\ \A p \in Path : added'[d][p] = 0
           /\ \A p \in Path : Len(p) = d => future[p] = "none"
    BY DEF FreshInv
  <2>2. caller' = "busy" /\ accumulate_on_gpu => \A p \in Path : added'[depth][p] = 0
    BY <1>1 DEF FreshInv
  <2>3. QED
    BY <2>1, <2>2 DEF FreshInv
<1>6. AddedInv'
  <2>1. ASSUME Running', NEW p \in Path, p \in Issued' => future'[p] \notin {"oom", "error"}
        PROVE  added'[depth'][p] = IF Owed(p)' THEN 0 ELSE 1
    <3>1. CASE pc = "attempt"
      <4>1. added'[depth'][p] = 0
        BY <1>1, <3>1 DEF FreshInv
      <4>2. p \notin Issued'
        <5>1. i = 0
          BY <3>1 DEF FreshInv
        <5>2. Issued = {}
          BY <5>1 DEF Issued
        <5>3. QED
          BY <1>1, <5>2
      <4>3. Owed(p)'
        BY <4>2 DEF Owed
      <4>4. QED
        BY <4>1, <4>3
    <3>2. CASE pc # "attempt"
      <4>1. Running
        BY <2>1, <3>2
      <4>2. added[depth][p] = IF Owed(p) THEN 0 ELSE 1
        BY <1>1, <2>1, <4>1 DEF AddedInv
      <4>3. Owed(p)' <=> Owed(p)
        BY <1>1, <2>1, <4>1 DEF Owed
      <4>4. added'[depth'][p] = added[depth][p]
        BY <1>1
      <4>5. QED
        BY <4>2, <4>3, <4>4
    <3>3. QED
      BY <3>1, <3>2
  <2>2. outcome' = "returned" =>
          /\ \A p \in Path : added'[depth'][p] = IF p \in Range(tasks') THEN 1 ELSE 0
          /\ jobs'[depth'] = <<>>
    BY <1>1
  <2>3. QED
    BY <2>1, <2>2 DEF AddedInv
<1>7. QED
  BY <1>3, <1>4, <1>5, <1>6

\* The slots, with the part of a slot that changes as the only thing to look at.
LEMMA LaneExcept ==
    ASSUME HostType, LaneInv, UNCHANGED accumulate_on_gpu, UNCHANGED depth,
           UNCHANGED <<slot_state>>, NEW X, \A p \in Issued : p \in Issued',
           \A s \in Slot \ X :
              /\ queue'[s] = queue[s] /\ stage_in'[s] = stage_in[s] /\ dev'[s] = dev[s]
              /\ product'[s] = product[s] /\ stage_out'[depth][s] = stage_out[depth][s]
              /\ slot_scatter'[s] = slot_scatter[s],
           \A s \in Slot \cap X :
              /\ queue'[s] = <<>> \/ \E p \in Path : Bare(s, p)' \/ Full(s, p)'
              /\ slot_state[s] # None =>
                     \/ Full(s, slot_state[s])'
                     \/ queue'[s] = <<>> /\ (~accumulate_on_gpu => stage_out'[depth][s] = slot_state[s])
              /\ slot_scatter'[s] # None => queue'[s] = <<>> /\ slot_state[s] = None
    PROVE  LaneInv'
<1>1. ASSUME NEW s \in Slot
      PROVE  /\ queue'[s] = <<>> \/ \E p \in Path : Bare(s, p)' \/ Full(s, p)'
             /\ slot_state'[s] # None =>
                   /\ slot_state'[s] \in Issued'
                   /\ \/ Full(s, slot_state[s])'
                      \/ queue'[s] = <<>> /\ (~accumulate_on_gpu' => stage_out'[depth'][s] = slot_state'[s])
             /\ slot_scatter'[s] # None => queue'[s] = <<>> /\ slot_state'[s] = None
  <2>1. CASE s \in X
    <3>1. slot_state[s] # None => slot_state[s] \in Issued
      BY DEF LaneInv
    <3>2. QED
      BY <2>1, <3>1
  <2>2. CASE s \notin X
    BY <2>2, LaneKeeps
  <2>3. QED
    BY <2>1, <2>2
<1>2. \A s, r \in Slot : slot_state'[s] = slot_state'[r] => s = r \/ slot_state'[s] = None
  BY DEF LaneInv
<1>3. QED
  BY <1>1, <1>2 DEF LaneInv

-----------------------------------------------------------------------------
\* The host's actions.

\* Only the control point and what the host remembers of scatters change.
LEMMA HostQuiet ==
    ASSUME CallInv, host_resident, HostType, HostInv,
           UNCHANGED <<accumulate_on_gpu, max_parallel, depth, tasks, i, jobs, future, slot_state,
                       queue, stage_in, dev, product, stage_out>>,
           \A d \in Depth : \A p \in Path : added'[d][p] = added[d][p],
           Running' => Running \/ pc = "attempt",
           pc' # "attempt",
           caller' = "busy" => caller = "busy" \/ pc = "attempt",
           \A r \in Slot : \/ slot_scatter'[r] = slot_scatter[r]
                           \/ /\ slot_scatter[r] \in Path => future[slot_scatter[r]] = "done"
                              /\ slot_scatter'[r] = None,
           outcome' = "returned" =>
              /\ \A p \in Path : added[depth][p] = IF p \in Range(tasks) THEN 1 ELSE 0
              /\ jobs[depth] = <<>>
    PROVE  LaneInv' /\ JobInv' /\ FutureInv' /\ FreshInv' /\ AddedInv'
<1>1. \A r \in Slot : \A p : (Bare(r, p)' <=> Bare(r, p)) /\ (Full(r, p)' <=> Full(r, p))
  BY LaneSame
<1>2. JobInv' /\ FutureInv' /\ FreshInv' /\ AddedInv'
  BY <1>1, QuietStep
<1>3. Issued' = Issued
  BY DEF Issued
<1>4. LaneInv'
  <2>1. \A s \in Slot :
           /\ queue'[s] = <<>> \/ \E p \in Path : Bare(s, p)' \/ Full(s, p)'
           /\ slot_state[s] # None =>
                  \/ Full(s, slot_state[s])'
                  \/ queue'[s] = <<>> /\ (~accumulate_on_gpu => stage_out'[depth][s] = slot_state[s])
           /\ slot_scatter'[s] # None => queue'[s] = <<>> /\ slot_state[s] = None
    <3> TAKE s \in Slot
    <3>1. PICK p : p = slot_state[s]
      OBVIOUS
    <3>2. queue[s] = <<>> \/ \E q \in Path : Bare(s, q) \/ Full(s, q)
      BY DEF HostInv, LaneInv
    <3>3. slot_state[s] # None =>
             \/ Full(s, slot_state[s])
             \/ queue[s] = <<>> /\ (~accumulate_on_gpu => stage_out[depth][s] = slot_state[s])
      BY DEF HostInv, LaneInv
    <3>4. Full(s, slot_state[s]) => Full(s, slot_state[s])'
      BY DEF Full, OutOf
    <3>5. slot_scatter[s] # None => queue[s] = <<>> /\ slot_state[s] = None
      BY DEF HostInv, LaneInv
    <3>6. QED
      BY <1>1, <3>2, <3>3, <3>4, <3>5
  <2> DEFINE X == Slot
  <2>2. \A s \in Slot \ X : FALSE
    OBVIOUS
  <2>3. HostType /\ LaneInv
    BY DEF HostInv
  <2> HIDE DEF X
  <2>4. QED
    BY <1>3, <2>1, <2>2, <2>3, LaneExcept
<1>5. QED
  BY <1>2, <1>4

\* The host's slot of the iteration is what it was.
LEMMA PhaseSame ==
    ASSUME PhaseInv,
           UNCHANGED <<accumulate_on_gpu, max_parallel, tasks, i, pc, outcome, slot_state, slot_scatter,
                       queue, stage_in, dev, product>>
    PROVE  PhaseInv'
<1>1. \A r \in Slot : \A p : (Bare(r, p)' <=> Bare(r, p)) /\ (Full(r, p)' <=> Full(r, p))
  BY LaneSame
<1>2. S' = S /\ Current' = Current /\ Running' = Running
  BY DEF S, n_par, Current, Running
<1>3. PICK c : c = Current
  OBVIOUS
<1>4. \A s \in Slot : Bare(s, Current) => Bare(s, c)
  BY <1>3 DEF Bare
<1>5. \A s \in Slot : Bare(s, c)' => Bare(s, Current)'
  BY <1>2, <1>3 DEF Bare
<1>6. QED
  BY <1>1, <1>2, <1>4, <1>5 DEF PhaseInv

HostGoal == LaneInv' /\ PhaseInv' /\ JobInv' /\ FutureInv' /\ FreshInv' /\ AddedInv'

\* The attempt starts.
LEMMA StartStep ==
    ASSUME CallInv, host_resident, HostType, HostInv, StartAttempt
    PROVE  HostGoal
<1>1. /\ pc = "attempt" /\ pc' = "flush" /\ outcome' = outcome /\ outcome # "returned"
      /\ UNCHANGED <<accumulate_on_gpu, max_parallel, depth, tasks, i, jobs, future, slot_state,
                     queue, stage_in, dev, product, stage_out, added, slot_scatter>>
  BY DEF StartAttempt, argVars, loopVars, slotVars, jobVars, CallInv
<1>2. LaneInv' /\ JobInv' /\ FutureInv' /\ FreshInv' /\ AddedInv'
  BY <1>1, HostQuiet
<1>3. PhaseInv'
  BY <1>1 DEF HostInv, PhaseInv
<1>4. QED
  BY <1>2, <1>3 DEF HostGoal

\* A slot is refilled after its scatter was collected.
LEMMA ReuseStep ==
    ASSUME CallInv, host_resident, HostType, HostInv, ReuseSlot
    PROVE  HostGoal
<1>1. /\ pc = "flush" /\ pc' = "gather" /\ outcome' = outcome /\ outcome # "returned" /\ i < Len(tasks)
      /\ UNCHANGED <<accumulate_on_gpu, max_parallel, depth, tasks, i, jobs, future, slot_state, caller,
                     queue, stage_in, dev, product, stage_out, added>>
      /\ slot_state[S] = None /\ ScatterDone(S) /\ slot_scatter' = [slot_scatter EXCEPT ![S] = None]
  BY DEF ReuseSlot, argVars, loopVars, gpuVars, jobVars, CallInv
<1>2. PICK s \in Slot : s = S
  BY <1>1, CurrentIs
<1>3. S' = S
  BY <1>1 DEF S, n_par
<1>4. /\ slot_scatter[s] \in Path => future[slot_scatter[s]] = "done"
      /\ slot_scatter'[s] = None /\ \A r \in Slot : r # s => slot_scatter'[r] = slot_scatter[r]
  BY <1>1, <1>2, BackwardCallAssumption DEF ScatterDone, HostType
<1>5. LaneInv' /\ JobInv' /\ FutureInv' /\ FreshInv' /\ AddedInv'
  <2>1. Running
    BY <1>1 DEF Running
  <2>2. QED
    BY <1>1, <1>4, <2>1, HostQuiet
<1>6. PhaseInv'
  BY <1>1, <1>2, <1>3, <1>4 DEF HostInv, PhaseInv, Running
<1>7. QED
  BY <1>5, <1>6 DEF HostGoal

\* The scatters left at the end are collected.
LEMMA CollectStep ==
    ASSUME CallInv, host_resident, HostType, HostInv, NEW s \in Slot, CollectScatter(s)
    PROVE  HostGoal
<1>1. /\ pc = "flush" /\ pc' = "flush" /\ outcome' = outcome /\ outcome # "returned"
      /\ UNCHANGED <<accumulate_on_gpu, max_parallel, depth, tasks, i, jobs, future, slot_state, caller,
                     queue, stage_in, dev, product, stage_out, added>>
      /\ ScatterDone(s) /\ slot_scatter' = [slot_scatter EXCEPT ![s] = None]
  BY DEF CollectScatter, argVars, loopVars, gpuVars, jobVars, CallInv
<1>2. /\ slot_scatter[s] \in Path => future[slot_scatter[s]] = "done"
      /\ slot_scatter'[s] = None /\ \A r \in Slot : r # s => slot_scatter'[r] = slot_scatter[r]
  BY <1>1, BackwardCallAssumption DEF ScatterDone, HostType
<1>3. LaneInv' /\ JobInv' /\ FutureInv' /\ FreshInv' /\ AddedInv'
  <2>1. Running
    BY <1>1 DEF Running
  <2>2. QED
    BY <1>1, <1>2, <2>1, HostQuiet
<1>4. PhaseInv'
  BY <1>1 DEF HostInv, PhaseInv, Running
<1>5. QED
  BY <1>3, <1>4 DEF HostGoal

\* When nothing is in a slot or with a worker, every task of the attempt was added.
LEMMA AllAdded ==
    ASSUME host_resident, HostType, HostInv, pc = "flush", i = Len(tasks),
           \A s \in Slot : slot_state[s] = None /\ slot_scatter[s] = None
    PROVE  \A p \in Path : added[depth][p] = IF p \in Range(tasks) THEN 1 ELSE 0
<1> TAKE p \in Path
<1>1. Issued = Range(tasks)
  BY DEF HostType, Issued, Range
<1>2. Running /\ p # None
  BY BackwardCallAssumption DEF Running
<1>3. p \in Issued => future[p] \notin {"queued", "oom", "error"}
  BY <1>2, IssuedIs, BackwardCallAssumption DEF HostInv, FutureInv
<1>4. added[depth][p] = IF Owed(p) THEN 0 ELSE 1
  BY <1>2, <1>3 DEF HostInv, AddedInv
<1>5. Owed(p) <=> p \notin Issued
  BY <1>2, <1>3 DEF Owed
<1>6. QED
  BY <1>1, <1>4, <1>5

\* The call returns.
LEMMA ReturnStep ==
    ASSUME CallInv, host_resident, HostType, HostInv, HostReturn
    PROVE  HostGoal
<1>1. /\ pc = "flush" /\ pc' = "end" /\ outcome' = "returned" /\ i = Len(tasks) /\ jobs[depth] = <<>>
      /\ UNCHANGED <<accumulate_on_gpu, max_parallel, depth, tasks, i, jobs, future, slot_state, caller,
                     queue, stage_in, dev, product, stage_out, added, slot_scatter>>
      /\ \A s \in Slot : slot_state[s] = None /\ slot_scatter[s] = None
  BY DEF HostReturn, argVars, gpuVars, jobVars, slotVars
<1>2. \A p \in Path : added[depth][p] = IF p \in Range(tasks) THEN 1 ELSE 0
  BY <1>1, AllAdded
<1>3. LaneInv' /\ JobInv' /\ FutureInv' /\ FreshInv' /\ AddedInv'
  <2>1. ~Running'
    BY <1>1 DEF Running
  <2>2. QED
    BY <1>1, <1>2, <2>1, HostQuiet
<1>4. PhaseInv'
  BY <1>1 DEF HostInv, PhaseInv, Running
<1>5. QED
  BY <1>3, <1>4 DEF HostGoal

\* The attempt fails, or the call does.
LEMMA StopStep ==
    ASSUME CallInv, host_resident, HostType, HostInv,
           ScatterRaises \/ HostGiveUp \/ (IssueFails /\ UNCHANGED queue)
    PROVE  HostGoal
<1>1. /\ pc' \in {"except", "end"} /\ pc # "end" /\ outcome' # "returned" /\ outcome # "returned"
      /\ UNCHANGED <<accumulate_on_gpu, max_parallel, depth, tasks, i, jobs, future, slot_state, caller,
                     queue, stage_in, dev, product, stage_out, added, slot_scatter>>
  BY DEF ScatterRaises, HostGiveUp, IssueFails, Raise, argVars, gpuVars, jobVars, slotVars, CallInv
<1>2. LaneInv' /\ JobInv' /\ FutureInv' /\ FreshInv' /\ AddedInv'
  <2>1. ~Running'
    BY <1>1 DEF Running
  <2>2. QED
    BY <1>1, <2>1, HostQuiet
<1>3. PhaseInv'
  BY <1>1 DEF HostInv, PhaseInv, Running
<1>4. QED
  BY <1>2, <1>3 DEF HostGoal

\* The caller's stream finishes what it had before the call.
LEMMA CallerStep ==
    ASSUME CallInv, host_resident, HostType, HostInv, CallerDone
    PROVE  HostGoal
<1>1. /\ caller = "busy" /\ caller' = "idle" /\ UNCHANGED <<pc, outcome>>
      /\ UNCHANGED <<accumulate_on_gpu, max_parallel, depth, tasks, i, jobs, future, slot_state,
                     queue, stage_in, dev, product, stage_out, slot_scatter>>
  BY DEF CallerDone, argVars, loopVars, jobVars, slotVars
<1>2. \A d \in Depth : \A p \in Path : added'[d][p] = added[d][p]
  <2>1. CASE accumulate_on_gpu
    <3>1. added' = [added EXCEPT ![depth] = [p \in Path |-> 0]]
      BY <2>1 DEF CallerDone, Accumulators
    <3>2. \A p \in Path : added[depth][p] = 0
      BY <1>1, <2>1 DEF HostInv, FreshInv
    <3>3. QED
      BY <3>1, <3>2 DEF HostType
  <2>2. CASE ~accumulate_on_gpu
    BY <2>2 DEF CallerDone
  <2>3. QED
    BY <2>1, <2>2
<1>3. pc # "attempt"
  BY <1>1 DEF HostInv, FreshInv
<1>4. LaneInv' /\ JobInv' /\ FutureInv' /\ FreshInv' /\ AddedInv'
  <2>1. Running' => Running
    BY <1>1 DEF Running
  <2>2. outcome' = "returned" =>
           /\ \A p \in Path : added[depth][p] = IF p \in Range(tasks) THEN 1 ELSE 0
           /\ jobs[depth] = <<>>
    BY <1>1 DEF HostInv, AddedInv
  <2>3. QED
    BY <1>1, <1>2, <1>3, <2>1, <2>2, HostQuiet
<1>5. PhaseInv'
  BY <1>1, PhaseSame DEF HostInv
<1>6. QED
  BY <1>4, <1>5 DEF HostGoal

\* The host fills the slot of the iteration.
LEMMA GatherStep ==
    ASSUME CallInv, host_resident, HostType, HostInv, Gather
    PROVE  HostGoal
<1>1. /\ pc = "gather" /\ pc' = "output" /\ outcome' = outcome /\ outcome # "returned" /\ i < Len(tasks)
      /\ UNCHANGED <<accumulate_on_gpu, max_parallel, depth, tasks, i, jobs, future, slot_state, caller,
                     slot_scatter, dev, product, stage_out, added>>
      /\ stage_in' = [stage_in EXCEPT ![S] = Current]
      /\ queue' = [queue EXCEPT ![S] = @ \o <<Op("load"), Op("kernel")>>]
  BY DEF Gather, argVars, loopVars, slotVars, jobVars, CallInv, HostInv, TasksInv
<1>2. PICK s \in Slot : s = S
  BY <1>1, CurrentIs
<1>3. PICK p \in Path : p = Current
  BY <1>1, CurrentIs
<1>4. Running /\ slot_state[s] = None /\ slot_scatter[s] = None /\ queue[s] = <<>>
  BY <1>1, <1>2 DEF HostInv, PhaseInv, Running
<1>5. stage_in'[s] = p /\ \A r \in Slot : r # s => stage_in'[r] = stage_in[r]
  BY <1>1, <1>2, <1>3 DEF HostType
<1>6. Op("load") = LoadOf(p) /\ Op("kernel") = KernelOf(p)
  BY <1>3 DEF Op, LoadOf, KernelOf
<1>7. queue'[s] = <<LoadOf(p), KernelOf(p)>> /\ \A r \in Slot : r # s => queue'[r] = queue[r]
  <2>1. queue'[s] = queue[s] \o <<Op("load"), Op("kernel")>>
    BY <1>1, <1>2 DEF HostType
  <2>2. <<>> \o <<LoadOf(p), KernelOf(p)>> = <<LoadOf(p), KernelOf(p)>>
    OBVIOUS
  <2>3. QED
    BY <1>1, <1>2, <1>4, <1>6, <2>1, <2>2 DEF HostType
<1>8. LoadOf(p)' = LoadOf(p) /\ KernelOf(p)' = KernelOf(p)
  BY DEF LoadOf, KernelOf
<1>9. Bare(s, p)'
  BY <1>5, <1>7, <1>8 DEF Bare
<1>10. \A r \in Slot \ {s} : \A q : (Bare(r, q)' <=> Bare(r, q)) /\ (Full(r, q)' <=> Full(r, q))
  BY <1>1, <1>5, <1>7, LaneSame
<1>11. JobInv' /\ FutureInv' /\ FreshInv' /\ AddedInv'
  <2>1. \A r \in Slot : \A q \in Path : slot_state[r] = q => (Full(r, q)' <=> Full(r, q))
    BY <1>4, <1>10, BackwardCallAssumption
  <2>2. QED
    BY <1>1, <1>4, <2>1, QuietStep
<1>12. LaneInv'
  <2> DEFINE X == {s}
  <2>1. HostType /\ LaneInv
    BY DEF HostInv
  <2>2. \A r \in Slot \ X :
           /\ queue'[r] = queue[r] /\ stage_in'[r] = stage_in[r] /\ dev'[r] = dev[r]
           /\ product'[r] = product[r] /\ stage_out'[depth][r] = stage_out[depth][r]
           /\ slot_scatter'[r] = slot_scatter[r]
    BY <1>1, <1>5, <1>7
  <2>3. \A r \in Slot \cap X :
              /\ queue'[r] = <<>> \/ \E q \in Path : Bare(r, q)' \/ Full(r, q)'
              /\ slot_state[r] # None =>
                     \/ Full(r, slot_state[r])'
                     \/ queue'[r] = <<>> /\ (~accumulate_on_gpu => stage_out'[depth][r] = slot_state[r])
              /\ slot_scatter'[r] # None => queue'[r] = <<>> /\ slot_state[r] = None
    BY <1>1, <1>4, <1>9
  <2>4. Issued' = Issued
    BY <1>1 DEF Issued
  <2> HIDE DEF X
  <2>5. QED
    BY <1>1, <2>1, <2>2, <2>3, <2>4, LaneExcept
<1>13. PhaseInv'
  <2>1. S' = S /\ Current' = p
    BY <1>1, <1>3 DEF S, n_par, Current
  <2>2. Bare(s, Current)'
    BY <1>9, <2>1 DEF Bare
  <2>3. ASSUME NEW r \in Slot
        PROVE  /\ ~(pc' = "gather")
               /\ pc' = "output" /\ r = S' =>
                     slot_state'[r] = None /\ slot_scatter'[r] = None /\ Bare(r, Current)'
               /\ slot_state'[r] = None => queue'[r] = <<>> \/ (pc' = "output" /\ r = S')
               /\ ~(pc' = "attempt" \/ outcome' = "returned")
    <3>1. CASE r = s
      BY <1>1, <1>2, <1>4, <2>1, <2>2, <3>1
    <3>2. CASE r # s
      BY <1>1, <1>2, <1>4, <1>7, <2>1, <3>2 DEF HostInv, PhaseInv
    <3>3. QED
      BY <3>1, <3>2
  <2>4. QED
    BY <2>3 DEF PhaseInv
<1>14. QED
  BY <1>11, <1>12, <1>13 DEF HostGoal

\* The last operation of a subproblem completes the work of its slot.
LEMMA Completes ==
    ASSUME HostType, NEW s \in Slot, NEW p \in Path, Bare(s, p),
           UNCHANGED <<accumulate_on_gpu, stage_in, dev, product>>,
           queue'[s] = Append(queue[s], OutOf(p))
    PROVE  Full(s, p)'
<1>1. LoadOf(p)' = LoadOf(p) /\ KernelOf(p)' = KernelOf(p) /\ OutOf(p)' = OutOf(p)
  BY DEF LoadOf, KernelOf, OutOf
<1>2. CASE queue[s] = <<LoadOf(p), KernelOf(p)>> /\ stage_in[s] = p
  <2>1. queue'[s] = <<LoadOf(p), KernelOf(p), OutOf(p)>>
    BY <1>2, ShortLists
  <2>2. QED
    BY <1>1, <1>2, <2>1 DEF Full
<1>3. CASE queue[s] = <<KernelOf(p)>> /\ dev[s] = p
  <2>1. queue'[s] = <<KernelOf(p), OutOf(p)>>
    BY <1>3, ShortLists
  <2>2. QED
    BY <1>1, <1>3, <2>1 DEF Full
<1>4. CASE queue[s] = <<>> /\ product[s] = p
  <2>1. queue'[s] = <<OutOf(p)>>
    BY <1>4, ShortLists
  <2>2. QED
    BY <1>1, <1>4, <2>1 DEF Full
<1>5. QED
  BY <1>2, <1>3, <1>4 DEF Bare

\* What is issued last, for the subproblem of the iteration.
LEMMA OutputFacts ==
    ASSUME CallInv, host_resident, HostType, HostInv, pc = "output",
           UNCHANGED <<accumulate_on_gpu, stage_in, dev, product>>,
           queue' = [queue EXCEPT ![S] = Append(@, Op(IF accumulate_on_gpu THEN "add" ELSE "d2h"))]
    PROVE  /\ S \in Slot /\ Current \in Path /\ Current \notin Issued /\ Len(Current) = depth
           /\ Current = tasks[i + 1] /\ i \in Nat /\ i < Len(tasks)
           /\ slot_state[S] = None /\ slot_scatter[S] = None /\ Running
           /\ \A s \in Slot : s # S => queue'[s] = queue[s]
           /\ \E s \in Slot, p \in Path : s = S /\ p = Current /\ Full(s, p)'
<1>1. i < Len(tasks)
  BY DEF HostInv, TasksInv
<1>2. PICK s \in Slot : s = S
  BY <1>1, CurrentIs
<1>3. PICK p \in Path : p = Current
  BY <1>1, CurrentIs
<1>4. slot_state[s] = None /\ slot_scatter[s] = None
  BY <1>2 DEF HostInv, PhaseInv
<1>5. Bare(s, p)
  <2>1. Bare(s, Current)
    BY <1>2 DEF HostInv, PhaseInv
  <2>2. QED
    BY <1>3, <2>1 DEF Bare
<1>6. Op(IF accumulate_on_gpu THEN "add" ELSE "d2h") = OutOf(p)
  BY <1>3 DEF Op, OutOf
<1>7. queue'[s] = Append(queue[s], OutOf(p)) /\ \A r \in Slot : r # s => queue'[r] = queue[r]
  BY <1>2, <1>6 DEF HostType
<1>8. Full(s, p)'
  BY <1>5, <1>7, Completes
<1>9. QED
  BY <1>1, <1>2, <1>3, <1>4, <1>7, <1>8, CurrentIs DEF Running

\* The subproblem of the iteration is in flight.
LEMMA OutputStep ==
    ASSUME CallInv, host_resident, HostType, HostInv, Output
    PROVE  HostGoal
<1> USE DEF HostInv
<1>1. /\ pc = "output" /\ pc' = "flush" /\ outcome' = outcome /\ outcome # "returned"
      /\ UNCHANGED <<accumulate_on_gpu, max_parallel, depth, tasks, jobs, future, caller, stage_in,
                     slot_scatter, dev, product, stage_out, added>>
      /\ queue' = [queue EXCEPT ![S] = Append(@, Op(IF accumulate_on_gpu THEN "add" ELSE "d2h"))]
      /\ slot_state' = [slot_state EXCEPT ![S] = Current] /\ i' = i + 1
  BY DEF Output, argVars, jobVars, CallInv
<1>2. PICK s \in Slot, p \in Path : s = S /\ p = Current /\ Full(s, p)'
  BY <1>1, OutputFacts
<1>3. /\ p \notin Issued /\ Len(p) = depth /\ p = tasks[i + 1] /\ i \in Nat /\ p # None
      /\ slot_state[s] = None /\ slot_scatter[s] = None /\ Running
      /\ \A r \in Slot : r # s => queue'[r] = queue[r]
  BY <1>1, <1>2, OutputFacts, BackwardCallAssumption
<1>4. slot_state'[s] = p /\ \A r \in Slot : r # s => slot_state'[r] = slot_state[r]
  BY <1>1, <1>2 DEF HostType
<1>5. Issued' = Issued \cup {p}
  BY <1>1, <1>3 DEF Issued
<1>6. Running' /\ future[p] = "none"
  BY <1>1, <1>3 DEF Running, FutureInv
<1>7. \A r \in Slot \ {s} : \A q : (Bare(r, q)' <=> Bare(r, q)) /\ (Full(r, q)' <=> Full(r, q))
  BY <1>1, <1>3, LaneSame
<1>8. LaneInv'
  <2>1. ASSUME NEW r \in Slot
        PROVE  /\ queue'[r] = <<>> \/ \E q \in Path : Bare(r, q)' \/ Full(r, q)'
               /\ slot_state'[r] # None =>
                     /\ slot_state'[r] \in Issued'
                     /\ \/ Full(r, slot_state[r])'
                        \/ queue'[r] = <<>> /\ (~accumulate_on_gpu' => stage_out'[depth'][r] = slot_state'[r])
               /\ slot_scatter'[r] # None => queue'[r] = <<>> /\ slot_state'[r] = None
    <3>1. CASE r = s
      <4>1. Full(r, p)' => Full(r, slot_state[r])'
        BY <1>4, <3>1 DEF Full
      <4>2. QED
        BY <1>1, <1>2, <1>3, <1>4, <1>5, <3>1, <4>1
    <3>2. CASE r # s
      BY <1>1, <1>3, <1>4, <1>5, <3>2, LaneKeeps
    <3>3. QED
      BY <3>1, <3>2
  <2>2. \A r, t \in Slot : slot_state'[r] = slot_state'[t] => r = t \/ slot_state'[r] = None
    <3>1. \A r \in Slot : slot_state[r] # p
      BY <1>3 DEF LaneInv
    <3>2. QED
      BY <1>4, <3>1 DEF LaneInv
  <2>3. QED
    BY <2>1, <2>2 DEF LaneInv
<1>9. PhaseInv'
  <2>1. \A r \in Slot : slot_state'[r] = None => queue'[r] = <<>>
    BY <1>2, <1>3, <1>4 DEF PhaseInv
  <2>2. QED
    BY <1>1, <2>1 DEF PhaseInv
<1>10. JobInv'
  BY <1>1 DEF JobInv
<1>11. FutureInv'
  <2>1. \A r \in Slot : slot_state'[r] # None => future'[slot_state'[r]] = "none"
    BY <1>1, <1>4, <1>6 DEF FutureInv
  <2>2. QED
    BY <1>1, <1>3, <1>5, <2>1 DEF FutureInv
<1>12. FreshInv'
  BY <1>1 DEF FreshInv
<1>13. AddedInv'
  <2>1. ASSUME NEW q \in Path, q \in Issued' => future'[q] \notin {"oom", "error"}
        PROVE  added'[depth'][q] = IF Owed(q)' THEN 0 ELSE 1
    <3>1. CASE q = p
      <4>1. added[depth][p] = 0
        BY <1>3 DEF AddedInv, Owed
      <4>2. Owed(p)'
        BY <1>2, <1>4 DEF Owed
      <4>3. QED
        BY <1>1, <3>1, <4>1, <4>2
    <3>2. CASE q # p
      <4>1. q \in Issued' <=> q \in Issued
        BY <1>5, <3>2
      <4>2. added[depth][q] = IF Owed(q) THEN 0 ELSE 1
        BY <1>1, <1>3, <2>1, <4>1 DEF AddedInv
      <4>3. \A r \in Slot : slot_state'[r] = q <=> slot_state[r] = q
        BY <1>3, <1>4, <3>2, BackwardCallAssumption
      <4>4. \A r \in Slot : slot_state[r] = q => (Full(r, q)' <=> Full(r, q))
        BY <1>3, <1>7, BackwardCallAssumption
      <4>5. Owed(q)' <=> Owed(q)
        BY <1>1, <4>1, <4>3, <4>4 DEF Owed
      <4>6. QED
        BY <1>1, <4>2, <4>5
    <3>3. QED
      BY <3>1, <3>2
  <2>2. QED
    BY <1>1, <2>1 DEF AddedInv
<1>14. QED
  BY <1>8, <1>9, <1>10, <1>11, <1>12, <1>13 DEF HostGoal

\* The gradients on the device cannot all be added: some are.
LEMMA SomeAddsStep ==
    ASSUME CallInv, host_resident, HostType, HostInv, IssueFails, queue' # queue
    PROVE  HostGoal
<1>1. /\ pc = "output" /\ pc' = "except" /\ outcome' = outcome /\ outcome # "returned"
      /\ accumulate_on_gpu
      /\ UNCHANGED <<accumulate_on_gpu, max_parallel, depth, tasks, i, jobs, future, caller, stage_in,
                     slot_state, slot_scatter, dev, product, stage_out, added>>
      /\ queue' = [queue EXCEPT ![S] = Append(@, Op("add"))]
  BY DEF IssueFails, Raise, argVars, slotVars, jobVars, CallInv
<1>2. queue' = [queue EXCEPT ![S] = Append(@, Op(IF accumulate_on_gpu THEN "add" ELSE "d2h"))]
  BY <1>1
<1>3. PICK s \in Slot, p \in Path : s = S /\ p = Current /\ Full(s, p)'
  BY <1>1, <1>2, OutputFacts
<1>4. /\ slot_state[s] = None /\ slot_scatter[s] = None
      /\ \A r \in Slot : r # s => queue'[r] = queue[r]
  BY <1>1, <1>2, <1>3, OutputFacts
<1>5. ~Running'
  BY <1>1 DEF Running
<1>6. JobInv' /\ FutureInv' /\ FreshInv' /\ AddedInv'
  BY <1>1, <1>5, QuietStep
<1>7. LaneInv'
  <2> DEFINE X == {s}
  <2>1. HostType /\ LaneInv
    BY DEF HostInv
  <2>2. \A r \in Slot \ X :
           /\ queue'[r] = queue[r] /\ stage_in'[r] = stage_in[r] /\ dev'[r] = dev[r]
           /\ product'[r] = product[r] /\ stage_out'[depth][r] = stage_out[depth][r]
           /\ slot_scatter'[r] = slot_scatter[r]
    BY <1>1, <1>4
  <2>3. \A r \in Slot \cap X :
              /\ queue'[r] = <<>> \/ \E q \in Path : Bare(r, q)' \/ Full(r, q)'
              /\ slot_state[r] # None =>
                     \/ Full(r, slot_state[r])'
                     \/ queue'[r] = <<>> /\ (~accumulate_on_gpu => stage_out'[depth][r] = slot_state[r])
              /\ slot_scatter'[r] # None => queue'[r] = <<>> /\ slot_state[r] = None
    BY <1>1, <1>3, <1>4
  <2>4. Issued' = Issued
    BY <1>1 DEF Issued
  <2> HIDE DEF X
  <2>5. QED
    BY <1>1, <2>1, <2>2, <2>3, <2>4, LaneExcept
<1>8. PhaseInv'
  BY <1>1, <1>5 DEF PhaseInv
<1>9. QED
  BY <1>6, <1>7, <1>8 DEF HostGoal

-----------------------------------------------------------------------------
\* The streams' steps.

\* What a step of a stream leaves alone, and what its slot was like.
LEMMA ExecFacts ==
    ASSUME CallInv, host_resident, HostType, HostInv, NEW s \in Slot, NEW kind, Exec(s, kind)
    PROVE  /\ UNCHANGED <<accumulate_on_gpu, max_parallel, pc, depth, tasks, i, exc, outcome, caller,
                          stage_in, slot_state, slot_scatter, future, jobs>>
           /\ caller = "idle" /\ queue[s] # <<>> /\ Head(queue[s]).op = kind
           /\ queue'[s] = Tail(queue[s]) /\ \A r \in Slot : r # s => queue'[r] = queue[r]
           /\ \E p \in Path : Bare(s, p) \/ Full(s, p)
           /\ slot_state[s] # None => slot_state[s] \in Issued /\ Full(s, slot_state[s])
           /\ Running /\ slot_state[s] = None => pc = "output" /\ s = S /\ Bare(s, Current)
           /\ slot_scatter[s] = None /\ pc # "attempt" /\ outcome # "returned"
<1>1. UNCHANGED <<accumulate_on_gpu, max_parallel, pc, depth, tasks, i, exc, outcome, caller,
                  stage_in, slot_state, slot_scatter, future, jobs>>
  BY DEF Exec, argVars, loopVars, slotVars, jobVars
<1>2. caller = "idle" /\ queue[s] # <<>> /\ Head(queue[s]).op = kind
  BY DEF Exec, EntryWait
<1>3. queue'[s] = Tail(queue[s]) /\ \A r \in Slot : r # s => queue'[r] = queue[r]
  BY DEF Exec, HostType
<1>4. \E p \in Path : Bare(s, p) \/ Full(s, p)
  BY <1>2 DEF HostInv, LaneInv
<1>5. slot_state[s] # None => slot_state[s] \in Issued /\ Full(s, slot_state[s])
  BY <1>2 DEF HostInv, LaneInv
<1>6. Running /\ slot_state[s] = None => pc = "output" /\ s = S /\ Bare(s, Current)
  BY <1>2 DEF HostInv, PhaseInv
<1>7. slot_scatter[s] = None /\ pc # "attempt" /\ outcome # "returned"
  BY <1>2 DEF HostInv, LaneInv, PhaseInv
<1>8. QED
  BY <1>1, <1>2, <1>3, <1>4, <1>5, <1>6, <1>7

\* The slot of the iteration, when a stream has done something.
LEMMA PhaseExec ==
    ASSUME CallInv, host_resident, HostType, HostInv, NEW s \in Slot, NEW kind, Exec(s, kind),
           \A r \in Slot : r # s => dev'[r] = dev[r] /\ product'[r] = product[r],
           \A q \in Path : Bare(s, q) => Bare(s, q)'
    PROVE  PhaseInv'
<1>1. /\ UNCHANGED <<accumulate_on_gpu, max_parallel, pc, tasks, i, outcome, stage_in,
                     slot_state, slot_scatter>>
      /\ \A r \in Slot : r # s => queue'[r] = queue[r]
      /\ Running /\ slot_state[s] = None => pc = "output" /\ s = S
      /\ pc # "attempt" /\ outcome # "returned"
  BY ExecFacts
<1>2. S' = S /\ Current' = Current /\ Running' = Running
  BY <1>1 DEF S, n_par, Current, Running
<1>3. \A r \in Slot \ {s} : \A q : (Bare(r, q)' <=> Bare(r, q)) /\ (Full(r, q)' <=> Full(r, q))
  BY <1>1, LaneSame
<1>4. pc = "output" => \A r \in Slot : Bare(r, Current) => Bare(r, Current)'
  <2> SUFFICES ASSUME pc = "output", NEW r \in Slot, Bare(r, Current) PROVE Bare(r, Current)'
    OBVIOUS
  <2>1. i < Len(tasks)
    BY DEF HostInv, TasksInv
  <2>2. PICK p \in Path : p = Current
    BY <2>1, CurrentIs
  <2>3. Bare(r, p)
    BY <2>2 DEF Bare
  <2>4. Bare(r, p)'
    BY <1>3, <2>3
  <2>5. QED
    BY <1>2, <2>2, <2>4 DEF Bare
<1>5. ASSUME NEW r \in Slot
      PROVE  /\ pc' = "gather" /\ r = S' => slot_state'[r] = None /\ slot_scatter'[r] = None
             /\ pc' = "output" /\ r = S' =>
                   slot_state'[r] = None /\ slot_scatter'[r] = None /\ Bare(r, Current)'
             /\ Running' /\ slot_state'[r] = None => queue'[r] = <<>> \/ (pc' = "output" /\ r = S')
             /\ ~(pc' = "attempt" \/ outcome' = "returned")
  <2>1. /\ pc = "gather" /\ r = S => slot_state[r] = None /\ slot_scatter[r] = None
        /\ pc = "output" /\ r = S =>
              slot_state[r] = None /\ slot_scatter[r] = None /\ Bare(r, Current)
        /\ Running /\ slot_state[r] = None => queue[r] = <<>> \/ (pc = "output" /\ r = S)
    BY DEF HostInv, PhaseInv
  <2>2. QED
    BY <1>1, <1>2, <1>4, <2>1
<1>6. QED
  BY <1>5 DEF PhaseInv

\* The inputs are copied in, or the kernel runs.
LEMMA WorkStep ==
    ASSUME CallInv, host_resident, HostType, HostInv, NEW s \in Slot, Load(s) \/ Kernel(s)
    PROVE  HostGoal
<1>1. PICK kind : Exec(s, kind)
  BY DEF Load, Kernel
<1>2. /\ UNCHANGED <<accumulate_on_gpu, max_parallel, pc, depth, tasks, i, exc, outcome, caller,
                     stage_in, slot_state, slot_scatter, future, jobs>>
      /\ queue[s] # <<>>
      /\ \A r \in Slot : r # s => queue'[r] = queue[r]
      /\ \E p \in Path : Bare(s, p) \/ Full(s, p)
      /\ slot_state[s] # None => slot_state[s] \in Issued /\ Full(s, slot_state[s])
      /\ slot_scatter[s] = None /\ pc # "attempt" /\ outcome # "returned"
  BY <1>1, ExecFacts
<1>3. /\ UNCHANGED <<stage_out, added>>
      /\ \A r \in Slot : r # s => dev'[r] = dev[r] /\ product'[r] = product[r]
  BY DEF Load, Kernel, HostType
<1>4. \A p \in Path : (Bare(s, p) => Bare(s, p)') /\ (Full(s, p) => Full(s, p)')
  BY LoadMoves
<1>5. \A r \in Slot \ {s} : \A q : (Bare(r, q)' <=> Bare(r, q)) /\ (Full(r, q)' <=> Full(r, q))
  BY <1>2, <1>3, LaneSame
<1>6. \A p \in Path : slot_state[s] = p => Full(s, p) /\ Full(s, p)'
  <2> SUFFICES ASSUME NEW p \in Path, slot_state[s] = p PROVE Full(s, p)
    BY <1>4
  <2>1. Full(s, slot_state[s])
    BY <1>2, BackwardCallAssumption
  <2>2. QED
    BY <2>1 DEF Full
<1>7. JobInv' /\ FutureInv' /\ FreshInv' /\ AddedInv'
  <2>1. \A r \in Slot : \A q \in Path : slot_state[r] = q => (Full(r, q)' <=> Full(r, q))
    BY <1>5, <1>6
  <2>2. Running' = Running
    BY <1>2 DEF Running
  <2>3. QED
    BY <1>2, <1>3, <2>1, <2>2, QuietStep
<1>8. LaneInv'
  <2> DEFINE X == {s}
  <2>1. HostType /\ LaneInv
    BY DEF HostInv
  <2>2. \A r \in Slot \ X :
           /\ queue'[r] = queue[r] /\ stage_in'[r] = stage_in[r] /\ dev'[r] = dev[r]
           /\ product'[r] = product[r] /\ stage_out'[depth][r] = stage_out[depth][r]
           /\ slot_scatter'[r] = slot_scatter[r]
    BY <1>2, <1>3
  <2>3. \E q \in Path : Bare(s, q)' \/ Full(s, q)'
    BY <1>2, <1>4
  <2>4. slot_state[s] # None => Full(s, slot_state[s])'
    <3> SUFFICES ASSUME slot_state[s] # None PROVE Full(s, slot_state[s])'
      OBVIOUS
    <3>1. PICK p \in Path : slot_state[s] = p
      BY DEF HostType, Name
    <3>2. Full(s, p)'
      BY <1>6, <3>1
    <3>3. QED
      BY <1>2, <3>1, <3>2 DEF Full
  <2>5. \A r \in Slot \cap X :
              /\ queue'[r] = <<>> \/ \E q \in Path : Bare(r, q)' \/ Full(r, q)'
              /\ slot_state[r] # None =>
                     \/ Full(r, slot_state[r])'
                     \/ queue'[r] = <<>> /\ (~accumulate_on_gpu => stage_out'[depth][r] = slot_state[r])
              /\ slot_scatter'[r] # None => queue'[r] = <<>> /\ slot_state[r] = None
    BY <1>2, <2>3, <2>4
  <2>6. Issued' = Issued
    BY <1>2 DEF Issued
  <2> HIDE DEF X
  <2>7. QED
    BY <1>2, <2>1, <2>2, <2>5, <2>6, LaneExcept
<1>9. PhaseInv'
  BY <1>1, <1>3, <1>4, PhaseExec
<1>10. QED
  BY <1>7, <1>8, <1>9 DEF HostGoal

\* The last operation of a subproblem: what was on its stream, and in which slot.
LEMMA LastFacts ==
    ASSUME CallInv, host_resident, HostType, HostInv, NEW s \in Slot, NEW kind \in {"add", "d2h"},
           Exec(s, kind)
    PROVE  /\ (kind = "add") <=> accumulate_on_gpu
           /\ \A q : ~Bare(s, q)
           /\ Running => slot_state[s] # None
           /\ queue'[s] = <<>>
           /\ \E p \in Path : product[s] = p /\ slot_state[s] \in {p, None} /\ Full(s, p)
<1>1. /\ queue[s] # <<>> /\ Head(queue[s]).op = kind /\ queue'[s] = Tail(queue[s])
      /\ \E p \in Path : Bare(s, p) \/ Full(s, p)
      /\ slot_state[s] # None => slot_state[s] \in Issued /\ Full(s, slot_state[s])
      /\ Running /\ slot_state[s] = None => Bare(s, Current)
  BY ExecFacts
<1>2. \A q : ~Bare(s, q)
  BY <1>1, LaneForms
<1>3. PICK p \in Path : Full(s, p)
  BY <1>1, <1>2
<1>4. /\ kind = "add" => accumulate_on_gpu /\ product[s] = p /\ Tail(queue[s]) = <<>>
      /\ kind = "d2h" => ~accumulate_on_gpu /\ product[s] = p /\ Tail(queue[s]) = <<>>
  BY <1>1, <1>3, LaneForms
<1>5. slot_state[s] \in {p, None}
  <2> SUFFICES ASSUME slot_state[s] # None PROVE slot_state[s] = p
    OBVIOUS
  <2>1. product[s] = slot_state[s]
    BY <1>1, LaneForms
  <2>2. QED
    BY <1>4, <2>1
<1>6. Running => slot_state[s] # None
  BY <1>1, <1>2
<1>7. QED
  BY <1>1, <1>2, <1>3, <1>4, <1>5, <1>6

\* The gradients are copied back.
LEMMA BackStep ==
    ASSUME CallInv, host_resident, HostType, HostInv, NEW s \in Slot, D2h(s)
    PROVE  HostGoal
<1>1. Exec(s, "d2h")
  BY DEF D2h
<1>2. /\ UNCHANGED <<accumulate_on_gpu, max_parallel, pc, depth, tasks, i, exc, outcome, caller,
                     stage_in, slot_state, slot_scatter, future, jobs>>
      /\ queue[s] # <<>>
      /\ \A r \in Slot : r # s => queue'[r] = queue[r]
      /\ slot_scatter[s] = None /\ pc # "attempt" /\ outcome # "returned"
  BY <1>1, ExecFacts
<1>3. /\ ~accumulate_on_gpu /\ (\A q : ~Bare(s, q)) /\ queue'[s] = <<>>
      /\ slot_state[s] \in {product[s], None}
  BY <1>1, LastFacts
<1>4. UNCHANGED <<dev, product, added>> /\ stage_out' = [stage_out EXCEPT ![depth][s] = product[s]]
  BY DEF D2h
<1>5. /\ stage_out'[depth][s] = product[s]
      /\ \A d \in Depth : \A r \in Slot : ~(d = depth /\ r = s) => stage_out'[d][r] = stage_out[d][r]
  BY <1>4 DEF HostType
<1>6. JobInv' /\ FutureInv' /\ FreshInv' /\ AddedInv'
  <2>1. Running' = Running
    BY <1>2 DEF Running
  <2>2. QED
    BY <1>2, <1>3, <1>4, <1>5, <2>1, QuietStep
<1>7. LaneInv'
  <2> DEFINE X == {s}
  <2>1. HostType /\ LaneInv /\ depth \in Depth
    BY DEF HostInv, HostType
  <2>2. \A r \in Slot \ X :
           /\ queue'[r] = queue[r] /\ stage_in'[r] = stage_in[r] /\ dev'[r] = dev[r]
           /\ product'[r] = product[r] /\ stage_out'[depth][r] = stage_out[depth][r]
           /\ slot_scatter'[r] = slot_scatter[r]
    BY <1>2, <1>4, <1>5, <2>1
  <2>3. \A r \in Slot \cap X :
              /\ queue'[r] = <<>> \/ \E q \in Path : Bare(r, q)' \/ Full(r, q)'
              /\ slot_state[r] # None =>
                     \/ Full(r, slot_state[r])'
                     \/ queue'[r] = <<>> /\ (~accumulate_on_gpu => stage_out'[depth][r] = slot_state[r])
              /\ slot_scatter'[r] # None => queue'[r] = <<>> /\ slot_state[r] = None
    BY <1>2, <1>3, <1>5
  <2>4. Issued' = Issued
    BY <1>2 DEF Issued
  <2> HIDE DEF X
  <2>5. QED
    BY <1>2, <2>1, <2>2, <2>3, <2>4, LaneExcept
<1>8. PhaseInv'
  BY <1>1, <1>3, <1>4, PhaseExec
<1>9. QED
  BY <1>6, <1>7, <1>8 DEF HostGoal

\* The gradients are added on the device.
LEMMA DeviceAddStep ==
    ASSUME CallInv, host_resident, HostType, HostInv, NEW s \in Slot, DeviceAdd(s)
    PROVE  HostGoal
<1> USE DEF HostInv
<1>1. Exec(s, "add")
  BY DEF DeviceAdd
<1>2. /\ UNCHANGED <<accumulate_on_gpu, max_parallel, pc, depth, tasks, i, exc, outcome, caller,
                     stage_in, slot_state, slot_scatter, future, jobs>>
      /\ caller = "idle"
      /\ \A r \in Slot : r # s => queue'[r] = queue[r]
      /\ slot_state[s] # None => slot_state[s] \in Issued
      /\ slot_scatter[s] = None /\ pc # "attempt" /\ outcome # "returned"
  BY <1>1, ExecFacts
<1>3. PICK p \in Path : product[s] = p /\ slot_state[s] \in {p, None} /\ Full(s, p)
  BY <1>1, LastFacts
<1>4. accumulate_on_gpu /\ (\A q : ~Bare(s, q)) /\ queue'[s] = <<>> /\ (Running => slot_state[s] = p)
  BY <1>1, <1>3, LastFacts
<1>5. UNCHANGED <<dev, product, stage_out>> /\ added' = Bumped(added, depth, p)
  BY <1>3 DEF DeviceAdd, Accumulators, Bumped
<1>6. depth \in Depth /\ depth \in Nat
  BY DeepestType DEF HostType, Depth
<1>7. \A d \in Depth : \A q \in Path :
         added'[d][q] = IF d = depth /\ q = p THEN added[d][q] + 1 ELSE added[d][q]
  <2>1. added \in [Depth -> [Path -> Nat]]
    BY DEF HostType
  <2>2. QED
    BY <1>5, <1>6, <2>1, BumpType
<1>8. Issued' = Issued /\ Running' = Running
  BY <1>2 DEF Issued, Running
<1>9. JobInv' /\ FutureInv'
  BY <1>2, <1>5, <1>8 DEF JobInv, FutureInv
<1>10. FreshInv'
  <2>1. \A d \in Depth : d > depth => d # depth
    BY <1>6 DEF Depth
  <2>2. QED
    BY <1>2, <1>7, <2>1 DEF FreshInv
<1>11. LaneInv'
  <2> DEFINE X == {s}
  <2>1. HostType /\ LaneInv
    OBVIOUS
  <2>2. \A r \in Slot \ X :
           /\ queue'[r] = queue[r] /\ stage_in'[r] = stage_in[r] /\ dev'[r] = dev[r]
           /\ product'[r] = product[r] /\ stage_out'[depth][r] = stage_out[depth][r]
           /\ slot_scatter'[r] = slot_scatter[r]
    BY <1>2, <1>5
  <2>3. \A r \in Slot \cap X :
              /\ queue'[r] = <<>> \/ \E q \in Path : Bare(r, q)' \/ Full(r, q)'
              /\ slot_state[r] # None =>
                     \/ Full(r, slot_state[r])'
                     \/ queue'[r] = <<>> /\ (~accumulate_on_gpu => stage_out'[depth][r] = slot_state[r])
              /\ slot_scatter'[r] # None => queue'[r] = <<>> /\ slot_state[r] = None
    BY <1>2, <1>4
  <2> HIDE DEF X
  <2>4. QED
    BY <1>2, <1>8, <2>1, <2>2, <2>3, LaneExcept
<1>12. PhaseInv'
  BY <1>1, <1>4, <1>5, PhaseExec
<1>13. AddedInv'
  <2>1. ASSUME Running, NEW q \in Path, q \in Issued' => future'[q] \notin {"oom", "error"}
        PROVE  added'[depth'][q] = IF Owed(q)' THEN 0 ELSE 1
    <3>1. added[depth][q] = IF Owed(q) THEN 0 ELSE 1
      BY <1>2, <1>8, <2>1 DEF AddedInv
    <3>2. slot_state[s] = p /\ p \in Issued /\ p # None
      BY <1>2, <1>4, <2>1, BackwardCallAssumption
    <3>3. \A r \in Slot : slot_state[r] = p => r = s
      BY <3>2 DEF LaneInv
    <3>4. CASE q = p
      <4>1. Owed(p)
        BY <1>3, <1>4, <3>2 DEF Owed
      <4>2. ~Full(s, p)'
        BY <1>4, ShortLists DEF Full
      <4>3. ~Owed(p)'
        BY <1>2, <1>4, <1>8, <3>2, <3>3, <4>2 DEF Owed
      <4>4. QED
        BY <1>2, <1>6, <1>7, <3>1, <3>4, <4>1, <4>3
    <3>5. CASE q # p
      <4>1. \A r \in Slot : slot_state[r] = q => (Full(r, q)' <=> Full(r, q))
        BY <1>2, <1>5, <3>2, <3>5, LaneSame
      <4>2. Owed(q)' <=> Owed(q)
        BY <1>2, <1>8, <4>1 DEF Owed
      <4>3. QED
        BY <1>2, <1>6, <1>7, <3>1, <3>5, <4>2
    <3>6. QED
      BY <3>4, <3>5
  <2>2. QED
    BY <1>2, <1>8, <2>1 DEF AddedInv
<1>14. QED
  BY <1>9, <1>10, <1>11, <1>12, <1>13 DEF HostGoal

-----------------------------------------------------------------------------
\* The next attempt, and the workers' steps.

\* The attempt is abandoned for one that is a level deeper.
LEMMA EscalateStep ==
    ASSUME CallInv, host_resident, HostType, HostInv, Escalate
    PROVE  HostGoal
<1> USE DEF HostInv
<1>1. /\ UNCHANGED <<accumulate_on_gpu, outcome, caller, queue, stage_out, future, jobs, added>>
      /\ pc' = "attempt" /\ i' = 0 /\ outcome # "returned" /\ caller = "idle"
      /\ \A s \in Slot : queue[s] = <<>>
      /\ \A s \in Slot : slot_state'[s] = None /\ slot_scatter'[s] = None
  BY DEF Escalate, DeviceIdle, argVars, gpuVars, jobVars, CallInv
<1>2. depth' = depth + 1 /\ depth + 1 \in Depth /\ depth \in Nat
  BY EscalateFacts, DeepestType DEF HostType, Depth
<1>3. ~Running' /\ Issued' = {}
  BY <1>1 DEF Running, Issued
<1>4. \A d \in Depth : d >= depth + 1 =>
         /\ jobs[d] = <<>> /\ \A p \in Path : added[d][p] = 0
         /\ \A p \in Path : Len(p) = d => future[p] = "none"
  <2>1. \A d \in Depth : d >= depth + 1 => d > depth
    BY <1>2, DeepestType DEF Depth
  <2>2. QED
    BY <2>1 DEF FreshInv
<1>5. LaneInv'
  BY <1>1 DEF LaneInv
<1>6. PhaseInv'
  BY <1>1, <1>3 DEF PhaseInv
<1>7. JobInv'
  <2>1. Range(jobs[depth + 1]) = {}
    <3>1. jobs[depth + 1] = <<>>
      BY <1>2, <1>4
    <3>2. QED
      BY <3>1 DEF Range
  <2>2. ASSUME NEW d \in Depth
        PROVE  /\ \A k, l \in DOMAIN jobs[d] : jobs[d][k].task = jobs[d][l].task => k = l
               /\ \A j \in Range(jobs[d]) :
                     /\ Len(j.task) = d /\ future[j.task] = "queued"
                     /\ ~accumulate_on_gpu => stage_out[d][j.slot] = j.task
                     /\ d = depth + 1 => slot_scatter'[j.slot] = j.task
    BY <2>1 DEF JobInv
  <2>3. QED
    BY <1>1, <1>2, <2>2 DEF JobInv
<1>8. FutureInv'
  <2>1. \A p \in Path : Len(p) = depth' => future'[p] = "none"
    BY <1>1, <1>2, <1>4
  <2>2. QED
    BY <1>1, <1>3, <2>1 DEF FutureInv
<1>9. FreshInv'
  <2>1. \A d \in Depth : d > depth' \/ (d = depth' /\ pc' = "attempt") => d >= depth + 1
    BY <1>2, DeepestType DEF Depth
  <2>2. QED
    BY <1>1, <1>2, <1>4, <2>1 DEF FreshInv
<1>10. AddedInv'
  BY <1>1, <1>3 DEF AddedInv
<1>11. QED
  BY <1>5, <1>6, <1>7, <1>8, <1>9, <1>10 DEF HostGoal

\* What a worker takes, and what it leaves.
LEMMA TakeFacts ==
    ASSUME host_resident, HostType, HostInv, NEW d \in Depth, NEW state, Take(d, state)
    PROVE  /\ UNCHANGED <<accumulate_on_gpu, max_parallel, pc, depth, tasks, i, outcome, caller, queue,
                          dev, product, stage_in, stage_out, slot_state, slot_scatter>>
           /\ jobs[d] # <<>> /\ jobs'[d] = Tail(jobs[d])
           /\ \A e \in Depth : e # d => jobs'[e] = jobs[e]
           /\ \E t \in Path, s \in Slot :
                 /\ t = Head(jobs[d]).task /\ s = Head(jobs[d]).slot /\ Head(jobs[d]) \in Range(jobs[d])
                 /\ Len(t) = d /\ future[t] = "queued"
                 /\ ~accumulate_on_gpu => stage_out[d][s] = t
                 /\ d = depth => slot_scatter[s] = t
                 /\ \A q \in Path : future'[q] = IF q = t THEN state ELSE future[q]
                 /\ \A j \in Range(jobs'[d]) : j \in Range(jobs[d]) /\ j.task # t
                 /\ \A j \in Range(jobs[d]) : j.task # t => j \in Range(jobs'[d])
                 /\ \A k, l \in DOMAIN jobs'[d] : jobs'[d][k].task = jobs'[d][l].task => k = l
<1> DEFINE q == jobs[d]
           r == Tail(jobs[d])
<1>1. UNCHANGED <<accumulate_on_gpu, max_parallel, pc, depth, tasks, i, outcome, caller, queue,
                  dev, product, stage_in, stage_out, slot_state, slot_scatter>>
  BY DEF Take, argVars, loopVars, gpuVars, slotVars
<1>2. q # <<>> /\ jobs'[d] = r /\ \A e \in Depth : e # d => jobs'[e] = jobs[e]
  BY DEF Take, HostType
<1>3. q \in Seq(Job)
  BY DEF HostType
<1>4. /\ Head(q) = q[1] /\ 1 \in DOMAIN q /\ Head(q) \in Range(q)
      /\ \A k \in DOMAIN r : k + 1 \in DOMAIN q /\ r[k] = q[k + 1]
      /\ Range(q) = {Head(q)} \cup Range(r)
  BY <1>2, <1>3, TailIs
<1>5. DOMAIN q \subseteq Nat \ {0} /\ DOMAIN r \subseteq Nat \ {0}
  <2>1. r \in Seq(Job)
    BY <1>2, <1>3, TailIs
  <2>2. QED
    BY <1>3, <2>1
<1>6. \A k, l \in DOMAIN q : q[k].task = q[l].task => k = l
  BY DEF HostInv, JobInv
<1>7. PICK t \in Path, s \in Slot : t = Head(q).task /\ s = Head(q).slot
  BY <1>4, JobsAre DEF HostInv
<1>8. /\ Len(t) = d /\ future[t] = "queued"
      /\ ~accumulate_on_gpu => stage_out[d][s] = t
      /\ d = depth => slot_scatter[s] = t
  BY <1>4, <1>7 DEF HostInv, JobInv
<1>9. \A p \in Path : future'[p] = IF p = t THEN state ELSE future[p]
  BY <1>7 DEF Take, HostType
<1> HIDE DEF q, r
<1>10. \A j \in Range(r) : j \in Range(q) /\ j.task # t
  <2> SUFFICES ASSUME NEW j \in Range(r) PROVE j \in Range(q) /\ j.task # t
    OBVIOUS
  <2>1. PICK k \in DOMAIN r : r[k] = j
    BY DEF Range
  <2>2. k + 1 \in DOMAIN q /\ j = q[k + 1] /\ k + 1 # 1
    BY <1>4, <1>5, <2>1
  <2>3. j.task # q[1].task
    BY <1>4, <1>6, <2>2
  <2>4. QED
    BY <1>4, <1>7, <2>3
<1>11. \A j \in Range(q) : j.task # t => j \in Range(r)
  BY <1>4, <1>7
<1>12. \A k, l \in DOMAIN r : r[k].task = r[l].task => k = l
  <2> SUFFICES ASSUME NEW k \in DOMAIN r, NEW l \in DOMAIN r, r[k].task = r[l].task PROVE k = l
    OBVIOUS
  <2>1. k + 1 = l + 1
    BY <1>4, <1>6
  <2>2. QED
    BY <1>5, <2>1
<1>13. QED
  BY <1>1, <1>2, <1>4, <1>7, <1>8, <1>9, <1>10, <1>11, <1>12 DEF q, r

\* A worker has added a subproblem's gradients, or failed to.
LEMMA TakeStep ==
    ASSUME CallInv, host_resident, HostType, HostInv, NEW d \in Depth,
           NEW state \in {"done", "oom", "error"}, Take(d, state),
           \/ state = "done" /\ added' = Scattered(d, Head(jobs[d]).slot)
           \/ ~accumulate_on_gpu /\ state # "done" /\ added' \in {added, Scattered(d, Head(jobs[d]).slot)}
    PROVE  HostGoal
<1> USE DEF HostInv
<1>1. /\ UNCHANGED <<accumulate_on_gpu, max_parallel, pc, depth, tasks, i, outcome, caller, queue,
                     dev, product, stage_in, stage_out, slot_state, slot_scatter>>
      /\ jobs[d] # <<>> /\ jobs'[d] = Tail(jobs[d])
      /\ \A e \in Depth : e # d => jobs'[e] = jobs[e]
  BY TakeFacts
<1>2. PICK t \in Path, s \in Slot :
         /\ t = Head(jobs[d]).task /\ s = Head(jobs[d]).slot
         /\ Len(t) = d /\ future[t] = "queued"
         /\ ~accumulate_on_gpu => stage_out[d][s] = t
         /\ d = depth => slot_scatter[s] = t
         /\ \A q \in Path : future'[q] = IF q = t THEN state ELSE future[q]
         /\ \A j \in Range(jobs'[d]) : j \in Range(jobs[d]) /\ j.task # t
         /\ \A j \in Range(jobs[d]) : j.task # t => j \in Range(jobs'[d])
         /\ \A k, l \in DOMAIN jobs'[d] : jobs'[d][k].task = jobs'[d][l].task => k = l
  BY TakeFacts
<1>3. Issued' = Issued /\ Running' = Running
  BY <1>1 DEF Issued, Running
<1>4. depth \in Depth
  BY DEF HostType
<1>5. /\ \A e \in Depth : \A q \in Path : ~(e = d /\ q = t) => added'[e][q] = added[e][q]
      /\ state = "done" =>
            added'[d][t] = IF accumulate_on_gpu THEN added[d][t] ELSE added[d][t] + 1
      /\ accumulate_on_gpu => added' = added
  <2>1. added \in [Depth -> [Path -> Nat]]
    BY DEF HostType
  <2>2. CASE accumulate_on_gpu
    BY <1>2, <2>2, ScatteredIs
  <2>3. CASE ~accumulate_on_gpu
    <3>1. Scattered(d, s) = Bumped(added, d, t)
      BY <1>2, <2>3, ScatteredIs
    <3>2. \A e \in Depth : \A q \in Path :
             Bumped(added, d, t)[e][q] = IF e = d /\ q = t THEN added[e][q] + 1 ELSE added[e][q]
      BY <2>1, BumpType
    <3>3. added' \in {added, Bumped(added, d, t)} /\ (state = "done" => added' = Bumped(added, d, t))
      BY <1>2, <3>1
    <3>4. QED
      BY <1>2, <2>3, <3>2, <3>3
  <2>4. QED
    BY <2>2, <2>3
<1>6. LaneInv'
  <2>1. HostType /\ LaneInv
    OBVIOUS
  <2> DEFINE X == {}
  <2>2. \A r \in Slot \ X :
           /\ queue'[r] = queue[r] /\ stage_in'[r] = stage_in[r] /\ dev'[r] = dev[r]
           /\ product'[r] = product[r] /\ stage_out'[depth][r] = stage_out[depth][r]
           /\ slot_scatter'[r] = slot_scatter[r]
    BY <1>1
  <2>3. \A r \in Slot \cap X : FALSE
    OBVIOUS
  <2> HIDE DEF X
  <2>4. QED
    BY <1>1, <1>3, <2>1, <2>2, <2>3, LaneExcept
<1>7. PhaseInv'
  BY <1>1, PhaseSame
<1>8. JobInv'
  <2>1. ASSUME NEW e \in Depth
        PROVE  /\ \A k, l \in DOMAIN jobs'[e] : jobs'[e][k].task = jobs'[e][l].task => k = l
               /\ \A j \in Range(jobs'[e]) :
                     /\ Len(j.task) = e /\ future'[j.task] = "queued"
                     /\ ~accumulate_on_gpu => stage_out[e][j.slot] = j.task
                     /\ e = depth => slot_scatter[j.slot] = j.task
    <3>1. \A k, l \in DOMAIN jobs'[e] : jobs'[e][k].task = jobs'[e][l].task => k = l
      <4>1. CASE e = d
        BY <1>2, <4>1
      <4>2. CASE e # d
        <5>1. jobs'[e] = jobs[e]
          BY <1>1, <4>2
        <5>2. \A k, l \in DOMAIN jobs[e] : jobs[e][k].task = jobs[e][l].task => k = l
          BY DEF JobInv
        <5>3. QED
          BY <5>1, <5>2
      <4>3. QED
        BY <4>1, <4>2
    <3>2. ASSUME NEW j \in Range(jobs'[e])
          PROVE  /\ Len(j.task) = e /\ future'[j.task] = "queued"
                 /\ ~accumulate_on_gpu => stage_out[e][j.slot] = j.task
                 /\ e = depth => slot_scatter[j.slot] = j.task
      <4>1. j \in Range(jobs[e])
        BY <1>1, <1>2
      <4>2. /\ j.task \in Path /\ Len(j.task) = e /\ future[j.task] = "queued"
            /\ ~accumulate_on_gpu => stage_out[e][j.slot] = j.task
            /\ e = depth => slot_scatter[j.slot] = j.task
        BY <4>1, JobsAre DEF JobInv
      <4>3. j.task # t
        BY <1>1, <1>2, <4>2
      <4>4. QED
        BY <1>2, <4>2, <4>3
    <3>3. QED
      BY <3>1, <3>2
  <2>2. QED
    BY <1>1, <2>1 DEF JobInv
<1>9. FutureInv'
  <2>1. ASSUME NEW p \in Path, Len(p) = depth, future'[p] = "queued"
        PROVE  \E j \in Range(jobs'[depth]) : j.task = p
    <3>1. p # t /\ future[p] = "queued"
      BY <1>2, <2>1
    <3>2. PICK j \in Range(jobs[depth]) : j.task = p
      BY <2>1, <3>1 DEF FutureInv
    <3>3. QED
      BY <1>1, <1>2, <1>4, <3>1, <3>2
  <2>2. ASSUME Running, NEW p \in Path, Len(p) = depth, future'[p] \in {"queued", "oom", "error"}
        PROVE  \E r \in Slot : slot_scatter[r] = p
    BY <1>2, <2>2 DEF FutureInv
  <2>3. \A r \in Slot : slot_state[r] # None => future'[slot_state[r]] = "none"
    <3>1. \A r \in Slot : slot_state[r] # None => slot_state[r] \in Path
      BY DEF HostType, Name
    <3>2. QED
      BY <1>2, <3>1 DEF FutureInv
  <2>4. \A p \in Path : Len(p) = depth /\ p \notin Issued => future'[p] = "none"
    BY <1>2 DEF FutureInv
  <2>5. accumulate_on_gpu => \A p \in Path : future'[p] \notin {"oom", "error"}
    BY <1>2 DEF FutureInv
  <2>6. QED
    BY <1>1, <1>3, <2>1, <2>2, <2>3, <2>4, <2>5 DEF FutureInv
<1>10. FreshInv'
  <2>1. ASSUME NEW e \in Depth, e > depth \/ (e = depth /\ pc = "attempt")
        PROVE  /\ jobs'[e] = <<>> /\ \A p \in Path : added'[e][p] = 0
               /\ \A p \in Path : Len(p) = e => future'[p] = "none"
    <3>1. /\ jobs[e] = <<>> /\ \A p \in Path : added[e][p] = 0
          /\ \A p \in Path : Len(p) = e => future[p] = "none"
      BY <2>1 DEF FreshInv
    <3>2. e # d
      BY <1>1, <3>1
    <3>3. QED
      BY <1>1, <1>2, <1>5, <3>1, <3>2
  <2>2. caller = "busy" /\ accumulate_on_gpu => \A p \in Path : added'[depth][p] = 0
    BY <1>5 DEF FreshInv
  <2>3. pc = "attempt" => i = 0 /\ caller = "idle" /\ \A r \in Slot : slot_scatter[r] = None
    BY DEF FreshInv
  <2>4. QED
    BY <1>1, <2>1, <2>2, <2>3 DEF FreshInv
<1>11. AddedInv'
  <2>1. ASSUME Running, NEW p \in Path, p \in Issued => future'[p] \notin {"oom", "error"}
        PROVE  added'[depth][p] = IF Owed(p)' THEN 0 ELSE 1
    <3>1. \A r \in Slot : Full(r, p)' <=> Full(r, p)
      BY <1>1, LaneSame
    <3>2. CASE p # t
      <4>1. future'[p] = future[p] /\ added'[depth][p] = added[depth][p]
        BY <1>2, <1>4, <1>5, <3>2
      <4>2. added[depth][p] = IF Owed(p) THEN 0 ELSE 1
        BY <2>1, <4>1 DEF AddedInv
      <4>3. Owed(p)' <=> Owed(p)
        BY <1>1, <1>3, <3>1, <4>1 DEF Owed
      <4>4. QED
        BY <4>1, <4>2, <4>3
    <3>3. CASE p = t /\ d # depth
      <4>1. t \notin Issued
        BY <1>2, <3>3, IssuedIs
      <4>2. added[depth][t] = 0
        BY <2>1, <3>3, <4>1 DEF AddedInv, Owed
      <4>3. Owed(t)'
        BY <1>3, <4>1 DEF Owed
      <4>4. QED
        BY <1>4, <1>5, <3>3, <4>2, <4>3
    <3>4. CASE p = t /\ d = depth
      <4>1. t \in Issued
        BY <1>2, <3>4 DEF FutureInv
      <4>2. state = "done" /\ future'[t] = "done"
        BY <1>2, <2>1, <3>4, <4>1
      <4>3. added[depth][t] = IF Owed(t) THEN 0 ELSE 1
        BY <1>2, <2>1, <3>4 DEF AddedInv
      <4>4. \A r \in Slot : slot_state[r] # t
        BY <1>2, BackwardCallAssumption DEF FutureInv
      <4>5. Owed(t) <=> ~accumulate_on_gpu
        BY <1>2, <4>1, <4>4 DEF Owed
      <4>6. ~Owed(t)'
        BY <1>1, <1>3, <4>1, <4>2, <4>4 DEF Owed
      <4>7. QED
        BY <1>5, <3>4, <4>2, <4>3, <4>5, <4>6
    <3>5. QED
      BY <3>2, <3>3, <3>4
  <2>2. ASSUME outcome = "returned"
        PROVE  /\ \A p \in Path : added'[depth][p] = IF p \in Range(tasks) THEN 1 ELSE 0
               /\ jobs'[depth] = <<>>
    <3>1. jobs[depth] = <<>> /\ \A p \in Path : added[depth][p] = IF p \in Range(tasks) THEN 1 ELSE 0
      BY <2>2 DEF AddedInv
    <3>2. d # depth
      BY <1>1, <3>1
    <3>3. QED
      BY <1>1, <1>4, <1>5, <3>1, <3>2
  <2>3. QED
    BY <1>1, <1>3, <2>1, <2>2 DEF AddedInv
<1>12. QED
  BY <1>6, <1>7, <1>8, <1>9, <1>10, <1>11 DEF HostGoal

-----------------------------------------------------------------------------
\* Every step of the host path.

\* Every action keeps the invariant of the host path.
LEMMA HostGoalStep ==
    ASSUME CallInv, HostType, HostInv, [Next]_vars, host_resident
    PROVE  HostGoal
<1>1. CASE UNCHANGED vars
  <2>1. /\ UNCHANGED <<accumulate_on_gpu, max_parallel, pc, depth, tasks, i, outcome, caller, queue,
                       dev, product, stage_in, stage_out, slot_state, slot_scatter, future, jobs, added>>
    BY <1>1 DEF vars, callVars, hostVars, gpuVars, slotVars, jobVars
  <2>2. PhaseInv'
    BY <2>1, PhaseSame DEF HostInv
  <2>3. Issued' = Issued /\ Running' = Running
    BY <2>1 DEF Issued, Running
  <2>4. \A r \in Slot : \A p : (Bare(r, p)' <=> Bare(r, p)) /\ (Full(r, p)' <=> Full(r, p))
    BY <2>1, LaneSame
  <2>5. JobInv' /\ FutureInv' /\ FreshInv'
    BY <2>1, <2>3 DEF HostInv, JobInv, FutureInv, FreshInv
  <2>6. AddedInv'
    <3>1. \A p \in Path : Owed(p)' <=> Owed(p)
      BY <2>1, <2>3, <2>4 DEF Owed
    <3>2. QED
      BY <2>1, <2>3, <3>1 DEF HostInv, AddedInv
  <2>7. LaneInv'
    <3>1. HostType /\ LaneInv
      BY DEF HostInv
    <3> DEFINE X == {}
    <3>2. \A r \in Slot \ X :
             /\ queue'[r] = queue[r] /\ stage_in'[r] = stage_in[r] /\ dev'[r] = dev[r]
             /\ product'[r] = product[r] /\ stage_out'[depth][r] = stage_out[depth][r]
             /\ slot_scatter'[r] = slot_scatter[r]
      BY <2>1
    <3>3. \A r \in Slot \cap X : FALSE
      OBVIOUS
    <3> HIDE DEF X
    <3>4. QED
      BY <2>1, <2>3, <3>1, <3>2, <3>3, LaneExcept
  <2>8. QED
    BY <2>2, <2>5, <2>6, <2>7 DEF HostGoal
<1>2. CASE FlushSlot
  <2>1. i < Len(tasks) /\ pc = "flush" /\ Flush(S)
    BY <1>2 DEF FlushSlot
  <2>2. PICK s \in Slot : s = S
    BY <2>1, CurrentIs
  <2>3. pc = "flush" /\ Flush(s)
    BY <2>1, <2>2
  <2>4. QED
    BY <2>3, FlushStep DEF HostGoal
<1>3. ASSUME NEW s \in Slot, DrainSlot(s) PROVE HostGoal
  <2>1. pc = "flush" /\ Flush(s)
    BY <1>3 DEF DrainSlot
  <2>2. QED
    BY <2>1, FlushStep DEF HostGoal
<1>4. ASSUME NEW d \in Depth, Scatter(d) PROVE HostGoal
  <2>1. Take(d, "done") /\ added' = Scattered(d, Head(jobs[d]).slot)
    BY <1>4 DEF Scatter
  <2>2. QED
    BY <2>1, TakeStep
<1>5. ASSUME NEW d \in Depth, ScatterFails(d) PROVE HostGoal
  <2>1. PICK kind \in {"oom", "error"} : Take(d, kind)
    BY <1>5 DEF ScatterFails
  <2>2. ~accumulate_on_gpu /\ added' \in {added, Scattered(d, Head(jobs[d]).slot)}
    BY <1>5 DEF ScatterFails
  <2>3. QED
    BY <2>1, <2>2, TakeStep
<1>6. CASE IssueFails
  <2>1. CASE queue' = queue
    BY <1>6, <2>1, StopStep
  <2>2. CASE queue' # queue
    BY <1>6, <2>2, SomeAddsStep
  <2>3. QED
    BY <2>1, <2>2
<1>7. CASE StartAttempt
  BY <1>7, StartStep
<1>8. CASE ReuseSlot
  BY <1>8, ReuseStep
<1>9. CASE Gather
  BY <1>9, GatherStep
<1>10. CASE Output
  BY <1>10, OutputStep
<1>11. CASE HostReturn
  BY <1>11, ReturnStep
<1>12. CASE ScatterRaises \/ HostGiveUp
  BY <1>12, StopStep
<1>13. CASE Escalate
  BY <1>13, EscalateStep
<1>14. CASE CallerDone
  BY <1>14, CallerStep
<1>15. ASSUME NEW s \in Slot, CollectScatter(s) PROVE HostGoal
  BY <1>15, CollectStep
<1>16. ASSUME NEW s \in Slot, Load(s) \/ Kernel(s) PROVE HostGoal
  BY <1>16, WorkStep
<1>17. ASSUME NEW s \in Slot, DeviceAdd(s) PROVE HostGoal
  BY <1>17, DeviceAddStep
<1>18. ASSUME NEW s \in Slot, D2h(s) PROVE HostGoal
  BY <1>18, BackStep
<1>19. QED
  BY <1>1, <1>2, <1>3, <1>4, <1>5, <1>6, <1>7, <1>8, <1>9, <1>10, <1>11, <1>12, <1>13, <1>14,
     <1>15, <1>16, <1>17, <1>18, NextCases

-----------------------------------------------------------------------------
\* The invariant.

\* The invariant holds of the initial states.
LEMMA Initial == Init => IInv
<1> SUFFICES ASSUME Init PROVE IInv
  OBVIOUS
<1> USE DEF Init
<1>1. /\ shard \subseteq Range(Tasks[Itr]) /\ exc = "none" /\ outcome = "running"
      /\ pc = IF host_resident THEN "attempt" ELSE "loop"
      /\ host_resident \in BOOLEAN /\ allow_escalation \in BOOLEAN
  BY DEF CallInit
<1>2. CallInv
  BY <1>1 DEF CallInv
<1>3. /\ ShardTasks \in Seq(Path) /\ Distinct(ShardTasks) /\ Range(ShardTasks) = shard
      /\ (\A k \in DOMAIN ShardTasks : Len(ShardTasks[k]) = Itr) /\ OfShard(Itr) = shard
  BY <1>2, ShardTasksAre
<1>4. Cut(shard)
  BY <1>2, CutShard
<1>5. <<>> \in Seq(Path) /\ Distinct(<<>>) /\ Len(<<>>) = 0 /\ Range(<<>>) = {}
  BY DEF Distinct, Range
<1>6. /\ pending = (IF host_resident THEN <<>> ELSE ShardTasks)
      /\ cur = None /\ retries = 0 /\ dirty = FALSE
      /\ grad = [g \in Gradient |-> [p \in Path |-> 0]]
  BY DEF DeviceInit
<1>7. \A g \in Gradient : \A p \in Path : grad[g][p] = 0
  BY <1>6
<1>8. Done = {}
  BY <1>7 DEF Done, Gradient
<1>9. DeviceType
  <2>1. pending \in Seq(Path) /\ Distinct(pending)
    BY <1>3, <1>5, <1>6
  <2>2. grad \in [Gradient -> [Path -> {0, 1}]]
    BY <1>6
  <2>3. retries \in 0 .. Budget + 1
    BY <1>2, <1>6, BudgetType
  <2>4. IsFiniteSet(Done)
    BY <1>8, FS_EmptySet
  <2>5. QED
    BY <1>6, <1>7, <2>1, <2>2, <2>3, <2>4 DEF DeviceType, Name, Clean
<1>10. ASSUME ~host_resident PROVE CurInv /\ OpenInv
  <2>1. Open = shard /\ Range(pending) = shard
    BY <1>3, <1>6, <1>10 DEF Open
  <2>2. \A p \in shard : p \in Path /\ Len(p) = Itr
    BY <1>2, ShardIs
  <2>3. \A p, q \in shard : Related(p, q) => p = q
    BY <2>2, Descent DEF Related
  <2>4. CurInv
    <3>1. retries <= Budget
      BY <1>2, <1>6, BudgetType
    <3>2. QED
      BY <1>1, <1>6, <1>10, <2>1, <2>2, <3>1, BackwardCallAssumption DEF CurInv
  <2>5. OpenInv
    <3>1. Cut(Open \cup Done)
      <4>1. Open \cup Done = shard
        BY <1>8, <2>1
      <4>2. QED
        BY <1>4, <4>1
    <3>2. \A q \in Path : Clean(q) /\ grad["dq"][q] = grad["dk"][q] /\ grad["dk"][q] = grad["dv"][q]
      BY <1>7 DEF Clean, Gradient
    <3>3. QED
      BY <2>1, <2>3, <3>1, <3>2 DEF OpenInv
  <2>6. QED
    BY <2>4, <2>5
<1>11. /\ depth = Itr /\ i = 0 /\ caller = "idle" /\ queue = [s \in Slot |-> <<>>]
       /\ stage_in = [s \in Slot |-> None] /\ dev = [s \in Slot |-> None]
       /\ product = [s \in Slot |-> None]
       /\ stage_out = [d \in Depth |-> [s \in Slot |-> None]]
       /\ slot_state = [s \in Slot |-> None] /\ slot_scatter = [s \in Slot |-> None]
       /\ future = [p \in Path |-> "none"]
       /\ jobs = [d \in Depth |-> <<>>]
       /\ added = [d \in Depth |-> [p \in Path |-> 0]]
       /\ accumulate_on_gpu \in BOOLEAN /\ scatter_async \in BOOLEAN
       /\ host_resident => max_parallel \in Pars
       /\ tasks = IF host_resident THEN ShardTasks ELSE <<>>
  BY DEF HostInit
<1>12. Itr \in Depth
  BY DeepestType DEF Depth
<1>13. HostType
  <2>1. tasks \in Seq(Path) /\ Distinct(tasks) /\ \A k \in DOMAIN tasks : Len(tasks[k]) = depth
    <3>1. CASE host_resident
      BY <1>3, <1>11, <3>1
    <3>2. CASE ~host_resident
      <4>1. DOMAIN tasks = {}
        BY <1>11, <3>2
      <4>2. QED
        BY <1>5, <1>11, <3>2, <4>1
    <3>3. QED
      BY <3>1, <3>2
  <2>2. i \in 0 .. Len(tasks)
    BY <1>11, <2>1
  <2>3. <<>> \in Seq(Job)
    OBVIOUS
  <2>4. jobs \in [Depth -> Seq(Job)]
    BY <1>11, <2>3
  <2>5. QED
    BY <1>11, <1>12, <2>1, <2>2, <2>4 DEF HostType, Name, FutureState
<1>14. IdleInv
  BY <1>11 DEF IdleInv
<1>15. ASSUME host_resident
       PROVE TasksInv /\ LaneInv /\ PhaseInv /\ JobInv /\ FutureInv /\ FreshInv /\ AddedInv
  <2>1. pc = "attempt" /\ ~Running /\ Issued = {} /\ outcome # "returned"
    BY <1>1, <1>11, <1>15 DEF Running, Issued
  <2>2. TasksInv
    <3>1. Range(tasks) = shard
      BY <1>3, <1>11, <1>15
    <3>2. {p \in Range(Tasks[depth]) : SubSeq(p, 1, Itr) \in shard} = shard
      BY <1>3, <1>11 DEF OfShard
    <3>3. Cut(Range(tasks))
      BY <1>4, <3>1
    <3>4. QED
      BY <2>1, <3>1, <3>2, <3>3 DEF TasksInv
  <2>3. LaneInv /\ PhaseInv
    BY <1>11, <2>1 DEF LaneInv, PhaseInv
  <2>4. JobInv
    <3>1. \A d \in Depth : DOMAIN jobs[d] = {} /\ Range(jobs[d]) = {}
      BY <1>5, <1>11
    <3>2. QED
      BY <3>1 DEF JobInv
  <2>5. FutureInv /\ FreshInv
    BY <1>11, <2>1 DEF FutureInv, FreshInv
  <2>6. AddedInv
    BY <2>1 DEF AddedInv
  <2>7. QED
    BY <2>2, <2>3, <2>4, <2>5, <2>6
<1>16. QED
  BY <1>2, <1>9, <1>10, <1>13, <1>14, <1>15 DEF IInv, DeviceInv, HostInv

\* The path of a call and its shard never change.
LEMMA ArgsKept ==
    ASSUME [Next]_vars
    PROVE  UNCHANGED <<host_resident, shard>>
<1>1. CASE UNCHANGED vars
  BY <1>1 DEF vars, callVars
<1>2. CASE UNCHANGED callVars
  BY <1>2 DEF callVars
<1>3. CASE \/ StartAttempt \/ FlushSlot \/ ReuseSlot \/ Gather \/ Output \/ HostReturn
           \/ ScatterRaises \/ HostGiveUp \/ Escalate \/ IssueFails \/ CallerDone
  BY <1>3 DEF StartAttempt, FlushSlot, Flush, ReuseSlot, Gather, Output, HostReturn,
     ScatterRaises, HostGiveUp, Escalate, IssueFails, Raise, CallerDone, argVars, callVars
<1>4. CASE \/ \E s \in Slot : DrainSlot(s) \/ CollectScatter(s)
           \/ \E s \in Slot : Load(s) \/ Kernel(s) \/ DeviceAdd(s) \/ D2h(s)
           \/ \E d \in Depth : Scatter(d) \/ ScatterFails(d)
  BY <1>4 DEF DrainSlot, CollectScatter, Flush, Load, Kernel, DeviceAdd, D2h, Exec,
     Scatter, ScatterFails, Take, argVars, callVars
<1>5. QED
  BY <1>1, <1>2, <1>3, <1>4, NextCases

\* Only an escalation changes the task list.
LEMMA ListKept ==
    ASSUME CallInv, HostType, host_resident, TasksInv, [Next]_vars, ~Escalate
    PROVE  UNCHANGED <<depth, tasks>> /\ (pc' \in {"gather", "output"} => i' < Len(tasks))
<1> USE DEF loopVars, TasksInv
<1>1. CASE UNCHANGED vars
  BY <1>1 DEF vars, hostVars
<1>2. CASE \/ StartAttempt \/ FlushSlot \/ ReuseSlot \/ Gather \/ Output \/ HostReturn
           \/ ScatterRaises \/ HostGiveUp \/ IssueFails \/ CallerDone
  BY <1>2 DEF StartAttempt, FlushSlot, Flush, ReuseSlot, Gather, Output, HostReturn,
     ScatterRaises, HostGiveUp, IssueFails, Raise, CallerDone
<1>3. CASE \/ \E s \in Slot : DrainSlot(s) \/ CollectScatter(s)
           \/ \E s \in Slot : Load(s) \/ Kernel(s) \/ DeviceAdd(s) \/ D2h(s)
           \/ \E d \in Depth : Scatter(d) \/ ScatterFails(d)
  BY <1>3 DEF DrainSlot, CollectScatter, Flush, Load, Kernel, DeviceAdd, D2h, Exec,
     Scatter, ScatterFails, Take
<1>4. QED
  BY <1>1, <1>2, <1>3, NextCases

\* Every action preserves it.
LEMMA Inductive == IInv /\ [Next]_vars => IInv'
<1> SUFFICES ASSUME IInv, [Next]_vars PROVE IInv'
  OBVIOUS
<1> USE DEF IInv
<1>1. CallInv'
  BY CallStep
<1>2. DeviceType' /\ DeviceInv'
  BY DeviceStepInv
<1>3. HostType'
  BY HostTypeStep
<1>4. UNCHANGED <<host_resident, shard>>
  BY ArgsKept
<1>5. HostInv'
  <2> SUFFICES ASSUME host_resident
               PROVE (TasksInv /\ LaneInv /\ PhaseInv /\ JobInv /\ FutureInv /\ FreshInv /\ AddedInv)'
    BY <1>4 DEF HostInv
  <2>1. HostGoal
    BY HostGoalStep
  <2>2. TasksInv
    BY DEF HostInv
  <2>3. TasksInv'
    <3>1. CASE Escalate
      BY <1>4, <2>2, <3>1, TasksStep
    <3>2. CASE ~Escalate
      BY <1>4, <2>2, <3>2, ListKept, TasksStep
    <3>3. QED
      BY <3>1, <3>2
  <2>4. QED
    BY <2>1, <2>3 DEF HostGoal
<1>6. IdleInv'
  <2> SUFFICES ASSUME ~host_resident
               PROVE (\A s \in Slot : queue'[s] = <<>>) /\ (\A d \in Depth : jobs'[d] = <<>>)
    BY <1>4 DEF IdleInv
  <2>1. UNCHANGED <<queue, jobs>>
    BY NextCases DEF vars, hostVars, gpuVars, jobVars
  <2>2. QED
    BY <2>1 DEF IdleInv
<1>7. QED
  BY <1>1, <1>2, <1>3, <1>5, <1>6

\* The invariant holds of every behaviour.
THEOREM Invariant == Spec => []IInv
  BY Initial, Inductive, PTL DEF Spec

-----------------------------------------------------------------------------
\* What follows.

\* The type invariant of the run is part of it.
LEMMA Typed == IInv => TypeOK
<1> SUFFICES ASSUME IInv PROVE TypeOK
  OBVIOUS
<1> USE DEF IInv
<1>1. /\ exc \in {"none", "oom", "error"}
      /\ pending \in Seq(Path) /\ cur \in Path \cup {None}
      /\ retries \in 0 .. Budget + 1
      /\ dirty \in BOOLEAN /\ (dirty => pc \in {"except", "end"})
      /\ depth \in Depth /\ i \in 0 .. Len(tasks)
      /\ added \in [Depth -> [Path -> Nat]]
  BY DEF CallInv, DeviceType, HostType, Name
<1>2. grad \in [Gradient -> [Path -> Nat]]
  <2>1. grad \in [Gradient -> [Path -> {0, 1}]]
    BY DEF DeviceType
  <2>2. \A g \in Gradient : grad[g] \in [Path -> Nat]
    <3> TAKE g \in Gradient
    <3>1. grad[g] \in [Path -> {0, 1}]
      BY <2>1
    <3>2. \A p \in Path : grad[g][p] \in Nat
      BY <3>1
    <3>3. QED
      BY <3>1, <3>2
  <2>3. QED
    BY <2>1, <2>2
<1>3. tasks \in Seq([1 .. depth -> Chunk])
  <2>1. \A k \in DOMAIN tasks : tasks[k] \in [1 .. depth -> Chunk]
    <3> TAKE k \in DOMAIN tasks
    <3>1. tasks[k] \in Path /\ Len(tasks[k]) = depth
      BY DEF HostType
    <3>2. tasks[k] \in Seq(Chunk)
      BY <3>1, PathIs
    <3>3. QED
      BY <3>1, <3>2
  <2>2. tasks \in Seq(Path)
    BY DEF HostType
  <2>3. tasks \in [1 .. Len(tasks) -> [1 .. depth -> Chunk]] /\ Len(tasks) \in Nat
    BY <2>1, <2>2
  <2>4. QED
    BY <2>3
<1>4. \A s \in Slot : {slot_state[s], slot_scatter[s], stage_in[s]} \subseteq Path \cup {None}
  BY DEF HostType, Name
<1>5. \A d \in Depth : \A j \in Range(jobs[d]) : j.task \in Path /\ j.slot \in Slot
  <2> TAKE d \in Depth
  <2>1. jobs[d] \in Seq(Job)
    BY DEF HostType
  <2>2. \A j \in Range(jobs[d]) : j \in Job
    BY <2>1 DEF Range
  <2>3. QED
    BY <2>2, JobFieldsOf
<1>6. QED
  BY <1>1, <1>2, <1>3, <1>4, <1>5 DEF TypeOK

\* Queues, slots and accumulators hold subproblems of the attempt's depth, and the
\* control points and the dirty flag agree.
THEOREM TypeCorrect == Spec => []TypeOK
  BY Invariant, Typed, PTL

\* On the device path, a waiting subproblem was not added in part, and neither was
\* any it descends from.
THEOREM RecoverySound == Spec => []QueuedIsClean
<1>1. IInv => QueuedIsClean
  <2> SUFFICES ASSUME IInv, NEW p \in Range(pending), NEW q \in Ancestors(p), NEW g \in Gradient
               PROVE  grad[g][q] = 0
    BY DEF QueuedIsClean
  <2> USE DEF IInv
  <2>1. p \in Path /\ q \in Path
    BY Descent DEF DeviceType, Range
  <2>2. CASE host_resident
    BY <2>1, <2>2 DEF DeviceType, Clean
  <2>3. CASE ~host_resident
    <3>1. CurInv /\ OpenInv /\ p \in Open /\ Related(p, q)
      BY <2>3 DEF DeviceInv, Open, Related
    <3>2. q # cur
      <4> SUFFICES ASSUME q = cur PROVE FALSE
        OBVIOUS
      <4>1. cur \in Open
        BY <2>1, BackwardCallAssumption DEF Open
      <4>2. p = cur
        BY <3>1, <4>1 DEF OpenInv
      <4>3. QED
        BY <3>1, <4>2 DEF CurInv
    <3>3. Clean(q)
      BY <2>1, <3>1, <3>2 DEF OpenInv
    <3>4. QED
      BY <3>3 DEF Clean
  <2>4. QED
    BY <2>2, <2>3
<1>2. QED
  BY <1>1, Invariant, PTL

\* The operations on the stream of a slot.
LEMMA QueueOps ==
    ASSUME NEW s, NEW p
    PROVE  /\ Bare(s, p) => \A o \in Range(queue[s]) : o \in {LoadOf(p), KernelOf(p)}
           /\ Full(s, p) => /\ \A o \in Range(queue[s]) : o \in {LoadOf(p), KernelOf(p), OutOf(p)}
                            /\ OutOf(p) \in Range(queue[s])
           /\ (Bare(s, p) \/ Full(s, p)) /\ LoadOf(p) \in Range(queue[s]) => stage_in[s] = p
<1>1. /\ LoadOf(p).op = "load" /\ KernelOf(p).op = "kernel"
      /\ OutOf(p).op = IF accumulate_on_gpu THEN "add" ELSE "d2h"
  BY DEF LoadOf, KernelOf, OutOf
<1>2. /\ \A x : Range(<<x>>) = {x}
      /\ \A x, y : Range(<<x, y>>) = {x, y}
      /\ \A x, y, z : Range(<<x, y, z>>) = {x, y, z}
      /\ Range(<<>>) = {}
  <2>1. ASSUME NEW x, NEW y, NEW z PROVE Range(<<x, y, z>>) = {x, y, z}
    <3> DEFINE t == <<x, y, z>>
    <3>1. DOMAIN t = {1, 2, 3} /\ t[1] = x /\ t[2] = y /\ t[3] = z
      OBVIOUS
    <3> HIDE DEF t
    <3>2. Range(t) = {x, y, z}
      BY <3>1 DEF Range
    <3>3. QED
      BY <3>2 DEF t
  <2>2. ASSUME NEW x, NEW y PROVE Range(<<x, y>>) = {x, y}
    <3> DEFINE t == <<x, y>>
    <3>1. DOMAIN t = {1, 2} /\ t[1] = x /\ t[2] = y
      OBVIOUS
    <3> HIDE DEF t
    <3>2. Range(t) = {x, y}
      BY <3>1 DEF Range
    <3>3. QED
      BY <3>2 DEF t
  <2>3. ASSUME NEW x PROVE Range(<<x>>) = {x}
    BY DEF Range
  <2>4. Range(<<>>) = {}
    BY DEF Range
  <2>5. QED
    BY <2>1, <2>2, <2>3, <2>4
<1> HIDE DEF LoadOf, KernelOf, OutOf
<1>3. LoadOf(p) # KernelOf(p) /\ LoadOf(p) # OutOf(p)
  BY <1>1
<1>4. \A x, y, z :
         /\ queue[s] = <<x>> => Range(queue[s]) = {x}
         /\ queue[s] = <<x, y>> => Range(queue[s]) = {x, y}
         /\ queue[s] = <<x, y, z>> => Range(queue[s]) = {x, y, z}
         /\ queue[s] = <<>> => Range(queue[s]) = {}
  <2> TAKE x, y, z
  <2>1. Range(<<x>>) = {x} /\ Range(<<x, y>>) = {x, y} /\ Range(<<x, y, z>>) = {x, y, z} /\ Range(<<>>) = {}
    BY <1>2
  <2>2. QED
    BY <2>1
<1> DEFINE ops == Range(queue[s])
<1>5. Bare(s, p) => /\ ops \subseteq {LoadOf(p), KernelOf(p)}
                    /\ LoadOf(p) \in ops => stage_in[s] = p
  <2>1. CASE queue[s] = <<LoadOf(p), KernelOf(p)>> /\ stage_in[s] = p
    BY <1>4, <2>1
  <2>2. CASE queue[s] = <<KernelOf(p)>>
    BY <1>3, <1>4, <2>2
  <2>3. CASE queue[s] = <<>>
    BY <1>4, <2>3
  <2>4. QED
    BY <2>1, <2>2, <2>3 DEF Bare
<1>6. Full(s, p) => /\ ops \subseteq {LoadOf(p), KernelOf(p), OutOf(p)} /\ OutOf(p) \in ops
                    /\ LoadOf(p) \in ops => stage_in[s] = p
  <2>1. CASE queue[s] = <<LoadOf(p), KernelOf(p), OutOf(p)>> /\ stage_in[s] = p
    BY <1>4, <2>1
  <2>2. CASE queue[s] = <<KernelOf(p), OutOf(p)>>
    BY <1>3, <1>4, <2>2
  <2>3. CASE queue[s] = <<OutOf(p)>>
    BY <1>3, <1>4, <2>3
  <2>4. QED
    BY <2>1, <2>2, <2>3 DEF Full
<1>7. QED
  BY <1>5, <1>6

\* The pinned inputs of a slot are those its pending copy is to read.
THEOREM StagingSafe == Spec => []StagingOwned
<1>1. IInv => StagingOwned
  <2> SUFFICES ASSUME IInv, NEW s \in Slot, NEW k \in DOMAIN queue[s], queue[s][k].op = "load"
               PROVE  stage_in[s] = queue[s][k].task
    BY DEF StagingOwned
  <2>1. queue[s] # <<>>
    OBVIOUS
  <2>2. host_resident
    BY <2>1 DEF IInv, IdleInv
  <2>3. PICK p \in Path : Bare(s, p) \/ Full(s, p)
    BY <2>1, <2>2 DEF IInv, HostInv, LaneInv
  <2>4. PICK o : o = queue[s][k]
    OBVIOUS
  <2>5. o \in Range(queue[s])
    BY <2>4 DEF Range
  <2>6. o \in {LoadOf(p), KernelOf(p), OutOf(p)}
    BY <2>3, <2>5, QueueOps
  <2>7. o = LoadOf(p) /\ o.task = p
    BY <2>4, <2>6 DEF LoadOf, KernelOf, OutOf
  <2>8. stage_in[s] = p
    BY <2>3, <2>5, <2>7, QueueOps
  <2>9. QED
    BY <2>4, <2>7, <2>8
<1>2. QED
  BY <1>1, Invariant, PTL

\* A scatter still to be done, of this attempt or of an abandoned one, finds its own
\* subproblem's gradients.
THEOREM ScatterSafe == Spec => []GradientsOwned
<1>1. IInv => GradientsOwned
  <2> SUFFICES ASSUME IInv, NEW d \in Depth, NEW j \in Range(jobs[d]), ~accumulate_on_gpu
               PROVE  stage_out[d][j.slot] = j.task
    BY DEF GradientsOwned
  <2>1. host_resident
    <3>1. jobs[d] # <<>>
      BY DEF Range
    <3>2. QED
      BY <3>1 DEF IInv, IdleInv
  <2>2. QED
    BY <2>1 DEF IInv, HostInv, JobInv
<1>2. QED
  BY <1>1, Invariant, PTL

\* While an attempt runs each of its subproblems is outstanding or was added once,
\* and nothing of an abandoned attempt is in its accumulators.
THEOREM NothingLostOrDoubled == Spec => []OwedOrAdded
<1>1. IInv => OwedOrAdded
  <2> SUFFICES ASSUME IInv, host_resident, Running, NEW p \in Path, future[p] \notin {"oom", "error"}
               PROVE  added[depth][p] = IF p \in Range(tasks) \ Outstanding THEN 1 ELSE 0
    BY DEF OwedOrAdded, Running
  <2> USE DEF IInv, HostInv
  <2>1. added[depth][p] = IF Owed(p) THEN 0 ELSE 1
    BY DEF AddedInv
  <2> DEFINE Rest == {tasks[k] : k \in i+1 .. Len(tasks)}
             Adding == {o.task : o \in {x \in UNION {Range(queue[s]) : s \in Slot} : x.op = "add"}}
             Held == (Range(slot_state) \ {None}) \cup {q \in Path : future[q] = "queued"}
  <2>2. Outstanding = Rest \cup Adding \cup (IF accumulate_on_gpu THEN {} ELSE Held)
    BY DEF Outstanding
  <2>3. tasks \in Seq(Path) /\ Distinct(tasks) /\ i \in 0 .. Len(tasks) /\ p # None
    BY BackwardCallAssumption DEF HostType
  <2>4. p \in Range(tasks) => (p \in Rest <=> p \notin Issued)
    <3> SUFFICES ASSUME p \in Range(tasks) PROVE p \in Rest <=> p \notin Issued
      OBVIOUS
    <3>1. PICK k \in DOMAIN tasks : p = tasks[k]
      BY DEF Range
    <3>2. \A l \in DOMAIN tasks : p = tasks[l] => l = k
      BY <2>3, <3>1 DEF Distinct
    <3>3. k \in 1 .. i \/ k \in i+1 .. Len(tasks)
      BY <2>3
    <3>4. 1 .. i \subseteq DOMAIN tasks /\ i+1 .. Len(tasks) \subseteq DOMAIN tasks
      BY <2>3
    <3>5. p \in Rest <=> k \in i+1 .. Len(tasks)
      BY <3>1, <3>2, <3>4
    <3>6. p \in Issued <=> k \in 1 .. i
      BY <3>1, <3>2, <3>4 DEF Issued
    <3>7. QED
      BY <2>3, <3>3, <3>5, <3>6
  <2>5. p \in Issued => p \in Range(tasks)
    BY IssuedIs
  <2>6. p \in Adding <=> accumulate_on_gpu /\ \E s \in Slot : slot_state[s] = p /\ Full(s, p)
    <3>1. ASSUME NEW s \in Slot, accumulate_on_gpu, slot_state[s] = p, Full(s, p) PROVE p \in Adding
      <4>1. OutOf(p) \in Range(queue[s])
        BY <3>1, QueueOps
      <4>2. OutOf(p).op = "add" /\ OutOf(p).task = p
        BY <3>1 DEF OutOf
      <4>3. QED
        BY <4>1, <4>2
    <3>2. ASSUME p \in Adding
          PROVE  accumulate_on_gpu /\ \E s \in Slot : slot_state[s] = p /\ Full(s, p)
      <4>1. PICK s \in Slot : \E o \in Range(queue[s]) : o.op = "add" /\ o.task = p
        BY <3>2
      <4>2. PICK o \in Range(queue[s]) : o.op = "add" /\ o.task = p
        BY <4>1
      <4>3. queue[s] # <<>>
        BY <4>2 DEF Range
      <4>4. \A q : (Bare(s, q) => FALSE) /\ (Full(s, q) => accumulate_on_gpu /\ q = p)
        <5> TAKE q
        <5>1. Bare(s, q) \/ Full(s, q) => o \in {LoadOf(q), KernelOf(q), OutOf(q)}
          BY <4>2, QueueOps
        <5>2. Bare(s, q) => o \in {LoadOf(q), KernelOf(q)}
          BY <4>2, QueueOps
        <5>3. /\ LoadOf(q).op = "load" /\ KernelOf(q).op = "kernel" /\ OutOf(q).task = q
              /\ OutOf(q).op = IF accumulate_on_gpu THEN "add" ELSE "d2h"
          BY DEF LoadOf, KernelOf, OutOf
        <5>4. QED
          BY <4>2, <5>1, <5>2, <5>3
      <4>5. slot_state[s] # None
        BY <4>3, <4>4 DEF PhaseInv
      <4>6. Full(s, slot_state[s])
        BY <4>3, <4>5 DEF LaneInv
      <4>7. accumulate_on_gpu /\ slot_state[s] = p
        BY <4>4, <4>6
      <4>8. Full(s, p)
        BY <4>6, <4>7 DEF Full
      <4>9. QED
        BY <4>7, <4>8
    <3>3. QED
      BY <3>1, <3>2
  <2>7. p \in Held <=> future[p] = "queued" \/ \E s \in Slot : slot_state[s] = p
    BY <2>3 DEF HostType, Range
  <2> HIDE DEF Rest, Adding, Held
  <2>8. p \in Range(tasks) \ Outstanding <=> ~Owed(p)
    BY <2>2, <2>4, <2>5, <2>6, <2>7 DEF Owed
  <2>9. QED
    BY <2>1, <2>8
<1>2. QED
  BY <1>1, Invariant, PTL

\* A call that returns has counted every ordered pair of tokens of its shard exactly
\* once in each gradient, whatever was refined and at whatever depth it ended.
THEOREM ReturnsExact == Spec => []ReturnedExact
<1>1. IInv => ReturnedExact
  <2> SUFFICES ASSUME IInv, outcome = "returned" PROVE ReturnedExact
    BY DEF ReturnedExact
  <2> USE DEF IInv
  <2>1. grad \in [Gradient -> [Path -> {0, 1}]]
    BY DEF DeviceType
  <2>2. \A q \in Path : grad["dq"][q] = grad["dk"][q] /\ grad["dk"][q] = grad["dv"][q]
    <3>1. CASE host_resident
      BY <3>1 DEF DeviceType, Clean, Gradient
    <3>2. CASE ~host_resident
      BY <3>2, BackwardCallAssumption DEF DeviceInv, CurInv, OpenInv
    <3>3. QED
      BY <3>1, <3>2
  <2>3. grad["dq"] = grad["dk"] /\ grad["dk"] = grad["dv"] /\ grad["dv"] \in [Path -> {0, 1}]
    <3>1. /\ grad["dq"] \in [Path -> {0, 1}] /\ grad["dk"] \in [Path -> {0, 1}]
          /\ grad["dv"] \in [Path -> {0, 1}]
      BY <2>1 DEF Gradient
    <3>2. QED
      BY <2>2, <3>1
  <2> DEFINE n == IF host_resident THEN added[depth] ELSE grad["dq"]
  <2>4. n \in [Path -> {0, 1}] /\ Cut({q \in Path : n[q] = 1})
    <3>1. CASE host_resident
      <4>1. /\ added[depth] \in [Path -> Nat]
            /\ \A p \in Path : added[depth][p] = IF p \in Range(tasks) THEN 1 ELSE 0
            /\ Cut(Range(tasks)) /\ Range(tasks) \subseteq Path
        BY <3>1 DEF HostInv, HostType, AddedInv, TasksInv, Range
      <4>2. added[depth] \in [Path -> {0, 1}]
        <5>1. \A p \in Path : added[depth][p] \in {0, 1}
          BY <4>1
        <5>2. QED
          BY <4>1, <5>1
      <4>3. {q \in Path : added[depth][q] = 1} = Range(tasks)
        BY <4>1
      <4>4. QED
        BY <3>1, <4>1, <4>2, <4>3
    <3>2. CASE ~host_resident
      <4>1. pending = <<>> /\ cur = None /\ Cut(Open \cup Done)
        BY <3>2 DEF DeviceInv, CurInv, OpenInv
      <4>2. Open = {}
        BY <4>1 DEF Open, Range
      <4>3. Done = {q \in Path : grad["dq"][q] = 1}
        BY <2>3 DEF Done
      <4>4. QED
        BY <2>3, <3>2, <4>1, <4>2, <4>3
    <3>3. QED
      BY <3>1, <3>2
  <2>5. \A x \in Token \X Token : Counted(x, n) = Cardinality({p \in shard : x \in KeptOf[p]})
    <3> HIDE DEF n
    <3>1. QED
      BY <2>4, CutCounts
  <2>6. QED
    BY <2>3, <2>5 DEF ReturnedExact
<1>2. QED
  BY <1>1, Invariant, PTL

-----------------------------------------------------------------------------
\* The loop of the device path implements the hybrid schedules.

\* The operators of the abstract specification are those of the backward.
LEMMA SameOperators ==
    /\ \A t : Cover!Children(t) = Children(t)
    /\ \A t : Cover!Kept(t) = Kept(t)
    /\ Cover!Pair = Token \X Token
    /\ Cover!MaxDepth = MaxDepth
<1>1. Cover!Chunk = Chunk /\ Cover!Token = Token
  BY DEF Cover!Chunk, Chunk, Cover!Token, Token
<1>2. \A t : Cover!Kept(t) = Kept(t)
  BY DEF Cover!Kept, Kept
<1>3. Cover!MaxDepth = MaxDepth
  BY Zenon DEF Cover!MaxDepth, MaxDepth
<1>4. Cover!Pair = Token \X Token
  BY <1>1 DEF Cover!Pair
<1>5. \A t : Cover!Children(t) = Children(t)
  <2>1. \A L, p : Cover!ChunkAt(L, p) = ChunkAt(L, p)
    BY Zenon DEF Cover!ChunkAt, ChunkAt, Cover!ChunkStart, ChunkStart, Cover!ChunkEnd, ChunkEnd,
       Cover!Chunk, Chunk
  <2>2. \A t, u : Cover!Label(t, u) = Label(t, u)
    <3>1. \A T : Cover!Cardinality(T) = Cardinality(T)
      BY Zenon DEF Cover!Cardinality, Cardinality, Cover!IsFiniteSet, IsFiniteSet
    <3>2. \A T, u : Cover!Rank(T, u) = Rank(T, u)
      BY <3>1 DEF Cover!Rank, Rank
    <3>3. QED
      BY <2>1, <3>1, <3>2 DEF Cover!Label, Label
  <2>3. \A j : Cover!QuorumChunks(j) = QuorumChunks(j)
    BY DEF Cover!QuorumChunks, QuorumChunks
  <2>4. \A t, j : Cover!Child(t, j) = Child(t, j)
    BY <2>2, <2>3 DEF Cover!Child, Child
  <2>5. QED
    BY <1>1, <2>4 DEF Cover!Children, Children
<1>6. QED
  BY <1>2, <1>3, <1>4, <1>5

\* The state of the abstract specification.
Tasked == {TaskOf[p] : p \in Open}
Attended == [x \in Token \X Token |-> Counted(x, grad["dv"])]

\* Replacing a subproblem by its children, and adding it, are steps of HybridCover.
LEMMA Mapping ==
    /\ \A t \in Tasked :
          /\ Len(t.path) < MaxDepth /\ Tasked' = (Tasked \ {t}) \cup Children(t) /\ Attended' = Attended
          => Cover!Next
    /\ \A t \in Tasked :
          /\ Tasked' = Tasked \ {t}
          /\ Attended' = [x \in Token \X Token |-> Attended[x] + (IF x \in Kept(t) THEN 1 ELSE 0)]
          => Cover!Next
    /\ UNCHANGED Cover!vars <=> UNCHANGED <<Tasked, Attended>>
<1> USE SameOperators
<1>1. \A t : /\ Len(t.path) < MaxDepth /\ Tasked' = (Tasked \ {t}) \cup Children(t) /\ Attended' = Attended
             => Cover!Refine(t)
  BY DEF Cover!Refine, Tasked, Attended, Counted, Open
<1>2. \A t : /\ Tasked' = Tasked \ {t}
             /\ Attended' = [x \in Token \X Token |-> Attended[x] + (IF x \in Kept(t) THEN 1 ELSE 0)]
             => Cover!Merge(t)
  BY DEF Cover!Merge, Tasked, Attended, Counted, Open
<1>3. Cover!Next <=> \/ Cover!Deepen
                     \/ \E t \in Tasked : Cover!Refine(t)
                     \/ \E t \in Tasked : Cover!Merge(t)
  BY DEF Cover!Next, Tasked, Open
<1>4. UNCHANGED Cover!vars <=> UNCHANGED <<Tasked, Attended>>
  BY DEF Cover!vars, Tasked, Attended, Counted, Open
<1>5. QED
  BY <1>1, <1>2, <1>3, <1>4

\* What counts a pair is what was added.
LEMMA CountedIs ==
    ASSUME NEW a \in [Path -> {0, 1}], NEW x
    PROVE  Counted(x, a) = Count(a, x)
<1> DEFINE M == {q \in Path : x \in KeptOf[q]}
           L == {q \in {r \in Path : a[r] # 0} : x \in KeptOf[q]}
           U == UNION {{q} \X (1 .. a[q]) : q \in M}
           V == UNION {{q} \X (1 .. a[q]) : q \in L}
<1>1. \A q \in M : q \in L \/ {q} \X (1 .. a[q]) = {}
  <2> TAKE q \in M
  <2>1. CASE a[q] = 0
    <3>1. 1 .. a[q] = {}
      BY <2>1
    <3>2. QED
      BY <3>1
  <2>2. QED
    BY <2>1
<1>2. L \subseteq M
  OBVIOUS
<1>3. U = V
  <2> HIDE DEF M, L
  <2>1. \A e : e \in U => e \in V
    BY <1>1
  <2>2. \A e : e \in V => e \in U
    BY <1>2
  <2> HIDE DEF U, V
  <2>3. QED
    BY <2>1, <2>2
<1>4. Counted(x, a) = Cardinality(U) /\ Count(a, x) = Cardinality(V)
  BY DEF Counted, Count
<1> HIDE DEF U, V
<1>5. QED
  BY <1>3, <1>4

\* A step of the device path leaves what is open and what was added, or it is the last
\* addition of a subproblem or a refinement.
LEMMA OpenStep ==
    ASSUME IInv, [Next]_vars, ~host_resident, ~AddDv, ~RefineTask
    PROVE  Open' = Open /\ grad'["dv"] = grad["dv"]
<1>1. CASE UNCHANGED <<pending, cur, grad>>
  BY <1>1 DEF Open
<1>2. CASE Pop
  <2>1. Open' = Open
    BY <1>2, PopStep, ArgsKept DEF IInv, DeviceInv
  <2>2. QED
    BY <1>2, <2>1 DEF Pop
<1>3. CASE AddDq \/ AddDk
  <2>1. UNCHANGED <<pending, cur>>
    BY <1>3 DEF AddDq, AddDk
  <2>2. "dv" \in Gradient /\ grad \in [Gradient -> [Path -> {0, 1}]]
    BY DEF Gradient, IInv, DeviceType
  <2>3. PICK g \in {"dq", "dk"} : Add(g)
    BY <1>3 DEF AddDq, AddDk
  <2>4. grad'["dv"] = grad["dv"]
    BY <2>2, <2>3 DEF Add
  <2>5. QED
    BY <2>1, <2>4 DEF Open
<1>4. CASE UNCHANGED vars
  BY <1>1, <1>4 DEF vars, deviceVars
<1>5. CASE Compute \/ HandleError \/ DeviceGiveUp \/ DeviceReturn \/ ComputeFails \/ AddFails
  BY <1>1, <1>5 DEF Compute, HandleError, DeviceGiveUp, DeviceReturn, ComputeFails, AddFails
<1>6. QED
  BY <1>2, <1>3, <1>4, <1>5, NextCases

\* Every action of the device path is a step of HybridCover or changes nothing there.
LEMMA CoverStep ==
    ASSUME IInv, [Next]_vars, ~host_resident
    PROVE  Cover!Next \/ UNCHANGED Cover!vars
<1>1. CallInv /\ DeviceType /\ CurInv /\ OpenInv /\ UNCHANGED shard
  BY ArgsKept DEF IInv, DeviceInv
<1>2. \A p \in Open : p \in Path
  BY <1>1, OpenFacts
<1>3. PICK c : c = cur
  OBVIOUS
<1>4. CASE AddDv
  <2>1. /\ Open' = Open \ {c} /\ c \in Open /\ c \in Path /\ grad["dv"] \in [Path -> {0, 1}]
        /\ grad["dv"][c] = 0 /\ grad'["dv"] = [grad["dv"] EXCEPT ![c] = 1]
    BY <1>1, <1>3, <1>4, LastAddStep
  <2>2. PICK t : t = TaskOf[c]
    OBVIOUS
  <2>3. t \in Tasked /\ Tasked' = Tasked \ {t}
    BY <1>2, <2>1, <2>2, TaskFacts DEF Tasked
  <2>4. PICK a \in [Path -> {0, 1}] : a = grad["dv"]
    BY <2>1
  <2>5. PICK b : b = [a EXCEPT ![c] = 1]
    OBVIOUS
  <2>6. b \in [Path -> {0, 1}] /\ grad'["dv"] = b
    BY <2>1, <2>4, <2>5
  <2>7. IsFiniteSet({r \in Path : a[r] # 0}) /\ a[c] = 0
    BY <1>1, <2>1, <2>4 DEF DeviceType, Done
  <2>8. \A x : Counted(x, b) = Counted(x, a) + (IF x \in Kept(t) THEN 1 ELSE 0)
    <3> TAKE x
    <3>1. Count(b, x) = Count(a, x) + (IF x \in KeptOf[c] THEN 1 ELSE 0)
      BY <2>1, <2>5, <2>7, CountStep
    <3>2. Counted(x, a) = Count(a, x) /\ Counted(x, b) = Count(b, x)
      BY <2>6, CountedIs
    <3>3. KeptOf[c] = Kept(t)
      BY <2>1, <2>2, TaskFacts
    <3>4. QED
      BY <3>1, <3>2, <3>3
  <2>9. Attended = [x \in Token \X Token |-> Counted(x, a)]
    BY <2>4 DEF Attended
  <2>10. Attended' = [x \in Token \X Token |-> Counted(x, b)]
    BY <2>6 DEF Attended, Counted
  <2>11. Attended' = [x \in Token \X Token |-> Attended[x] + (IF x \in Kept(t) THEN 1 ELSE 0)]
    BY <2>8, <2>9, <2>10
  <2>12. QED
    BY <2>3, <2>11, Mapping
<1>5. CASE RefineTask
  <2>1. /\ c \in Open /\ c \in Path /\ Len(c) < Deepest /\ Open' = (Open \ {c}) \cup Range(Kids(c))
    BY <1>1, <1>3, <1>5, RefineStep
  <2>2. grad' = grad /\ Len(c) < MaxDepth
    BY <1>3, <1>5 DEF RefineTask, CanRefine
  <2>3. PICK t : t = TaskOf[c]
    OBVIOUS
  <2>4. t \in Tasked /\ t.path = c /\ Children(t) = {TaskOf[q] : q \in Range(Kids(c))}
    BY <2>1, <2>3, TaskFacts DEF Tasked
  <2>5. {TaskOf[p] : p \in Open \ {c}} = Tasked \ {t}
    BY <1>2, <2>1, <2>3, TaskFacts DEF Tasked
  <2>6. Tasked' = {TaskOf[p] : p \in Open \ {c}} \cup {TaskOf[q] : q \in Range(Kids(c))}
    BY <2>1 DEF Tasked
  <2>7. Tasked' = (Tasked \ {t}) \cup Children(t)
    BY <2>4, <2>5, <2>6
  <2>8. Attended' = Attended
    BY <2>2 DEF Attended, Counted
  <2>9. QED
    BY <2>2, <2>4, <2>7, <2>8, Mapping
<1>6. CASE ~AddDv /\ ~RefineTask
  <2>1. Open' = Open /\ grad'["dv"] = grad["dv"]
    BY <1>6, OpenStep
  <2>2. Tasked' = Tasked /\ Attended' = Attended
    BY <2>1 DEF Tasked, Attended, Counted
  <2>3. QED
    BY <2>2, Mapping
<1>7. QED
  BY <1>4, <1>5, <1>6

\* Every step of the device path is a merge or a refinement of the abstract schedule,
\* or changes neither what is pending nor what was counted.
THEOREM Implements == Spec => CoverSteps
<1>1. IInv /\ [Next]_vars => [host_resident \/ Cover!Next]_(Cover!vars)
  BY CoverStep
<1>2. QED
  BY <1>1, Invariant, PTL DEF CoverSteps, Spec
=============================================================================
