---------------------------- MODULE ChunkPoolProofs ----------------------------
(***************************************************************************)
(* The device chunk pool is safe for every difference set, pool size,      *)
(* number of streams and failure: until a kernel has run, its chunks keep  *)
(* their slots and no copy that would overwrite them is waiting.           *)
(***************************************************************************)
EXTENDS ChunkPool, DecompositionProofs

\* The subproblems of the loop have at least one level.
Subproblem == {p \in Path : p # <<>>}

Needs(p)    == QuorumChunks(p[1])
Entry(c, x) == [chunk |-> c, slot |-> x]
DictEntry   == [chunk : Chunk, slot : PoolSlot]
mq          == queue[MergeStream]

\* The merge of p is issued and not done.
Merging(p) == \E k \in DOMAIN mq : mq[k].task = p

IsSeq(s) == s \in Seq(Range(s))

HostType ==
    /\ n_par \in Nat \ {0} /\ n_slots \in Nat \ {0} /\ nstreams \in 1 .. n_par /\ slot \in Nat
    /\ allow_escalation \in BOOLEAN
    /\ pc \in {"loop", "slot", "acquire", "merge", "sync", "end"}
    /\ pending \in Seq(Subproblem) /\ cur \in Subproblem \cup {None}
    /\ pc \in {"slot", "acquire", "merge", "sync"} => cur \in Subproblem

PoolType ==
    /\ slot_of \in Seq(DictEntry) /\ free \in Seq(PoolSlot)
    /\ refcount \in [Chunk -> Nat]
    /\ last_event \in [Chunk -> Subproblem \cup {None}]
    /\ DOMAIN content = PoolSlot
    /\ DOMAIN queue = Stream /\ \A s \in Stream : IsSeq(queue[s])

\* Every slot is either free or has one chunk in the dict, and a chunk has one slot.
DictInv ==
    /\ \A e, f \in Range(slot_of) : e.chunk = f.chunk \/ e.slot = f.slot => e = f
    /\ Distinct(slot_of) /\ Distinct(free)
    /\ {e.slot : e \in Range(slot_of)} \cup Range(free) = PoolSlot
    /\ {e.slot : e \in Range(slot_of)} \cap Range(free) = {}
    /\ Len(slot_of) + Len(free) = n_slots

\* What acquire has pinned so far is resident and referenced.
AcquireInv ==
    pc = "acquire" =>
        /\ todo \in Seq(Chunk) /\ Distinct(todo)
        /\ Range(todo) \cap DOMAIN assigned = {}
        /\ Range(todo) \cup DOMAIN assigned = Needs(cur)
        /\ \A c \in DOMAIN assigned :
              Entry(c, assigned[c]) \in Range(slot_of) /\ refcount[c] # 0

\* An operation still holds its chunks: its subproblem is the one being issued, or
\* its merge is not done yet.
Holding(o) ==
    \/ o.task = cur /\ pc = "acquire" /\ o.op = "copy" /\ o.chunk \in DOMAIN assigned
    \/ o.task = cur /\ pc \in {"merge", "sync", "end"}
    \/ Merging(o.task)

\* An operation's chunks are resident in the slots it addresses.
Placed(o) ==
    \/ o.op = "copy" /\ o.chunk \in Needs(o.task) /\ Entry(o.chunk, o.slot) \in Range(slot_of)
    \/ /\ o.op = "kernel" /\ DOMAIN o.rows = Needs(o.task)
       /\ \A c \in Needs(o.task) : Entry(c, o.rows[c]) \in Range(slot_of)

IssuedInv ==
    \A s \in StreamSlot : \A o \in Range(queue[s]) : Holding(o) /\ Placed(o)

\* The last event of a chunk is that of the last merge of a subproblem that needs it.
EventInv ==
    \A k \in DOMAIN mq :
        /\ mq[k].task \in Subproblem
        /\ \A c \in Needs(mq[k].task) :
              \E l \in DOMAIN mq : k <= l /\ mq[l].task = last_event[c]

\* The rows of a resident chunk are in its slot or on their way.
ContentInv ==
    \A e \in Range(slot_of) :
        \/ content[e.slot] = e.chunk
        \/ \E s \in StreamSlot : \E o \in Range(queue[s]) :
              o.op = "copy" /\ o.slot = e.slot /\ o.chunk = e.chunk

IInv == HostType /\ PoolType /\ DictInv /\ AcquireInv /\ IssuedInv /\ EventInv /\ ContentInv

\* References nobody gives back: those of the subproblems that failed.
Holds(c) == pc \in {"acquire", "merge", "sync"} /\ c \in DOMAIN assigned
Leaked == {c \in Chunk : IF Holds(c) THEN refcount[c] > 1 ELSE refcount[c] > 0}

LeakInv ==
    /\ pc # "end" /\ ~allow_escalation =>
          Cardinality(Leaked) <= (n_par - nstreams) * Cardinality(InterestSet)
    /\ \A c \in Chunk : Holds(c) => refcount[c] > 0
    /\ pc = "merge" => DOMAIN assigned = Needs(cur)
    /\ pc = "sync" => DOMAIN assigned \subseteq Needs(cur)

-----------------------------------------------------------------------------
(* Sequences.                                                                *)

\* A list without repetitions, less its last entry.
LEMMA FrontIs ==
    ASSUME NEW X, NEW q \in Seq(X), q # <<>>, Distinct(q)
    PROVE  /\ Front(q) \in Seq(X) /\ Distinct(Front(q)) /\ Len(Front(q)) = Len(q) - 1
           /\ Last(q) \in X /\ Last(q) \in Range(q)
           /\ Range(Front(q)) = Range(q) \ {Last(q)}
<1> DEFINE r == Front(q)
           n == Len(q)
<1>1. /\ r \in Seq(X) /\ Len(r) = n - 1 /\ n \in Nat /\ n # 0
      /\ DOMAIN q = 1 .. n /\ DOMAIN r = 1 .. n - 1
      /\ \A k \in 1 .. n - 1 : r[k] = q[k]
      /\ Last(q) = q[n] /\ q[n] \in X
  <2>1. n \in Nat /\ n # 0 /\ DOMAIN q = 1 .. n /\ n \in 1 .. n /\ r = SubSeq(q, 1, n - 1)
    BY DEF Front
  <2>2. Last(q) = q[n] /\ q[n] \in X
    BY <2>1 DEF Last
  <2>3. r \in Seq(X) /\ Len(r) = n - 1 /\ \A k \in 1 .. n - 1 : r[k] = q[k]
    <3> DEFINE m == n - 1
    <3>1. m \in 0 .. n /\ 1 \in 1 .. m + 1
      BY <2>1
    <3> HIDE DEF m, r
    <3>2. r = SubSeq(q, 1, m) /\ q \in Seq(X) /\ m \in 1 - 1 .. Len(q)
      BY <2>1, <3>1 DEF m, n
    <3> HIDE DEF n
    <3>3. /\ r \in Seq(X)
          /\ Len(r) = IF 1 <= m THEN m - 1 + 1 ELSE 0
          /\ \A k \in 1 .. m - 1 + 1 : r[k] = q[1 + k - 1]
      BY <3>2, SubSeqProperties
    <3>4. QED
      BY <3>1, <3>3 DEF m
  <2> HIDE DEF r, n
  <2>4. QED
    BY <2>1, <2>2, <2>3
<1> HIDE DEF r, n
<1>2. \A k \in 1 .. n : k \in 1 .. n - 1 \/ k = n
  BY <1>1
<1>3. \A k \in 1 .. n - 1 : k \in 1 .. n /\ k # n
  BY <1>1
<1>4. n \in 1 .. n
  BY <1>1
<1>5. Range(r) = Range(q) \ {Last(q)}
  BY <1>1, <1>2, <1>3, <1>4 DEF Range, Distinct
<1>6. Distinct(r)
  BY <1>1, <1>3 DEF Distinct
<1>7. QED
  BY <1>1, <1>4, <1>5, <1>6 DEF r, n, Range

\* A list without repetitions, less any entry.
LEMMA RemoveIs ==
    ASSUME NEW X, NEW q \in Seq(X), Distinct(q), NEW i \in DOMAIN q
    PROVE  /\ RemoveAt(q, i) \in Seq(X) /\ Distinct(RemoveAt(q, i))
           /\ Len(RemoveAt(q, i)) = Len(q) - 1
           /\ Range(RemoveAt(q, i)) = Range(q) \ {q[i]}
<1> DEFINE n == Len(q)
           a == SubSeq(q, 1, i - 1)
           b == SubSeq(q, i + 1, n)
           r == a \o b
<1>1. n \in Nat /\ i \in 1 .. n /\ DOMAIN q = 1 .. n /\ RemoveAt(q, i) = r
  BY DEF RemoveAt
<1>2. a \in Seq(X) /\ Len(a) = i - 1 /\ \A k \in 1 .. i - 1 : a[k] = q[k]
  BY <1>1
<1>3. b \in Seq(X) /\ Len(b) = n - i /\ \A k \in 1 .. n - i : b[k] = q[i + k]
  <2> DEFINE m == i + 1
  <2>1. m \in 1 .. n + 1 /\ n \in m - 1 .. n /\ m = i + 1
    BY <1>1
  <2> HIDE DEF m
  <2>2. b = SubSeq(q, m, n) /\ \A k \in m .. n : q[k] \in X
    BY <1>1, <2>1 DEF m
  <2> HIDE DEF b, n
  <2>3. /\ b \in Seq(X)
        /\ Len(b) = IF m <= n THEN n - m + 1 ELSE 0
        /\ \A k \in 1 .. n - m + 1 : b[k] = q[m + k - 1]
    BY <1>1, <2>1, <2>2, SubSeqProperties
  <2>4. n - m + 1 = n - i /\ \A k \in 1 .. n - i : m + k - 1 = i + k
    <3>1. i \in Int /\ n \in Int /\ m = i + 1
      BY <1>1, <2>1
    <3>2. n - m + 1 = n - i
      BY <3>1
    <3>3. \A k \in Int : m + k - 1 = i + k
      BY <3>1
    <3>4. QED
      BY <3>1, <3>2, <3>3
  <2>5. Len(b) = n - i
    BY <1>1, <2>1, <2>3
  <2>6. QED
    BY <2>3, <2>4, <2>5
<1> HIDE DEF a, b, n
<1>4. /\ r \in Seq(X) /\ Len(r) = (i - 1) + (n - i)
      /\ \A k \in 1 .. (i - 1) + (n - i) : r[k] = IF k <= i - 1 THEN a[k] ELSE b[k - (i - 1)]
  <2>1. /\ r \in Seq(X) /\ Len(r) = Len(a) + Len(b)
        /\ \A k \in 1 .. Len(a) + Len(b) : r[k] = IF k <= Len(a) THEN a[k] ELSE b[k - Len(a)]
    <3>1. a \in Seq(X) /\ b \in Seq(X)
      BY <1>2, <1>3
    <3>2. QED
      BY <3>1, ConcatProperties
  <2>2. Len(a) = i - 1 /\ Len(b) = n - i
    BY <1>2, <1>3
  <2> HIDE DEF r
  <2>3. QED
    BY <2>1, <2>2
<1>5. Len(r) = n - 1 /\ DOMAIN r = 1 .. n - 1
  BY <1>1, <1>4
<1> HIDE DEF r
<1>6. \A k \in 1 .. n - 1 : r[k] = IF k < i THEN q[k] ELSE q[k + 1]
  <2> TAKE k \in 1 .. n - 1
  <2>1. CASE k < i
    BY <1>1, <1>2, <1>4, <2>1
  <2>2. CASE ~(k < i)
    <3> DEFINE m == k - (i - 1)
    <3>1. m \in 1 .. n - i /\ i + m = k + 1 /\ ~(k <= i - 1) /\ k \in 1 .. (i - 1) + (n - i)
      BY <1>1, <2>2
    <3>2. r[k] = b[m]
      BY <1>4, <3>1
    <3> HIDE DEF m
    <3>3. b[m] = q[i + m]
      BY <1>3, <3>1
    <3>4. QED
      BY <2>2, <3>1, <3>2, <3>3
  <2>3. QED
    BY <2>1, <2>2
<1> DEFINE at(k) == IF k < i THEN k ELSE k + 1
<1>7. \A k \in 1 .. n - 1 : at(k) \in 1 .. n /\ at(k) # i /\ r[k] = q[at(k)]
  BY <1>1, <1>6
<1>8. \A m \in 1 .. n : m # i => \E k \in 1 .. n - 1 : at(k) = m
  <2> TAKE m \in 1 .. n
  <2> HAVE m # i
  <2>1. CASE m < i
    BY <1>1, <2>1
  <2>2. CASE ~(m < i)
    <3>1. m - 1 \in 1 .. n - 1 /\ ~(m - 1 < i) /\ (m - 1) + 1 = m
      BY <1>1, <2>2
    <3>2. QED
      BY <3>1
  <2>3. QED
    BY <2>1, <2>2
<1>9. \A j, k \in 1 .. n - 1 : at(j) = at(k) => j = k
  BY <1>1
<1> HIDE DEF at
<1>10. Range(r) = Range(q) \ {q[i]}
  <2>1. ASSUME NEW x \in Range(r) PROVE x \in Range(q) \ {q[i]}
    BY <1>1, <1>5, <1>7, <2>1 DEF Range, Distinct
  <2>2. ASSUME NEW x \in Range(q) \ {q[i]} PROVE x \in Range(r)
    <3>1. PICK m \in 1 .. n : q[m] = x /\ m # i
      BY <1>1, <2>2 DEF Range
    <3>2. PICK k \in 1 .. n - 1 : at(k) = m
      BY <1>8, <3>1
    <3>3. r[k] = x /\ k \in DOMAIN r
      BY <1>5, <1>7, <3>1, <3>2
    <3>4. QED
      BY <3>3 DEF Range
  <2>3. QED
    BY <2>1, <2>2
<1>11. Distinct(r)
  BY <1>1, <1>5, <1>7, <1>9 DEF Distinct
<1>12. QED
  BY <1>1, <1>4, <1>5, <1>10, <1>11 DEF n

\* Any sequence, whatever its entries.
LEMMA SeqAppend ==
    ASSUME NEW q, IsSeq(q), NEW o
    PROVE  /\ IsSeq(Append(q, o)) /\ Range(Append(q, o)) = Range(q) \cup {o}
           /\ Len(q) \in Nat
           /\ \A k \in DOMAIN q : Append(q, o)[k] = q[k] /\ k \in DOMAIN Append(q, o)
           /\ Append(q, o)[Len(q) + 1] = o /\ Len(q) + 1 \in DOMAIN Append(q, o)
           /\ \A k \in DOMAIN Append(q, o) : k \in DOMAIN q \/ k = Len(q) + 1
           /\ \A k \in DOMAIN q : k \in Nat /\ k <= Len(q)
<1> DEFINE X == Range(q) \cup {o}
<1>1. q \in Seq(X) /\ o \in X
  <2>1. q \in Seq(Range(q)) /\ Range(q) \subseteq X
    BY DEF IsSeq
  <2> HIDE DEF X
  <2>2. q \in Seq(X)
    BY <2>1
  <2>3. QED
    BY <2>2 DEF X
<1> HIDE DEF X
<1>2. Append(q, o) \in Seq(X) /\ Range(Append(q, o)) = X
  BY <1>1, AppendIs DEF X
<1>3. QED
  BY <1>1, <1>2, AppendIs DEF IsSeq, X

\* A list less its first entry.
LEMMA SeqTail ==
    ASSUME NEW q, IsSeq(q), q # <<>>
    PROVE  /\ IsSeq(Tail(q)) /\ Range(q) = {Head(q)} \cup Range(Tail(q))
           /\ Head(q) = q[1] /\ 1 \in DOMAIN q
           /\ \A k \in DOMAIN Tail(q) : k + 1 \in DOMAIN q /\ Tail(q)[k] = q[k + 1]
           /\ \A k \in DOMAIN q : k # 1 => k - 1 \in DOMAIN Tail(q) /\ Tail(q)[k - 1] = q[k]
           /\ \A k \in DOMAIN q : k \in Nat
           /\ \A k \in DOMAIN Tail(q) : k \in Nat
<1>1. q \in Seq(Range(q))
  BY DEF IsSeq
<1>2. Tail(q) \in Seq(Range(q))
  BY <1>1, TailIs
<1>3. IsSeq(Tail(q))
  <2> DEFINE r == Tail(q)
  <2>1. r \in Seq(Range(q))
    BY <1>2
  <2> HIDE DEF r
  <2>2. r \in Seq(Range(r))
    BY <2>1 DEF Range
  <2>3. QED
    BY <2>2 DEF r, IsSeq
<1>4. QED
  BY <1>1, <1>2, <1>3, TailIs

-----------------------------------------------------------------------------
(* Subproblems and their chunks.                                             *)

\* A subproblem needs chunks of the call,
LEMMA NeedsAre ==
    ASSUME NEW p \in Subproblem
    PROVE  Needs(p) \subseteq Chunk
<1>1. p \in Seq(Chunk) /\ p # <<>>
  BY PathIs DEF Subproblem
<1>2. p[1] \in Chunk
  BY <1>1
<1>3. \A m \in Int : m % C \in Chunk
  BY DecompositionAssumption DEF Chunk
<1>4. QED
  BY <1>2, <1>3, DecompositionAssumption DEF Needs, QuorumChunks, Chunk

\* and acquire is given each of them once.
LEMMA CidsAre ==
    ASSUME NEW p \in Subproblem
    PROVE  /\ Cids(p) \in Seq(Chunk) /\ Distinct(Cids(p))
           /\ Range(Cids(p)) = Needs(p)
<1> DEFINE list == [k \in 1 .. C |-> k - 1]
<1>1. C \in Nat /\ Chunk = 0 .. C - 1
  BY DecompositionAssumption DEF Chunk
<1>2. list \in Seq(Chunk) /\ Distinct(list)
  BY <1>1 DEF Distinct
<1>3. Range(list) = Chunk
  <2>1. \A c \in Chunk : c + 1 \in 1 .. C /\ (c + 1) - 1 = c
    BY <1>1
  <2>2. \A c \in Chunk : list[c + 1] = c
    BY <2>1
  <2>3. \A k \in 1 .. C : list[k] \in Chunk
    BY <1>1
  <2>4. DOMAIN list = 1 .. C
    OBVIOUS
  <2> HIDE DEF list
  <2>5. QED
    BY <2>1, <2>2, <2>3, <2>4 DEF Range
<1>4. Cids(p) = Entries(list, Needs(p))
  BY DEF Cids, Selected, Entries, Needs
<1> HIDE DEF list
<1>5. /\ Entries(list, Needs(p)) \in Seq(Chunk)
      /\ Range(Entries(list, Needs(p))) = Range(list) \cap Needs(p)
      /\ Distinct(Entries(list, Needs(p)))
  BY <1>2, EntriesAre
<1>6. Needs(p) \subseteq Chunk
  BY NeedsAre
<1>7. QED
  BY <1>3, <1>4, <1>5, <1>6

\* The queue starts with subproblems of the first level,
LEMMA FirstTasks == Tasks[Itr] \in Seq(Subproblem)
<1> DEFINE list == Tasks[Itr]
<1>1. Itr = 1 /\ Itr \in 0 .. Deepest
  BY DeepestType, PoolAssumption
<1>2. list \in Seq(Path) /\ \A k \in DOMAIN list : Len(list[k]) = 1
  BY <1>1, TasksAre
<1> HIDE DEF list
<1>3. \A k \in DOMAIN list : list[k] \in Subproblem
  BY <1>2 DEF Subproblem
<1>4. QED
  BY <1>2, <1>3 DEF list

\* and refining puts subproblems in it.
LEMMA KidsAre ==
    ASSUME NEW p \in Subproblem, Len(p) < MaxDepth
    PROVE  Kids(p) \in Seq(Subproblem)
<1> DEFINE list == Kids(p)
<1>1. p \in Path /\ Len(p) < Deepest /\ Len(p) \in Int
  BY DeepestType, MaxDepthType, PathStep DEF Subproblem
<1>2. list \in Seq(Path) /\ Range(list) \subseteq {Append(p, j) : j \in Chunk}
  BY <1>1, KidsIs
<1> HIDE DEF list
<1>3. \A k \in DOMAIN list : list[k] \in Path /\ list[k] # <<>>
  <2>1. \A k \in DOMAIN list : list[k] \in Path /\ list[k] \in Range(list)
    BY <1>2 DEF Range
  <2>2. \A j \in Chunk : Append(p, j) # <<>>
    BY <1>1, PathStep
  <2>3. QED
    BY <1>2, <2>1, <2>2
<1>4. QED
  BY <1>2, <1>3 DEF Subproblem, list

-----------------------------------------------------------------------------
(* What the longer steps do.                                                 *)

\* The slot of the next subproblem is a worker stream.
LEMMA SlotIs ==
    ASSUME HostType
    PROVE  /\ S \in StreamSlot /\ S # MergeStream /\ S \in Stream
           /\ StreamSlot \subseteq Stream /\ MergeStream \notin StreamSlot
<1> DEFINE r == slot % nstreams
<1>1. n_par \in Nat /\ nstreams \in 1 .. n_par /\ slot \in Nat
  BY DEF HostType
<1>2. r \in 0 .. nstreams - 1
  BY <1>1
<1> HIDE DEF r
<1>3. r + 1 \in 1 .. n_par /\ r + 1 # 0
  BY <1>1, <1>2
<1>4. QED
  BY <1>3 DEF S, r, StreamSlot, Stream, MergeStream

\* A chunk is pinned in a slot.
LEMMA PinFacts ==
    ASSUME IInv, NEW x, Pin(x), pc = "acquire", todo # <<>>
    PROVE  LET c == Head(todo) IN
           /\ c \in Chunk /\ c \in Needs(cur) /\ c \notin DOMAIN assigned
           /\ cur \in Subproblem
           /\ todo' \in Seq(Chunk) /\ Distinct(todo')
           /\ Range(todo) = Range(todo') \cup {c} /\ c \notin Range(todo')
           /\ DOMAIN assigned' = DOMAIN assigned \cup {c}
           /\ assigned'[c] = x /\ \A d \in DOMAIN assigned : assigned'[d] = assigned[d]
           /\ refcount' \in [Chunk -> Nat] /\ refcount'[c] # 0 /\ refcount'[c] = refcount[c] + 1
           /\ \A d \in Chunk : d # c => refcount'[d] = refcount[d]
           /\ pc' = pc /\ cur' = cur /\ content' = content /\ pending' = pending
           /\ n_par' = n_par /\ n_slots' = n_slots /\ nstreams' = nstreams /\ slot' = slot
           /\ allow_escalation' = allow_escalation
<1> DEFINE c == Head(todo)
<1>1. /\ todo \in Seq(Chunk) /\ Distinct(todo) /\ Range(todo) \cap DOMAIN assigned = {}
      /\ Range(todo) \cup DOMAIN assigned = Needs(cur) /\ cur \in Subproblem
      /\ refcount \in [Chunk -> Nat]
  BY DEF IInv, AcquireInv, HostType, PoolType
<1>2. /\ Tail(todo) \in Seq(Chunk) /\ Distinct(Tail(todo))
      /\ Range(todo) = Range(Tail(todo)) \cup {c} /\ c \notin Range(Tail(todo))
      /\ c \in Chunk
  <2>1. c = todo[1] /\ 1 \in DOMAIN todo
    BY <1>1, TailIs
  <2>2. c \in Chunk
    BY <1>1, <2>1
  <2>3. QED
    BY <1>1, <2>2, TailIs
<1>3. /\ todo' = Tail(todo) /\ refcount' = [refcount EXCEPT ![c] = @ + 1]
      /\ assigned' = [d \in DOMAIN assigned \cup {c} |-> IF d = c THEN x ELSE assigned[d]]
      /\ pc' = pc /\ cur' = cur /\ content' = content /\ pending' = pending
      /\ n_par' = n_par /\ n_slots' = n_slots /\ nstreams' = nstreams /\ slot' = slot
      /\ allow_escalation' = allow_escalation
  BY DEF Pin, loopVars, callVars
<1> HIDE DEF c
<1>4. c \notin DOMAIN assigned /\ c \in Needs(cur)
  BY <1>1, <1>2
<1>5. /\ DOMAIN assigned' = DOMAIN assigned \cup {c} /\ assigned'[c] = x
      /\ \A d \in DOMAIN assigned : assigned'[d] = assigned[d]
  BY <1>3, <1>4
<1>6. /\ refcount' \in [Chunk -> Nat] /\ refcount'[c] # 0 /\ refcount'[c] = refcount[c] + 1
      /\ \A d \in Chunk : d # c => refcount'[d] = refcount[d]
  BY <1>1, <1>2, <1>3
<1>7. QED
  BY <1>1, <1>2, <1>3, <1>4, <1>5, <1>6 DEF c

\* A hit changes nothing but the pin.
LEMMA HitFacts ==
    ASSUME IInv, Hit
    PROVE  /\ pc = "acquire" /\ todo # <<>>
           /\ \E x : Pin(x) /\ Entry(Head(todo), x) \in Range(slot_of)
           /\ slot_of' = slot_of /\ last_event' = last_event /\ free' = free /\ queue' = queue
<1>1. PICK i \in DOMAIN slot_of : slot_of[i].chunk = Head(todo)
  BY DEF Hit, Resident
<1> DEFINE i0 == CHOOSE e \in DOMAIN slot_of : slot_of[e].chunk = Head(todo)
<1>2. i0 \in DOMAIN slot_of /\ slot_of[i0].chunk = Head(todo)
  BY <1>1
<1>3. ResidentSlot(Head(todo)) = slot_of[i0].slot
  BY DEF ResidentSlot
<1> HIDE DEF i0
<1>4. slot_of[i0] = Entry(Head(todo), slot_of[i0].slot)
  <2>1. slot_of[i0] \in DictEntry
    BY <1>2 DEF IInv, PoolType
  <2>2. QED
    BY <1>2, <2>1 DEF Entry, DictEntry
<1>5. slot_of[i0] \in Range(slot_of)
  BY <1>2 DEF Range
<1>6. QED
  BY <1>3, <1>4, <1>5 DEF Hit

\* A chunk is copied into slot x, in place of the chunk that had it.
Loads(x) ==
    /\ pc = "acquire" /\ todo # <<>> /\ Pin(x) /\ x \in PoolSlot
    /\ \A e \in Range(slot_of) : e.chunk # Head(todo)
    /\ slot_of' \in Seq(DictEntry) /\ Distinct(slot_of')
    /\ free' \in Seq(PoolSlot) /\ Distinct(free') /\ Range(free') = Range(free) \ {x}
    /\ Len(slot_of') + Len(free') = Len(slot_of) + Len(free)
    /\ Range(slot_of') = {e \in Range(slot_of) : e.slot # x} \cup {Entry(Head(todo), x)}
    /\ \A e \in Range(slot_of) : e.slot = x =>
          /\ refcount[e.chunk] = 0
          /\ last_event[e.chunk] = None \/ ~Merging(last_event[e.chunk])
    /\ last_event' \in [Chunk -> Subproblem \cup {None}]
    /\ \A d \in Chunk : \/ last_event'[d] = last_event[d]
                        \/ \E e \in Range(slot_of) : e.slot = x /\ e.chunk = d
    /\ queue' = [queue EXCEPT ![S] =
                    Append(@, [op |-> "copy", task |-> cur, chunk |-> Head(todo), slot |-> x])]

\* A miss with a free slot loads it.
LEMMA FreeFacts ==
    ASSUME IInv, MissFree
    PROVE  \E x : Loads(x)
<1> DEFINE x == Last(free)
           e == Entry(Head(todo), x)
<1>1. /\ pc = "acquire" /\ todo # <<>> /\ Pin(x) /\ free # <<>> /\ free' = Front(free)
      /\ \A k \in DOMAIN slot_of : slot_of[k].chunk # Head(todo)
      /\ slot_of' = Append(slot_of, e) /\ last_event' = last_event
      /\ queue' = [queue EXCEPT ![S] =
                    Append(@, [op |-> "copy", task |-> cur, chunk |-> Head(todo), slot |-> x])]
  BY DEF MissFree, LoadInto, Resident, Entry
<1>2. /\ free \in Seq(PoolSlot) /\ Distinct(free) /\ Distinct(slot_of)
      /\ slot_of \in Seq(DictEntry)
      /\ {f.slot : f \in Range(slot_of)} \cap Range(free) = {}
      /\ last_event \in [Chunk -> Subproblem \cup {None}]
  BY DEF IInv, PoolType, DictInv
<1>3. /\ Front(free) \in Seq(PoolSlot) /\ Distinct(Front(free)) /\ Len(Front(free)) = Len(free) - 1
      /\ x \in PoolSlot /\ x \in Range(free) /\ Range(Front(free)) = Range(free) \ {x}
  BY <1>1, <1>2, FrontIs
<1>4. Head(todo) \in Chunk
  BY <1>1, PinFacts
<1> HIDE DEF x
<1>5. e \in DictEntry /\ e.slot = x /\ e.chunk = Head(todo)
  BY <1>3, <1>4 DEF Entry, DictEntry
<1>6. \A f \in Range(slot_of) : f.slot # x /\ f.chunk # Head(todo)
  BY <1>1, <1>2, <1>3 DEF Range
<1> HIDE DEF e
<1>7. e \notin Range(slot_of)
  BY <1>5, <1>6
<1>8. /\ Append(slot_of, e) \in Seq(DictEntry)
      /\ Distinct(Append(slot_of, e)) /\ Range(Append(slot_of, e)) = Range(slot_of) \cup {e}
      /\ Len(Append(slot_of, e)) = Len(slot_of) + 1
  BY <1>2, <1>5, <1>7, AppendIs
<1>9. Len(slot_of) \in Nat /\ Len(free) \in Nat
  BY <1>2
<1>10. Len(slot_of') + Len(free') = Len(slot_of) + Len(free)
  BY <1>1, <1>3, <1>8, <1>9
<1>11. Range(slot_of') = {f \in Range(slot_of) : f.slot # x} \cup {e}
  BY <1>1, <1>6, <1>8
<1>12. Loads(x)
  BY <1>1, <1>2, <1>3, <1>6, <1>8, <1>10, <1>11 DEF Loads, e
<1>13. QED
  BY <1>12

\* A miss without one loads the slot it evicts.
LEMMA EvictFacts ==
    ASSUME IInv, MissEvict
    PROVE  \E x : Loads(x)
<1> DEFINE i == Min(Victims)
           v == slot_of[i].chunk
           x == slot_of[i].slot
           e == Entry(Head(todo), x)
<1>1. /\ pc = "acquire" /\ todo # <<>> /\ Pin(x) /\ free = <<>> /\ free' = free
      /\ Victims # {} /\ EventFired(v)
      /\ \A k \in DOMAIN slot_of : slot_of[k].chunk # Head(todo)
      /\ slot_of' = Append(RemoveAt(slot_of, i), e)
      /\ last_event' = [last_event EXCEPT ![v] = None]
      /\ queue' = [queue EXCEPT ![S] =
                    Append(@, [op |-> "copy", task |-> cur, chunk |-> Head(todo), slot |-> x])]
  BY DEF MissEvict, LoadInto, Resident, Entry
<1>2. /\ free \in Seq(PoolSlot) /\ Distinct(free) /\ Distinct(slot_of)
      /\ slot_of \in Seq(DictEntry)
      /\ \A f, g \in Range(slot_of) : f.chunk = g.chunk \/ f.slot = g.slot => f = g
      /\ last_event \in [Chunk -> Subproblem \cup {None}]
  BY DEF IInv, PoolType, DictInv
<1>3. i \in DOMAIN slot_of /\ refcount[v] = 0
  <2>1. Victims \subseteq DOMAIN slot_of /\ Victims \subseteq Nat
    BY <1>2 DEF Victims
  <2>2. PICK k \in Victims : \A m \in Victims : k <= m
    BY <1>1, <2>1, LeastNatural
  <2>3. i \in Victims
    BY <2>2 DEF Min
  <2> HIDE DEF i
  <2>4. QED
    BY <2>3 DEF Victims, Evictable
<1>4. Head(todo) \in Chunk
  BY <1>1, PinFacts
<1> HIDE DEF i
<1>5. /\ slot_of[i] \in Range(slot_of) /\ slot_of[i] = Entry(v, x)
      /\ x \in PoolSlot /\ v \in Chunk
  <2>1. slot_of[i] \in DictEntry
    BY <1>2, <1>3
  <2>2. QED
    BY <1>3, <2>1 DEF Range, Entry, DictEntry
<1> DEFINE rest == RemoveAt(slot_of, i)
<1>6. /\ rest \in Seq(DictEntry) /\ Distinct(rest)
      /\ Len(rest) = Len(slot_of) - 1 /\ Range(rest) = Range(slot_of) \ {slot_of[i]}
  BY <1>2, <1>3, RemoveIs
<1>7. \A f \in Range(slot_of) : f.chunk # Head(todo)
  BY <1>1 DEF Range
<1>8. \A f \in Range(slot_of) : f.slot = x => f = slot_of[i]
  BY <1>2, <1>5
<1>9. last_event[v] = None \/ ~Merging(last_event[v])
  BY <1>1 DEF EventFired, MergeDone, Merging, mq
<1>10. Range(free) = {}
  BY <1>1 DEF Range
<1> HIDE DEF v, x, rest
<1>11. e \in DictEntry /\ e.slot = x /\ e.chunk = Head(todo)
  BY <1>4, <1>5 DEF Entry, DictEntry
<1>12. slot_of[i].slot = x /\ slot_of[i].chunk = v
  BY DEF x, v
<1> HIDE DEF e
<1>13. e \notin Range(rest)
  BY <1>6, <1>7, <1>11
<1>14. /\ Append(rest, e) \in Seq(DictEntry)
       /\ Distinct(Append(rest, e)) /\ Range(Append(rest, e)) = Range(rest) \cup {e}
       /\ Len(Append(rest, e)) = Len(rest) + 1
  BY <1>6, <1>11, <1>13, AppendIs
<1>15. Len(slot_of) \in Nat /\ Len(free) \in Nat
  BY <1>2
<1>16. slot_of' = Append(rest, e)
  BY <1>1 DEF rest
<1>17. Len(slot_of') + Len(free') = Len(slot_of) + Len(free)
  BY <1>1, <1>6, <1>14, <1>15, <1>16
<1>18. Range(slot_of') = {f \in Range(slot_of) : f.slot # x} \cup {e}
  <2>1. Range(rest) = {f \in Range(slot_of) : f.slot # x}
    BY <1>6, <1>8, <1>12
  <2>2. QED
    BY <1>14, <1>16, <2>1
<1>19. \A f \in Range(slot_of) : f.slot = x =>
          refcount[f.chunk] = 0 /\ (last_event[f.chunk] = None \/ ~Merging(last_event[f.chunk]))
  BY <1>3, <1>8, <1>9, <1>12
<1>20. last_event' \in [Chunk -> Subproblem \cup {None}]
  BY <1>1, <1>2
<1>21. \A d \in Chunk : \/ last_event'[d] = last_event[d]
                        \/ \E f \in Range(slot_of) : f.slot = x /\ f.chunk = d
  BY <1>1, <1>2, <1>5, <1>12
<1>22. Range(free') = Range(free) \ {x} /\ free' \in Seq(PoolSlot) /\ Distinct(free')
  BY <1>1, <1>2, <1>10
<1>23. Pin(x)
  BY <1>1 DEF x
<1>24. queue' = [queue EXCEPT ![S] =
                    Append(@, [op |-> "copy", task |-> cur, chunk |-> Head(todo), slot |-> x])]
  BY <1>1 DEF x
<1>25. Loads(x)
  BY <1>1, <1>5, <1>7, <1>14, <1>16, <1>17, <1>18, <1>19, <1>20, <1>21, <1>22, <1>23, <1>24
     DEF Loads, e
<1>26. QED
  BY <1>25

-----------------------------------------------------------------------------
(* Types.                                                                    *)

\* An operation is issued to a stream, or the first one is done.
LEMMA Push ==
    ASSUME PoolType, NEW s \in Stream, NEW o, queue' = [queue EXCEPT ![s] = Append(@, o)],
           n_par' = n_par
    PROVE  /\ DOMAIN queue' = Stream /\ \A r \in Stream : IsSeq(queue'[r])
           /\ queue'[s] = Append(queue[s], o)
           /\ \A r \in Stream : r # s => queue'[r] = queue[r]
           /\ Range(queue'[s]) = Range(queue[s]) \cup {o}
<1>1. DOMAIN queue = Stream /\ \A r \in Stream : IsSeq(queue[r])
  BY DEF PoolType
<1>2. IsSeq(Append(queue[s], o)) /\ Range(Append(queue[s], o)) = Range(queue[s]) \cup {o}
  BY <1>1, SeqAppend
<1>3. queue'[s] = Append(queue[s], o) /\ \A r \in Stream : r # s => queue'[r] = queue[r]
  BY <1>1
<1>4. DOMAIN queue' = Stream
  BY <1>1
<1>5. QED
  BY <1>1, <1>2, <1>3, <1>4

\* The first operation of a stream is done.
LEMMA Done ==
    ASSUME PoolType, NEW s \in Stream, NEW kind, Exec(s, kind)
    PROVE  /\ DOMAIN queue' = Stream /\ \A r \in Stream : IsSeq(queue'[r])
           /\ queue'[s] = Tail(queue[s]) /\ queue[s] # <<>> /\ Head(queue[s]).op = kind
           /\ \A r \in Stream : r # s => queue'[r] = queue[r]
           /\ Range(queue[s]) = {Head(queue[s])} \cup Range(queue'[s])
           /\ Stream' = Stream /\ StreamSlot' = StreamSlot /\ PoolSlot' = PoolSlot
<1>1. DOMAIN queue = Stream /\ \A r \in Stream : IsSeq(queue[r])
  BY DEF PoolType
<1>2. queue' = [queue EXCEPT ![s] = Tail(@)] /\ queue[s] # <<>> /\ Head(queue[s]).op = kind
  BY DEF Exec
<1>3. IsSeq(Tail(queue[s])) /\ Range(queue[s]) = {Head(queue[s])} \cup Range(Tail(queue[s]))
  BY <1>1, <1>2, SeqTail
<1>4. queue'[s] = Tail(queue[s]) /\ \A r \in Stream : r # s => queue'[r] = queue[r]
  BY <1>1, <1>2
<1>5. n_par' = n_par /\ n_slots' = n_slots
  BY DEF Exec, loopVars, callVars
<1>6. QED
  BY <1>1, <1>2, <1>3, <1>4, <1>5 DEF Stream, StreamSlot, PoolSlot

\* Every miss loads a chunk.
LEMMA MissFacts ==
    ASSUME IInv, MissFree \/ MissEvict
    PROVE  \E x : Loads(x)
  BY FreeFacts, EvictFacts

\* The steps of the host that neither pin chunks nor issue work.
Quiet ==
    \/ Pop \/ WaitSlot \/ Exhausted \/ Oom \/ HalveStreams \/ RefineTask \/ GiveUp
    \/ Return \/ Ended \/ UNCHANGED vars

\* Every step is quiet, pins a chunk, issues work or completes an operation.
LEMMA Cases ==
    ASSUME [Next]_vars
    PROVE  \/ Quiet \/ Hit \/ MissFree \/ MissEvict \/ Launch \/ MergeAndRelease
           \/ \E s \in StreamSlot : Copy(s)
           \/ \E s \in StreamSlot : Kernel(s)
           \/ MergeOp
  BY DEF Next, Quiet

\* A quiet step leaves the pool and the streams alone.
LEMMA QuietFacts ==
    ASSUME Quiet
    PROVE  /\ UNCHANGED <<callVars, poolVars, queue, content>>
           /\ \/ todo' = todo /\ assigned' = assigned
              \/ WaitSlot
<1> USE DEF poolVars, loopVars, callVars
<1>1. CASE Pop
  BY <1>1 DEF Pop
<1>2. CASE WaitSlot
  BY <1>2 DEF WaitSlot
<1>3. CASE Exhausted
  BY <1>3 DEF Exhausted
<1>4. CASE Oom
  BY <1>4 DEF Oom
<1>5. CASE HalveStreams
  BY <1>5 DEF HalveStreams, Recovered
<1>6. CASE RefineTask
  BY <1>6 DEF RefineTask, Recovered
<1>7. CASE GiveUp
  BY <1>7 DEF GiveUp
<1>8. CASE Return
  BY <1>8 DEF Return
<1>9. CASE Ended \/ UNCHANGED vars
  BY <1>9 DEF Ended, vars
<1>10. QED
  BY <1>1, <1>2, <1>3, <1>4, <1>5, <1>6, <1>7, <1>8, <1>9 DEF Quiet

\* Every action keeps the types of the host's variables,
LEMMA HostTypeStep ==
    ASSUME IInv, [Next]_vars
    PROVE  HostType'
<1> USE DEF IInv, HostType, callVars, loopVars, poolVars
<1>1. CASE Pop
  <2>1. Head(pending) \in Subproblem /\ Tail(pending) \in Seq(Subproblem)
    BY <1>1, TailIs DEF Pop
  <2>2. QED
    BY <1>1, <2>1 DEF Pop
<1>2. CASE WaitSlot
  BY <1>2 DEF WaitSlot
<1>3. CASE Exhausted
  BY <1>3 DEF Exhausted
<1>4. CASE Oom
  BY <1>4 DEF Oom
<1>5. CASE HalveStreams
  <2> DEFINE q == nstreams \div 2
  <2>1. nstreams \in Nat /\ nstreams > 1 /\ nstreams <= n_par /\ n_par \in Nat
    BY <1>5 DEF HalveStreams
  <2>2. q \in 1 .. n_par
    BY <2>1
  <2> HIDE DEF q
  <2>3. <<cur>> \o pending \in Seq(Subproblem)
    <3>1. <<cur>> \in Seq(Subproblem)
      BY <1>5 DEF HalveStreams
    <3>2. QED
      BY <3>1, ConcatProperties
  <2>4. nstreams' = q /\ pending' = <<cur>> \o pending
    BY <1>5 DEF HalveStreams, q
  <2>5. QED
    BY <1>5, <2>2, <2>3, <2>4 DEF HalveStreams, Recovered
<1>6. CASE RefineTask
  <2>1. Kids(cur) \in Seq(Subproblem)
    BY <1>6, KidsAre DEF RefineTask, CanRefine
  <2>2. Kids(cur) \o pending \in Seq(Subproblem)
    BY <2>1, ConcatProperties
  <2>3. QED
    BY <1>6, <2>2 DEF RefineTask, Recovered
<1>7. CASE GiveUp
  BY <1>7 DEF GiveUp
<1>8. CASE Return
  BY <1>8 DEF Return
<1>9. CASE Ended \/ UNCHANGED vars
  BY <1>9 DEF Ended, vars
<1>10. CASE Hit
  BY <1>10, HitFacts, PinFacts
<1>11. CASE MissFree \/ MissEvict
  <2>1. PICK x : Pin(x)
    BY <1>11, MissFacts DEF Loads
  <2>2. UNCHANGED <<pc, loopVars>>
    BY <2>1 DEF Pin
  <2>3. QED
    BY <2>2
<1>12. CASE Launch
  BY <1>12 DEF Launch
<1>13. CASE MergeAndRelease
  BY <1>13 DEF MergeAndRelease
<1>14. ASSUME NEW s \in Stream, NEW kind, Exec(s, kind) PROVE HostType'
  BY <1>14 DEF Exec
<1>15. CASE \E s \in StreamSlot : Copy(s) \/ Kernel(s)
  BY <1>14, <1>15 DEF Copy, Kernel, Stream
<1>16. CASE MergeOp
  BY <1>14, <1>16 DEF MergeOp, Stream
<1>17. QED
  BY <1>1, <1>2, <1>3, <1>4, <1>5, <1>6, <1>7, <1>8, <1>9, <1>10, <1>11, <1>12, <1>13, <1>15,
     <1>16, Cases DEF Quiet

\* and those of the pool and the streams.
LEMMA PoolTypeStep ==
    ASSUME IInv, [Next]_vars
    PROVE  PoolType'
<1>t. PoolType /\ HostType
  BY DEF IInv
<1>1. CASE Quiet
  BY <1>1, <1>t, QuietFacts
     DEF PoolType, callVars, poolVars, Stream, StreamSlot, PoolSlot, DictEntry
<1>2. CASE Hit
  <2>1. PICK x : Pin(x)
    BY <1>2, HitFacts
  <2>2. /\ refcount' \in [Chunk -> Nat] /\ content' = content
        /\ n_par' = n_par /\ n_slots' = n_slots
    BY <1>2, <2>1, HitFacts, PinFacts
  <2>3. QED
    BY <1>2, <1>t, <2>2, HitFacts DEF PoolType, Stream, StreamSlot, PoolSlot, DictEntry
<1>3. CASE MissFree \/ MissEvict
  <2>1. PICK x : Loads(x)
    BY <1>3, MissFacts
  <2>2. /\ refcount' \in [Chunk -> Nat] /\ content' = content
        /\ n_par' = n_par /\ n_slots' = n_slots
    BY <2>1, PinFacts DEF Loads
  <2>3. Stream' = Stream /\ PoolSlot' = PoolSlot
    BY <2>2 DEF Stream, StreamSlot, PoolSlot
  <2>4. DictEntry' = DictEntry
    BY <2>3 DEF DictEntry
  <2>5. DOMAIN queue' = Stream /\ \A s \in Stream : IsSeq(queue'[s])
    BY <1>t, <2>1, <2>2, Push, SlotIs DEF Loads
  <2>6. QED
    BY <1>t, <2>1, <2>2, <2>3, <2>4, <2>5 DEF PoolType, Loads
<1>4. CASE Launch
  <2>1. /\ UNCHANGED <<callVars, poolVars, content>>
        /\ queue' = [queue EXCEPT ![S] =
                        Append(@, [op |-> "kernel", task |-> cur, rows |-> assigned])]
    BY <1>4 DEF Launch, loopVars
  <2>2. Stream' = Stream /\ PoolSlot' = PoolSlot /\ n_par' = n_par
    BY <2>1 DEF Stream, StreamSlot, PoolSlot, callVars
  <2>3. DictEntry' = DictEntry
    BY <2>2 DEF DictEntry
  <2>4. DOMAIN queue' = Stream /\ \A s \in Stream : IsSeq(queue'[s])
    BY <1>t, <2>1, <2>2, Push, SlotIs
  <2>5. QED
    BY <1>t, <2>1, <2>2, <2>3, <2>4 DEF PoolType, poolVars
<1>5. CASE MergeAndRelease
  <2>1. /\ UNCHANGED <<callVars, slot_of, free, content>>
        /\ queue' = [queue EXCEPT ![MergeStream] = Append(@, [op |-> "merge", task |-> cur])]
        /\ refcount' = [c \in Chunk |-> IF c \in Range(Cids(cur)) THEN Dropped(refcount[c])
                                                                  ELSE refcount[c]]
        /\ last_event' = [c \in Chunk |-> IF c \in Range(Cids(cur)) THEN cur ELSE last_event[c]]
        /\ cur \in Subproblem
    BY <1>5, <1>t DEF MergeAndRelease, HostType
  <2>2. Stream' = Stream /\ PoolSlot' = PoolSlot /\ n_par' = n_par
    BY <2>1 DEF Stream, StreamSlot, PoolSlot, callVars
  <2>3. DictEntry' = DictEntry
    BY <2>2 DEF DictEntry
  <2>4. MergeStream \in Stream
    BY DEF Stream
  <2>5. DOMAIN queue' = Stream /\ \A s \in Stream : IsSeq(queue'[s])
    BY <1>t, <2>1, <2>2, <2>4, Push
  <2>6. \A c \in Chunk : refcount[c] \in Nat /\ last_event[c] \in Subproblem \cup {None}
    BY <1>t DEF PoolType
  <2>7. \A n \in Nat : Dropped(n) \in Nat
    BY DEF Dropped
  <2>8. refcount' \in [Chunk -> Nat]
    BY <2>1, <2>6, <2>7
  <2>9. last_event' \in [Chunk -> Subproblem \cup {None}]
    BY <2>1, <2>6
  <2>10. QED
    BY <1>t, <2>1, <2>2, <2>3, <2>5, <2>8, <2>9 DEF PoolType
<1>6. ASSUME NEW s \in Stream, NEW kind, Exec(s, kind), DOMAIN content' = DOMAIN content
      PROVE  PoolType'
  <2>1. DOMAIN queue' = Stream /\ \A r \in Stream : IsSeq(queue'[r])
    BY <1>t, <1>6, Done
  <2>2. Stream' = Stream /\ PoolSlot' = PoolSlot
    BY <1>t, <1>6, Done
  <2>3. DictEntry' = DictEntry
    BY <2>2 DEF DictEntry
  <2>4. QED
    BY <1>t, <1>6, <2>1, <2>2, <2>3 DEF PoolType, Exec, poolVars
<1>7. CASE \E s \in StreamSlot : Copy(s) \/ Kernel(s)
  BY <1>6, <1>7 DEF Copy, Kernel, Stream
<1>8. CASE MergeOp
  BY <1>6, <1>8 DEF MergeOp, Stream
<1>9. QED
  BY <1>1, <1>2, <1>3, <1>4, <1>5, <1>7, <1>8, Cases

-----------------------------------------------------------------------------
(* The pool.                                                                 *)

\* None is not a subproblem.
LEMMA NoneIsNone == None \notin Subproblem
  BY PoolAssumption DEF Subproblem

\* The chunk of a slot that is reloaded is not needed by work whose merge is not done.
LEMMA EvictedIsDone ==
    ASSUME IInv, NEW x, Loads(x), NEW e \in Range(slot_of), e.slot = x,
           NEW p, Merging(p), e.chunk \in Needs(p)
    PROVE  FALSE
<1>1. PICK k \in DOMAIN mq : mq[k].task = p
  BY DEF Merging
<1>2. PICK l \in DOMAIN mq : mq[l].task = last_event[e.chunk]
  BY <1>1 DEF IInv, EventInv
<1>3. mq[l].task \in Subproblem
  BY DEF IInv, EventInv
<1>4. last_event[e.chunk] # None
  BY <1>2, <1>3, NoneIsNone
<1>5. Merging(last_event[e.chunk])
  BY <1>2 DEF Merging
<1>6. QED
  BY <1>4, <1>5 DEF Loads

\* The operations issued so far keep the slots they address.
LEMMA Untouched ==
    ASSUME IInv, NEW x, Loads(x), NEW s \in StreamSlot, NEW o \in Range(queue[s])
    PROVE  Placed(o)' 
<1>1. Holding(o) /\ Placed(o) /\ pc = "acquire"
  BY DEF IInv, IssuedInv, Loads
<1>2. \A c, y : Entry(c, y).chunk = c /\ Entry(c, y).slot = y
  BY DEF Entry
<1>3. \A e \in Range(slot_of) : e.slot # x => e \in Range(slot_of')
  BY DEF Loads
<1>4. CASE o.op = "copy"
  <2>1. o.chunk \in Needs(o.task) /\ Entry(o.chunk, o.slot) \in Range(slot_of)
    BY <1>1, <1>4 DEF Placed
  <2>2. o.slot # x
    <3> SUFFICES ASSUME o.slot = x PROVE FALSE
      OBVIOUS
    <3>1. refcount[o.chunk] = 0
      BY <1>2, <2>1 DEF Loads
    <3>2. o.chunk \notin DOMAIN assigned
      BY <1>1, <3>1 DEF IInv, AcquireInv
    <3>3. Merging(o.task)
      BY <1>1, <3>2 DEF Holding
    <3>4. QED
      BY <1>2, <2>1, <3>3, EvictedIsDone
  <2>3. Entry(o.chunk, o.slot) \in Range(slot_of')
    BY <1>2, <1>3, <2>1, <2>2
  <2>4. QED
    BY <1>4, <2>1, <2>3 DEF Placed, Needs, Entry
<1>5. CASE o.op = "kernel"
  <2>1. DOMAIN o.rows = Needs(o.task)
        /\ \A c \in Needs(o.task) : Entry(c, o.rows[c]) \in Range(slot_of)
    BY <1>1, <1>5 DEF Placed
  <2>2. Merging(o.task)
    BY <1>1, <1>5 DEF Holding
  <2>3. ASSUME NEW c \in Needs(o.task) PROVE Entry(c, o.rows[c]) \in Range(slot_of')
    <3>1. Entry(c, o.rows[c]).slot # x
      BY <1>2, <2>1, <2>2, EvictedIsDone
    <3>2. QED
      BY <1>3, <2>1, <3>1
  <2>4. QED
    BY <1>5, <2>1, <2>3 DEF Placed, Needs, Entry
<1>6. QED
  BY <1>1, <1>4, <1>5 DEF Placed

\* Every action shares the slots out between the dict and the free list.
LEMMA DictStep ==
    ASSUME IInv, [Next]_vars
    PROVE  DictInv'
<1>t. PoolType /\ HostType /\ DictInv
  BY DEF IInv
<1>1. CASE UNCHANGED <<slot_of, free, n_slots>>
  BY <1>1, <1>t DEF DictInv, PoolSlot, Distinct, Range
<1>2. CASE Quiet
  BY <1>1, <1>2, QuietFacts DEF poolVars, callVars
<1>3. CASE Hit
  <2>1. PICK x : Pin(x)
    BY <1>3, HitFacts
  <2>2. n_slots' = n_slots
    BY <1>3, <2>1, HitFacts, PinFacts
  <2>3. QED
    BY <1>1, <1>3, <2>2, HitFacts
<1>4. CASE MissFree \/ MissEvict
  <2>1. PICK x : Loads(x)
    BY <1>4, MissFacts
  <2> DEFINE e == Entry(Head(todo), x)
  <2>2. e.slot = x /\ e.chunk = Head(todo) /\ n_slots' = n_slots
    BY <2>1, PinFacts DEF Loads, Entry
  <2>3. Range(slot_of') = {f \in Range(slot_of) : f.slot # x} \cup {e}
    BY <2>1 DEF Loads
  <2>4. /\ \A f \in Range(slot_of) : f.chunk # e.chunk
        /\ x \in PoolSlot /\ Range(free') = Range(free) \ {x}
        /\ Distinct(slot_of') /\ Distinct(free')
        /\ Len(slot_of') + Len(free') = Len(slot_of) + Len(free)
    BY <2>1, <2>2 DEF Loads
  <2> HIDE DEF e
  <2>5. PoolSlot' = PoolSlot
    BY <2>2 DEF PoolSlot
  <2>6. \A f, g \in Range(slot_of') : f.chunk = g.chunk \/ f.slot = g.slot => f = g
    BY <1>t, <2>2, <2>3, <2>4 DEF DictInv
  <2>7. {f.slot : f \in Range(slot_of')} = ({f.slot : f \in Range(slot_of)} \ {x}) \cup {x}
    BY <2>2, <2>3
  <2>8. /\ {f.slot : f \in Range(slot_of')} \cup Range(free') = PoolSlot
        /\ {f.slot : f \in Range(slot_of')} \cap Range(free') = {}
    BY <1>t, <2>4, <2>7 DEF DictInv
  <2>9. QED
    BY <1>t, <2>2, <2>4, <2>5, <2>6, <2>8 DEF DictInv
<1>5. CASE Launch
  BY <1>1, <1>5 DEF Launch, loopVars, callVars, poolVars
<1>6. CASE MergeAndRelease
  BY <1>1, <1>6 DEF MergeAndRelease, callVars
<1>7. CASE (\E s \in StreamSlot : Copy(s) \/ Kernel(s)) \/ MergeOp
  BY <1>1, <1>7 DEF Copy, Kernel, MergeOp, Exec, loopVars, callVars, poolVars
<1>8. QED
  BY <1>2, <1>3, <1>4, <1>5, <1>6, <1>7, Cases

\* What acquire pinned stays resident while it pins the rest.
LEMMA AcquireStep ==
    ASSUME IInv, [Next]_vars
    PROVE  AcquireInv'
<1>t. PoolType /\ HostType /\ AcquireInv
  BY DEF IInv
<1>1. CASE pc' # "acquire"
  BY <1>1 DEF AcquireInv
<1>2. CASE UNCHANGED <<pc, cur, todo, assigned, slot_of, refcount>>
  BY <1>2, <1>t DEF AcquireInv, Distinct, Range, Needs, Entry
<1>3. CASE WaitSlot
  <2>1. todo' = Cids(cur) /\ assigned' = <<>> /\ cur' = cur /\ cur \in Subproblem
    BY <1>3, <1>t DEF WaitSlot, loopVars, HostType
  <2>2. DOMAIN assigned' = {}
    BY <2>1
  <2>3. Needs(cur)' = Needs(cur)
    BY <2>1 DEF Needs
  <2>4. /\ Cids(cur) \in Seq(Chunk) /\ Distinct(Cids(cur))
        /\ Range(Cids(cur)) = Needs(cur)
    BY <2>1, CidsAre
  <2>5. QED
    BY <2>1, <2>2, <2>3, <2>4 DEF AcquireInv
<1>4. CASE Quiet /\ ~WaitSlot
  <2>1. pc' # "acquire" \/ (pc' = pc /\ cur' = cur)
    BY <1>4 DEF Quiet, Pop, Exhausted, Oom, HalveStreams, RefineTask, Recovered, GiveUp,
       Return, Ended, vars, loopVars
  <2>2. QED
    BY <1>1, <1>2, <1>4, <2>1, QuietFacts DEF poolVars
<1>5. ASSUME NEW x, Pin(x), pc = "acquire", todo # <<>>,
             \A c \in DOMAIN assigned : Entry(c, assigned[c]) \in Range(slot_of'),
             Entry(Head(todo), x) \in Range(slot_of')
      PROVE  AcquireInv'
  <2> DEFINE c == Head(todo)
  <2>1. /\ todo' \in Seq(Chunk) /\ Distinct(todo')
        /\ Range(todo) = Range(todo') \cup {c} /\ c \notin Range(todo')
        /\ DOMAIN assigned' = DOMAIN assigned \cup {c} /\ c \notin DOMAIN assigned
        /\ assigned'[c] = x /\ \A d \in DOMAIN assigned : assigned'[d] = assigned[d]
        /\ cur' = cur /\ cur \in Subproblem
    BY <1>5, PinFacts
  <2>2. /\ refcount' \in [Chunk -> Nat] /\ refcount'[c] # 0
        /\ \A d \in Chunk : d # c => refcount'[d] = refcount[d]
    BY <1>5, PinFacts
  <2>3. /\ Range(todo) \cap DOMAIN assigned = {} /\ Range(todo) \cup DOMAIN assigned = Needs(cur)
        /\ \A d \in DOMAIN assigned : refcount[d] # 0
    BY <1>5, <1>t DEF AcquireInv
  <2>4. Needs(cur) \subseteq Chunk
    BY <2>1, NeedsAre
  <2> HIDE DEF c
  <2>5. Range(todo') \cap DOMAIN assigned' = {} /\ Range(todo') \cup DOMAIN assigned' = Needs(cur)
    BY <2>1, <2>3
  <2>6. ASSUME NEW d \in DOMAIN assigned'
        PROVE  Entry(d, assigned'[d]) \in Range(slot_of') /\ refcount'[d] # 0
    BY <1>5, <2>1, <2>2, <2>3, <2>4 DEF c
  <2>7. Needs(cur)' = Needs(cur)
    BY <2>1 DEF Needs
  <2>8. QED
    BY <2>1, <2>5, <2>6, <2>7 DEF AcquireInv, Entry
<1>6. CASE Hit
  <2>1. PICK x : Pin(x) /\ Entry(Head(todo), x) \in Range(slot_of)
    BY <1>6, HitFacts
  <2>2. pc = "acquire" /\ todo # <<>> /\ slot_of' = slot_of
    BY <1>6, HitFacts
  <2>3. \A c \in DOMAIN assigned : Entry(c, assigned[c]) \in Range(slot_of)
    BY <1>t, <2>2 DEF AcquireInv
  <2>4. QED
    BY <1>5, <2>1, <2>2, <2>3
<1>7. CASE MissFree \/ MissEvict
  <2>1. PICK x : Loads(x)
    BY <1>7, MissFacts
  <2>2. /\ pc = "acquire" /\ todo # <<>> /\ Pin(x)
        /\ Range(slot_of') = {e \in Range(slot_of) : e.slot # x} \cup {Entry(Head(todo), x)}
        /\ \A e \in Range(slot_of) : e.slot = x => refcount[e.chunk] = 0
    BY <2>1 DEF Loads
  <2>3. \A c, y : Entry(c, y).chunk = c
    BY DEF Entry
  <2>4. \A c \in DOMAIN assigned : Entry(c, assigned[c]) \in Range(slot_of) /\ refcount[c] # 0
    BY <1>t, <2>2 DEF AcquireInv
  <2>5. \A c \in DOMAIN assigned : Entry(c, assigned[c]) \in Range(slot_of')
    BY <2>2, <2>3, <2>4
  <2>6. QED
    BY <1>5, <2>2, <2>5
<1>8. CASE Launch \/ MergeAndRelease
  BY <1>1, <1>8 DEF Launch, MergeAndRelease
<1>9. CASE (\E s \in StreamSlot : Copy(s) \/ Kernel(s)) \/ MergeOp
  BY <1>2, <1>9 DEF Copy, Kernel, MergeOp, Exec, loopVars, poolVars
<1>10. QED
  BY <1>3, <1>4, <1>6, <1>7, <1>8, <1>9, Cases

\* No eviction takes the slot of an operation that is not done.
LEMMA IssuedStep ==
    ASSUME IInv, [Next]_vars
    PROVE  IssuedInv'
<1>t. PoolType /\ HostType /\ AcquireInv /\ IssuedInv
  BY DEF IInv
<1>h. ASSUME NEW o, Holding(o), pc \in {"loop", "slot"} PROVE Merging(o.task)
  BY <1>h DEF Holding
<1>p. ASSUME NEW o, Placed(o), slot_of' = slot_of PROVE Placed(o)'
  BY <1>p DEF Placed, Needs, Entry, Range
<1>1. ASSUME queue' = queue, slot_of' = slot_of, n_par' = n_par,
             \A s \in StreamSlot : \A o \in Range(queue[s]) : Holding(o)'
      PROVE  IssuedInv'
  <2>1. ASSUME NEW s \in StreamSlot, NEW o \in Range(queue[s]) PROVE Holding(o)' /\ Placed(o)'
    BY <1>t, <1>p, <1>1, <2>1 DEF IssuedInv
  <2>2. QED
    BY <1>1, <2>1 DEF IssuedInv, StreamSlot
<1>2. CASE Quiet
  <2>1. UNCHANGED <<queue, slot_of, n_par>>
    BY <1>2, QuietFacts DEF callVars, poolVars
  <2>2. \A p : Merging(p)' = Merging(p)
    BY <2>1 DEF Merging, mq
  <2>3. ASSUME NEW s \in StreamSlot, NEW o \in Range(queue[s]) PROVE Holding(o)'
    <3>1. Holding(o) /\ queue[s] # <<>>
      BY <1>t DEF IssuedInv, Range
    <3>2. CASE Pop \/ WaitSlot \/ Return
      <4>1. pc \in {"loop", "slot"}
        BY <3>2 DEF Pop, WaitSlot, Return
      <4>2. QED
        BY <1>h, <2>2, <3>1, <4>1 DEF Holding
    <3>3. CASE Exhausted \/ Oom
      <4>1. cur' = cur /\ pc' \in {"sync", "end"}
        BY <3>3 DEF Exhausted, Oom, loopVars
      <4>2. QED
        BY <2>2, <3>1, <4>1 DEF Holding
    <3>4. CASE HalveStreams \/ RefineTask \/ GiveUp
      <4>1. DeviceIdle
        BY <3>4 DEF HalveStreams, RefineTask, GiveUp
      <4>2. QED
        BY <3>1, <4>1 DEF DeviceIdle, Stream
    <3>5. CASE Ended \/ UNCHANGED vars
      <4>1. UNCHANGED <<pc, cur, assigned>>
        BY <3>5 DEF Ended, vars, loopVars
      <4>2. QED
        BY <2>2, <3>1, <4>1 DEF Holding
    <3>6. QED
      BY <1>2, <3>2, <3>3, <3>4, <3>5 DEF Quiet
  <2>4. QED
    BY <1>1, <2>1, <2>3
<1>3. CASE Hit
  <2>1. PICK x : Pin(x)
    BY <1>3, HitFacts
  <2>2. /\ UNCHANGED <<queue, slot_of, n_par, pc, cur>>
        /\ DOMAIN assigned \subseteq DOMAIN assigned'
    BY <1>3, <2>1, HitFacts, PinFacts
  <2>3. \A p : Merging(p)' = Merging(p)
    BY <2>2 DEF Merging, mq
  <2>4. ASSUME NEW s \in StreamSlot, NEW o \in Range(queue[s]) PROVE Holding(o)'
    <3>1. Holding(o)
      BY <1>t DEF IssuedInv
    <3>2. QED
      BY <2>2, <2>3, <3>1 DEF Holding
  <2>5. QED
    BY <1>1, <2>2, <2>4
<1>4. CASE MissFree \/ MissEvict
  <2>1. PICK x : Loads(x)
    BY <1>4, MissFacts
  <2> DEFINE c == Head(todo)
             new == [op |-> "copy", task |-> cur, chunk |-> c, slot |-> x]
  <2>2. /\ UNCHANGED <<n_par, pc, cur>> /\ pc = "acquire"
        /\ DOMAIN assigned \subseteq DOMAIN assigned'
        /\ c \in DOMAIN assigned' /\ c \in Needs(cur)
    BY <2>1, PinFacts DEF Loads
  <2>3. Entry(c, x) \in Range(slot_of')
    BY <2>1 DEF Loads
  <2>4. /\ queue'[MergeStream] = queue[MergeStream]
        /\ Range(queue'[S]) = Range(queue[S]) \cup {new}
        /\ \A r \in StreamSlot : r # S => queue'[r] = queue[r]
    BY <1>t, <2>1, <2>2, Push, SlotIs DEF Loads, Stream
  <2>5. \A p : Merging(p)' = Merging(p)
    BY <2>4 DEF Merging, mq
  <2>6. ASSUME NEW s \in StreamSlot, NEW o \in Range(queue[s]) PROVE Holding(o)' /\ Placed(o)'
    <3>1. Holding(o)
      BY <1>t DEF IssuedInv
    <3>2. Holding(o)'
      BY <2>2, <2>5, <3>1 DEF Holding
    <3>3. QED
      BY <2>1, <3>2, Untouched
  <2>7. ASSUME NEW o, o = new PROVE Holding(o)' /\ Placed(o)'
    <3>1. o.op = "copy" /\ o.task = cur /\ o.chunk = c /\ o.slot = x
      BY <2>7
    <3> HIDE DEF c, new
    <3>2. Holding(o)'
      BY <2>2, <3>1 DEF Holding
    <3>3. QED
      BY <2>2, <2>3, <3>1, <3>2 DEF Placed, Needs, Entry
  <2> HIDE DEF new
  <2>8. ASSUME NEW s \in StreamSlot, NEW o \in Range(queue'[s]) PROVE Holding(o)' /\ Placed(o)'
    BY <2>4, <2>6, <2>7
  <2>9. QED
    BY <2>2, <2>8 DEF IssuedInv, StreamSlot
<1>5. CASE Launch
  <2> DEFINE new == [op |-> "kernel", task |-> cur, rows |-> assigned]
  <2>1. /\ UNCHANGED <<n_par, cur, slot_of>> /\ pc = "acquire" /\ pc' = "merge" /\ todo = <<>>
        /\ queue' = [queue EXCEPT ![S] = Append(@, new)]
    BY <1>5 DEF Launch, loopVars, callVars, poolVars
  <2>2. /\ queue'[MergeStream] = queue[MergeStream]
        /\ Range(queue'[S]) = Range(queue[S]) \cup {new}
        /\ \A r \in StreamSlot : r # S => queue'[r] = queue[r]
    BY <1>t, <2>1, Push, SlotIs DEF Stream
  <2>3. \A p : Merging(p)' = Merging(p)
    BY <2>2 DEF Merging, mq
  <2>4. ASSUME NEW s \in StreamSlot, NEW o \in Range(queue[s]) PROVE Holding(o)' /\ Placed(o)'
    <3>1. Holding(o) /\ Placed(o)
      BY <1>t DEF IssuedInv
    <3>2. Holding(o)'
      BY <2>1, <2>3, <3>1 DEF Holding
    <3>3. QED
      BY <1>p, <2>1, <3>1, <3>2
  <2>5. Range(todo) = {}
    BY <2>1 DEF Range
  <2>6. /\ DOMAIN assigned = Needs(cur)
        /\ \A c \in DOMAIN assigned : Entry(c, assigned[c]) \in Range(slot_of)
    BY <1>t, <2>1, <2>5 DEF AcquireInv
  <2>7. ASSUME NEW o, o = new PROVE Holding(o)' /\ Placed(o)'
    <3>1. o.op = "kernel" /\ o.task = cur /\ o.rows = assigned
      BY <2>7
    <3> HIDE DEF new
    <3>2. Holding(o)'
      BY <2>1, <3>1 DEF Holding
    <3>3. Placed(o)
      BY <2>6, <3>1 DEF Placed
    <3>4. QED
      BY <1>p, <2>1, <3>2, <3>3
  <2> HIDE DEF new
  <2>8. ASSUME NEW s \in StreamSlot, NEW o \in Range(queue'[s]) PROVE Holding(o)' /\ Placed(o)'
    BY <2>2, <2>4, <2>7
  <2>9. QED
    BY <2>1, <2>8 DEF IssuedInv, StreamSlot
<1>6. CASE MergeAndRelease
  <2> DEFINE new == [op |-> "merge", task |-> cur]
  <2>1. /\ UNCHANGED <<n_par, slot_of>> /\ pc = "merge"
        /\ queue' = [queue EXCEPT ![MergeStream] = Append(@, new)]
    BY <1>6 DEF MergeAndRelease, callVars
  <2>2. /\ mq' = Append(mq, new) /\ IsSeq(mq)
        /\ \A r \in StreamSlot : queue'[r] = queue[r]
    BY <1>t, <2>1, SlotIs DEF PoolType, Stream, mq
  <2>3. /\ \A k \in DOMAIN mq : mq'[k] = mq[k] /\ k \in DOMAIN mq'
        /\ mq'[Len(mq) + 1].task = cur /\ Len(mq) + 1 \in DOMAIN mq'
    BY <2>2, SeqAppend
  <2>5. ASSUME NEW s \in StreamSlot, NEW o \in Range(queue[s]) PROVE Holding(o)' /\ Placed(o)'
    <3>1. Holding(o) /\ Placed(o)
      BY <1>t DEF IssuedInv
    <3>2. o.task = cur \/ Merging(o.task)
      BY <2>1, <3>1 DEF Holding
    <3>3. CASE o.task = cur
      <4> DEFINE n == Len(mq) + 1
      <4>1. n \in DOMAIN mq' /\ mq'[n].task = o.task
        BY <2>3, <3>3
      <4> HIDE DEF n
      <4>2. Merging(o.task)'
        BY <4>1 DEF Merging
      <4>3. QED
        BY <1>p, <2>1, <3>1, <4>2 DEF Holding
    <3>4. CASE Merging(o.task)
      <4>1. PICK k \in DOMAIN mq : mq[k].task = o.task
        BY <3>4 DEF Merging
      <4>2. k \in DOMAIN mq' /\ mq'[k].task = o.task
        BY <2>3, <4>1
      <4>3. Merging(o.task)'
        BY <4>2 DEF Merging
      <4>4. QED
        BY <1>p, <2>1, <3>1, <4>3 DEF Holding
    <3>5. QED
      BY <3>2, <3>3, <3>4
  <2>6. QED
    BY <2>1, <2>2, <2>5 DEF IssuedInv, StreamSlot
<1>7. ASSUME NEW s \in StreamSlot, NEW kind, Exec(s, kind) PROVE IssuedInv'
  <2>1. /\ UNCHANGED <<pc, cur, assigned, slot_of, n_par>>
    BY <1>7 DEF Exec, loopVars, callVars, poolVars
  <2>2. s \in Stream /\ s # MergeStream /\ MergeStream \in Stream /\ StreamSlot \subseteq Stream
    BY <1>t, SlotIs DEF Stream
  <2>3. /\ Range(queue'[s]) \subseteq Range(queue[s])
        /\ \A r \in Stream : r # s => queue'[r] = queue[r]
    BY <1>t, <1>7, <2>2, Done
  <2>4. \A p : Merging(p)' = Merging(p)
    BY <2>2, <2>3 DEF Merging, mq
  <2>5. ASSUME NEW r \in StreamSlot, NEW o \in Range(queue'[r]) PROVE Holding(o)' /\ Placed(o)'
    <3>1. o \in Range(queue[r])
      BY <2>2, <2>3
    <3>2. Holding(o) /\ Placed(o)
      BY <1>t, <3>1 DEF IssuedInv
    <3>3. QED
      BY <1>p, <2>1, <2>4, <3>2 DEF Holding
  <2>6. QED
    BY <2>1, <2>5 DEF IssuedInv, StreamSlot
<1>8. CASE MergeOp
  <2>1. /\ UNCHANGED <<pc, cur, assigned, slot_of, n_par>> /\ Exec(MergeStream, "merge")
        /\ WorkDone(Head(mq).task)
    BY <1>8 DEF MergeOp, Exec, loopVars, callVars, poolVars, mq
  <2>2. MergeStream \in Stream /\ StreamSlot \subseteq Stream /\ MergeStream \notin StreamSlot
    BY <1>t, SlotIs DEF Stream
  <2>3. /\ mq' = Tail(mq) /\ mq # <<>> /\ IsSeq(mq)
        /\ \A r \in StreamSlot : queue'[r] = queue[r]
    BY <1>t, <2>1, <2>2, Done DEF PoolType, mq
  <2>4. /\ Head(mq) = mq[1]
        /\ \A k \in DOMAIN mq : k # 1 => k - 1 \in DOMAIN mq' /\ mq'[k - 1] = mq[k]
    BY <2>3, SeqTail
  <2>5. ASSUME NEW s \in StreamSlot, NEW o \in Range(queue[s]) PROVE Holding(o)' /\ Placed(o)'
    <3>1. Holding(o) /\ Placed(o)
      BY <1>t DEF IssuedInv
    <3>2. o.task # mq[1].task
      BY <2>1, <2>4 DEF WorkDone, Range
    <3>3. CASE Merging(o.task)
      <4>1. PICK k \in DOMAIN mq : mq[k].task = o.task
        BY <3>3 DEF Merging
      <4>2. k - 1 \in DOMAIN mq' /\ mq'[k - 1].task = o.task
        BY <2>4, <3>2, <4>1
      <4>3. Merging(o.task)'
        BY <4>2 DEF Merging
      <4>4. QED
        BY <1>p, <2>1, <3>1, <4>3 DEF Holding
    <3>4. CASE ~Merging(o.task)
      BY <1>p, <2>1, <3>1, <3>4 DEF Holding
    <3>5. QED
      BY <3>3, <3>4
  <2>6. QED
    BY <2>1, <2>3, <2>5 DEF IssuedInv, StreamSlot
<1>9. QED
  BY <1>2, <1>3, <1>4, <1>5, <1>6, <1>7, <1>8, Cases DEF Copy, Kernel

\* A chunk's event is moved to the last merge that needs it.
LEMMA EventStep ==
    ASSUME IInv, [Next]_vars
    PROVE  EventInv'
<1>t. PoolType /\ HostType /\ EventInv
  BY DEF IInv
<1>1. CASE UNCHANGED <<mq, last_event>>
  BY <1>1, <1>t DEF EventInv, Needs
<1>2. CASE Quiet \/ Hit
  BY <1>1, <1>2, QuietFacts, HitFacts DEF mq, poolVars
<1>3. CASE MissFree \/ MissEvict
  <2>1. PICK x : Loads(x)
    BY <1>3, MissFacts
  <2>2. n_par' = n_par
    BY <2>1, PinFacts DEF Loads
  <2>3. mq' = mq
    BY <1>t, <2>1, <2>2, Push, SlotIs DEF Loads, Stream, mq
  <2>4. ASSUME NEW k \in DOMAIN mq, NEW c \in Needs(mq[k].task)
        PROVE  last_event'[c] = last_event[c]
    <3>1. mq[k].task \in Subproblem /\ Merging(mq[k].task)
      BY <1>t DEF EventInv, Merging
    <3>2. c \in Chunk
      BY <3>1, NeedsAre
    <3>3. \A e \in Range(slot_of) : e.slot = x => e.chunk # c
      BY <2>1, <3>1, EvictedIsDone
    <3>4. QED
      BY <2>1, <3>2, <3>3 DEF Loads
  <2>5. QED
    BY <1>t, <2>3, <2>4 DEF EventInv, Needs
<1>4. CASE Launch
  <2>1. n_par' = n_par /\ last_event' = last_event
    BY <1>4 DEF Launch, loopVars, callVars, poolVars
  <2>2. mq' = mq
    BY <1>4, <1>t, <2>1, Push, SlotIs DEF Launch, Stream, mq
  <2>3. QED
    BY <1>1, <2>1, <2>2
<1>5. CASE MergeAndRelease
  <2> DEFINE new == [op |-> "merge", task |-> cur]
             n == Len(mq) + 1
  <2>1. /\ queue' = [queue EXCEPT ![MergeStream] = Append(@, new)]
        /\ last_event' = [c \in Chunk |-> IF c \in Range(Cids(cur)) THEN cur ELSE last_event[c]]
        /\ cur \in Subproblem
    BY <1>5, <1>t DEF MergeAndRelease, HostType
  <2>2. mq' = Append(mq, new) /\ IsSeq(mq)
    BY <1>t, <2>1, SlotIs DEF PoolType, Stream, mq
  <2>3. /\ \A k \in DOMAIN mq : mq'[k] = mq[k] /\ k \in DOMAIN mq' /\ k \in Nat /\ k <= n
        /\ \A k \in DOMAIN mq' : k \in DOMAIN mq \/ k = n
        /\ mq'[n].task = cur /\ n \in DOMAIN mq' /\ n \in Nat
    BY <2>2, SeqAppend
  <2> HIDE DEF n, new
  <2>4. Range(Cids(cur)) = Needs(cur) /\ Needs(cur) \subseteq Chunk
    BY <2>1, CidsAre, NeedsAre
  <2>5. ASSUME NEW k \in DOMAIN mq, NEW c \in Needs(mq[k].task)
        PROVE  \E l \in DOMAIN mq' : k <= l /\ mq'[l].task = last_event'[c]
    <3>1. c \in Chunk
      BY <1>t, NeedsAre DEF EventInv
    <3>2. CASE c \in Needs(cur)
      BY <2>1, <2>3, <2>4, <3>1, <3>2
    <3>3. CASE c \notin Needs(cur)
      <4>1. last_event'[c] = last_event[c]
        BY <2>1, <2>4, <3>1, <3>3
      <4>2. PICK l \in DOMAIN mq : k <= l /\ mq[l].task = last_event[c]
        BY <1>t DEF EventInv
      <4>3. QED
        BY <2>3, <4>1, <4>2
    <3>4. QED
      BY <3>2, <3>3
  <2>6. ASSUME NEW c \in Needs(cur) PROVE n <= n /\ mq'[n].task = last_event'[c]
    BY <2>1, <2>3, <2>4
  <2>7. ASSUME NEW k \in DOMAIN mq'
        PROVE  /\ mq'[k].task \in Subproblem
               /\ \A c \in Needs(mq'[k].task) :
                     \E l \in DOMAIN mq' : k <= l /\ mq'[l].task = last_event'[c]
    <3>1. CASE k \in DOMAIN mq
      BY <1>t, <2>3, <2>5, <3>1 DEF EventInv
    <3>2. CASE k = n
      BY <2>1, <2>3, <2>6, <3>2
    <3>3. QED
      BY <2>3, <3>1, <3>2
  <2>8. QED
    BY <2>7 DEF EventInv, Needs
<1>6. CASE \E s \in StreamSlot : Copy(s) \/ Kernel(s)
  <2>1. PICK s \in StreamSlot : Copy(s) \/ Kernel(s)
    BY <1>6
  <2>2. PICK kind : Exec(s, kind)
    BY <2>1 DEF Copy, Kernel
  <2>3. s \in Stream /\ s # MergeStream /\ MergeStream \in Stream
    BY <1>t, SlotIs DEF Stream
  <2>4. mq' = mq /\ last_event' = last_event
    BY <1>t, <2>2, <2>3, Done DEF mq, Exec, poolVars
  <2>5. QED
    BY <1>1, <2>4
<1>7. CASE MergeOp
  <2>1. Exec(MergeStream, "merge") /\ last_event' = last_event /\ MergeStream \in Stream
    BY <1>7 DEF MergeOp, Exec, poolVars, Stream
  <2>2. mq' = Tail(mq) /\ mq # <<>> /\ IsSeq(mq) /\ IsSeq(mq')
    BY <1>t, <2>1, Done DEF PoolType, mq
  <2>3. /\ \A k \in DOMAIN mq' : k + 1 \in DOMAIN mq /\ mq'[k] = mq[k + 1] /\ k \in Nat
        /\ \A k \in DOMAIN mq : k \in Nat /\ (k # 1 => k - 1 \in DOMAIN mq' /\ mq'[k - 1] = mq[k])
    BY <2>2, SeqTail
  <2>4. \A k \in DOMAIN mq' : k # 0
    <3> DEFINE r == mq'
    <3>1. r \in Seq(Range(r))
      BY <2>2 DEF IsSeq
    <3> HIDE DEF r
    <3>2. \A k \in DOMAIN r : k # 0
      BY <3>1
    <3>3. QED
      BY <3>2 DEF r
  <2>5. ASSUME NEW k \in DOMAIN mq', NEW c \in Needs(mq'[k].task)
        PROVE  \E l \in DOMAIN mq' : k <= l /\ mq'[l].task = last_event[c]
    <3>1. PICK l \in DOMAIN mq : k + 1 <= l /\ mq[l].task = last_event[c]
      BY <1>t, <2>3 DEF EventInv
    <3>2. l # 1 /\ k <= l - 1
      BY <2>3, <2>4, <3>1
    <3>3. l - 1 \in DOMAIN mq' /\ mq'[l - 1].task = last_event[c]
      BY <2>3, <3>1, <3>2
    <3>4. QED
      BY <3>2, <3>3
  <2>6. \A k \in DOMAIN mq' : mq'[k].task \in Subproblem
    BY <1>t, <2>3 DEF EventInv
  <2>7. QED
    BY <2>1, <2>5, <2>6 DEF EventInv, Needs
<1>8. QED
  BY <1>2, <1>3, <1>4, <1>5, <1>6, <1>7, Cases

\* A chunk's rows stay in its slot or on their way to it.
LEMMA ContentStep ==
    ASSUME IInv, [Next]_vars
    PROVE  ContentInv'
<1>t. PoolType /\ HostType /\ DictInv /\ IssuedInv /\ ContentInv
  BY DEF IInv
<1> DEFINE Copies(o, e) == o.op = "copy" /\ o.slot = e.slot /\ o.chunk = e.chunk
<1>1. ASSUME slot_of' = slot_of, content' = content, n_par' = n_par,
             \A s \in StreamSlot : \A o \in Range(queue[s]) :
                o.op = "copy" => o \in Range(queue'[s])
      PROVE  ContentInv'
  <2>1. StreamSlot' = StreamSlot
    BY <1>1 DEF StreamSlot
  <2>2. ASSUME NEW e \in Range(slot_of)
        PROVE  \/ content[e.slot] = e.chunk
               \/ \E s \in StreamSlot : \E o \in Range(queue'[s]) : Copies(o, e)
    BY <1>1, <1>t DEF ContentInv
  <2>3. QED
    BY <1>1, <2>1, <2>2 DEF ContentInv
<1>2. CASE Quiet
  BY <1>1, <1>2, QuietFacts DEF poolVars, callVars
<1>3. CASE Hit
  <2>1. PICK x : Pin(x)
    BY <1>3, HitFacts
  <2>2. UNCHANGED <<queue, slot_of, content, n_par>>
    BY <1>3, <2>1, HitFacts, PinFacts
  <2>3. QED
    BY <1>1, <2>2
<1>4. CASE MissFree \/ MissEvict
  <2>1. PICK x : Loads(x)
    BY <1>4, MissFacts
  <2> DEFINE c == Head(todo)
             new == [op |-> "copy", task |-> cur, chunk |-> c, slot |-> x]
             en == Entry(c, x)
  <2>2. n_par' = n_par /\ content' = content
    BY <2>1, PinFacts DEF Loads
  <2>3. Range(slot_of') = {e \in Range(slot_of) : e.slot # x} \cup {en}
    BY <2>1 DEF Loads
  <2>4. /\ Range(queue'[S]) = Range(queue[S]) \cup {new}
        /\ \A r \in StreamSlot : r # S => queue'[r] = queue[r]
        /\ S \in StreamSlot
    BY <1>t, <2>1, <2>2, Push, SlotIs DEF Loads, Stream
  <2>5. Copies(new, en)
    BY DEF Entry
  <2> HIDE DEF new, en
  <2>6. StreamSlot' = StreamSlot
    BY <2>2 DEF StreamSlot
  <2>7. ASSUME NEW e \in Range(slot_of')
        PROVE  \/ content[e.slot] = e.chunk
               \/ \E s \in StreamSlot : \E o \in Range(queue'[s]) : Copies(o, e)
    <3>1. CASE e = en
      BY <2>4, <2>5, <3>1
    <3>2. CASE e \in Range(slot_of)
      <4>1. CASE content[e.slot] = e.chunk
        BY <4>1
      <4>2. CASE content[e.slot] # e.chunk
        <5>1. PICK s \in StreamSlot : \E o \in Range(queue[s]) : Copies(o, e)
          BY <1>t, <3>2, <4>2 DEF ContentInv
        <5>2. Range(queue[s]) \subseteq Range(queue'[s])
          BY <2>4
        <5>3. QED
          BY <5>1, <5>2
      <4>3. QED
        BY <4>1, <4>2
    <3>3. QED
      BY <2>3, <3>1, <3>2
  <2>8. QED
    BY <2>2, <2>6, <2>7 DEF ContentInv
<1>5. CASE Launch
  <2> DEFINE new == [op |-> "kernel", task |-> cur, rows |-> assigned]
  <2>1. UNCHANGED <<slot_of, content, n_par>>
        /\ queue' = [queue EXCEPT ![S] = Append(@, new)]
    BY <1>5 DEF Launch, loopVars, callVars, poolVars
  <2>2. /\ Range(queue'[S]) = Range(queue[S]) \cup {new}
        /\ \A r \in StreamSlot : r # S => queue'[r] = queue[r]
    BY <1>t, <2>1, Push, SlotIs DEF Stream
  <2> HIDE DEF new
  <2>3. QED
    BY <1>1, <2>1, <2>2
<1>6. CASE MergeAndRelease
  <2>1. /\ UNCHANGED <<slot_of, content, n_par>>
        /\ \A r \in StreamSlot : queue'[r] = queue[r]
    BY <1>6, <1>t, SlotIs DEF MergeAndRelease, callVars, PoolType, Stream
  <2>2. QED
    BY <1>1, <2>1
<1>7. CASE \E s \in StreamSlot : Kernel(s)
  <2>1. PICK s \in StreamSlot : Kernel(s)
    BY <1>7
  <2>2. Exec(s, "kernel") /\ UNCHANGED <<slot_of, content, n_par>> /\ s \in Stream
    BY <2>1 DEF Kernel, Exec, loopVars, callVars, poolVars, Stream
  <2>3. /\ Range(queue[s]) = {Head(queue[s])} \cup Range(queue'[s])
        /\ Head(queue[s]).op = "kernel"
        /\ \A r \in StreamSlot : r # s => queue'[r] = queue[r]
    BY <1>t, <2>2, Done, SlotIs
  <2>4. QED
    BY <1>1, <2>2, <2>3
<1>8. CASE \E s \in StreamSlot : Copy(s)
  <2>1. PICK s \in StreamSlot : Copy(s)
    BY <1>8
  <2> DEFINE h == Head(queue[s])
             x == h.slot
  <2>2. /\ Exec(s, "copy") /\ UNCHANGED <<slot_of, n_par>> /\ s \in Stream
        /\ content' = [content EXCEPT ![x] = h.chunk]
    BY <2>1 DEF Copy, Exec, loopVars, callVars, poolVars, Stream
  <2>3. /\ Range(queue[s]) = {h} \cup Range(queue'[s]) /\ h.op = "copy"
        /\ \A r \in StreamSlot : r # s => queue'[r] = queue[r]
    BY <1>t, <2>2, Done, SlotIs
  <2>4. Entry(h.chunk, x) \in Range(slot_of)
    <3>1. Placed(h)
      BY <1>t, <2>3 DEF IssuedInv
    <3>2. QED
      BY <2>3, <3>1 DEF Placed
  <2>5. Entry(h.chunk, x).slot = x /\ Entry(h.chunk, x).chunk = h.chunk
    BY DEF Entry
  <2>6. {f.slot : f \in Range(slot_of)} \subseteq PoolSlot /\ DOMAIN content = PoolSlot
    BY <1>t DEF DictInv, PoolType
  <2>7. StreamSlot' = StreamSlot
    BY <2>2 DEF StreamSlot
  <2> HIDE DEF x, h
  <2>8. ASSUME NEW e \in Range(slot_of)
        PROVE  \/ content'[e.slot] = e.chunk
               \/ \E r \in StreamSlot : \E o \in Range(queue'[r]) : Copies(o, e)
    <3>1. CASE e.slot = x
      <4>1. e.chunk = h.chunk
        BY <1>t, <2>4, <2>5, <3>1 DEF DictInv
      <4>2. x \in DOMAIN content
        BY <2>4, <2>5, <2>6
      <4>3. QED
        BY <2>2, <3>1, <4>1, <4>2
    <3>2. CASE e.slot # x
      <4>1. CASE content[e.slot] = e.chunk
        BY <2>2, <2>6, <3>2, <4>1
      <4>2. CASE content[e.slot] # e.chunk
        <5>1. PICK r \in StreamSlot : \E o \in Range(queue[r]) : Copies(o, e)
          BY <1>t, <4>2 DEF ContentInv
        <5>2. PICK o \in Range(queue[r]) : Copies(o, e)
          BY <5>1
        <5>3. o \in Range(queue'[r])
          BY <2>3, <3>2, <5>2 DEF x
        <5>4. QED
          BY <5>2, <5>3
      <4>3. QED
        BY <4>1, <4>2
    <3>3. QED
      BY <3>1, <3>2
  <2>9. QED
    BY <2>2, <2>7, <2>8 DEF ContentInv
<1>9. CASE MergeOp
  <2>1. Exec(MergeStream, "merge") /\ UNCHANGED <<slot_of, content, n_par>>
    BY <1>9 DEF MergeOp, Exec, loopVars, callVars, poolVars
  <2>2. \A r \in StreamSlot : queue'[r] = queue[r]
    BY <1>t, <2>1, Done, SlotIs DEF Stream
  <2>3. QED
    BY <1>1, <2>1, <2>2
<1>10. QED
  BY <1>2, <1>3, <1>4, <1>5, <1>6, <1>7, <1>8, <1>9, Cases

\* The invariant holds of the initial states.
LEMMA InitInv == Init => IInv
<1> SUFFICES ASSUME Init PROVE IInv
  OBVIOUS
<1>1. n_par \in Nat \ {0} /\ n_slots \in Nat \ {0}
  BY PoolAssumption DEF Init
<1>2. HostType
  <2>1. nstreams \in 1 .. n_par
    BY <1>1 DEF Init
  <2>2. QED
    BY <1>1, <2>1, FirstTasks DEF Init, HostType
<1>3. slot_of = <<>> /\ Range(slot_of) = {} /\ DOMAIN slot_of = {} /\ Len(slot_of) = 0
  BY DEF Init, Range
<1>4. \A s \in Stream : queue[s] = <<>> /\ Range(queue[s]) = {} /\ DOMAIN queue[s] = {}
  BY DEF Init, Range
<1>5. StreamSlot \subseteq Stream /\ MergeStream \in Stream
  BY DEF Stream
<1>6. free = [i \in 1 .. n_slots |-> i - 1]
  BY DEF Init
<1>7. free \in Seq(PoolSlot) /\ Len(free) = n_slots /\ Distinct(free)
  <2>1. \A i \in 1 .. n_slots : i - 1 \in PoolSlot
    BY <1>1 DEF PoolSlot
  <2>2. \A i, j \in 1 .. n_slots : i - 1 = j - 1 => i = j
    BY <1>1
  <2>3. QED
    BY <1>1, <1>6, <2>1, <2>2 DEF Distinct
<1>8. Range(free) = PoolSlot
  <2>1. \A x \in PoolSlot : x + 1 \in 1 .. n_slots /\ (x + 1) - 1 = x
    BY <1>1 DEF PoolSlot
  <2>2. \A i \in 1 .. n_slots : i - 1 \in PoolSlot
    BY <1>1 DEF PoolSlot
  <2>3. QED
    BY <1>6, <2>1, <2>2 DEF Range
<1>9. PoolType
  <2>1. refcount \in [Chunk -> Nat] /\ last_event \in [Chunk -> Subproblem \cup {None}]
        /\ DOMAIN content = PoolSlot /\ DOMAIN queue = Stream
    BY DEF Init
  <2>2. \A s \in Stream : IsSeq(queue[s])
    <3>1. \A X : <<>> \in Seq(X)
      OBVIOUS
    <3>2. QED
      BY <1>4, <3>1 DEF IsSeq
  <2>3. slot_of \in Seq(DictEntry)
    BY <1>3
  <2>4. QED
    BY <1>7, <2>1, <2>2, <2>3 DEF PoolType
<1>10. DictInv
  BY <1>1, <1>3, <1>7, <1>8 DEF DictInv, Distinct
<1>11. AcquireInv /\ ContentInv
  BY <1>3 DEF AcquireInv, ContentInv, Init
<1>12. IssuedInv /\ EventInv
  BY <1>4, <1>5 DEF IssuedInv, EventInv, mq
<1>13. QED
  BY <1>2, <1>9, <1>10, <1>11, <1>12 DEF IInv

\* Every action preserves it.
LEMMA Inductive == IInv /\ [Next]_vars => IInv'
<1> SUFFICES ASSUME IInv, [Next]_vars PROVE IInv'
  OBVIOUS
<1>1. HostType' /\ PoolType' /\ DictInv' /\ AcquireInv'
  BY HostTypeStep, PoolTypeStep, DictStep, AcquireStep
<1>2. IssuedInv' /\ EventInv' /\ ContentInv'
  BY IssuedStep, EventStep, ContentStep
<1>3. QED
  BY <1>1, <1>2 DEF IInv

\* It holds in every state.
LEMMA Invariant == Spec => []IInv
  BY InitInv, Inductive, PTL DEF Spec

-----------------------------------------------------------------------------
(* What the pool promises.                                                   *)

\* The dict and the free list share the slots out, one chunk to a slot and one slot
\* to a chunk, whatever is evicted and whatever fails.
THEOREM TypeCorrect == Spec => []TypeOK
<1>1. IInv => TypeOK
  <2> SUFFICES ASSUME IInv PROVE TypeOK
    OBVIOUS
  <2>1. PoolType /\ DictInv
    BY DEF IInv
  <2>2. ASSUME NEW i \in DOMAIN slot_of, NEW j \in DOMAIN slot_of, i # j
        PROVE  slot_of[i].chunk # slot_of[j].chunk /\ slot_of[i].slot # slot_of[j].slot
    <3>1. slot_of[i] # slot_of[j]
      BY <2>1, <2>2 DEF DictInv, Distinct
    <3>2. slot_of[i] \in Range(slot_of) /\ slot_of[j] \in Range(slot_of)
      BY DEF Range
    <3>3. QED
      BY <2>1, <3>1, <3>2 DEF DictInv
  <2>3. {slot_of[i].slot : i \in DOMAIN slot_of} = {e.slot : e \in Range(slot_of)}
    BY DEF Range
  <2>4. QED
    BY <2>1, <2>2, <2>3 DEF TypeOK, PoolType, DictInv
<1>2. QED
  BY <1>1, Invariant, PTL

\* The host forgets a chunk when its last kernel is issued, yet until that kernel has
\* run the chunk is in the slot the kernel was given: an eviction waits for the merge
\* behind it, and a failed subproblem keeps its references.
THEOREM ChunksKept == Spec => []KeepsItsChunks
<1>1. IInv => KeepsItsChunks
  <2> SUFFICES ASSUME IInv, NEW o \in KernelOps, NEW c \in DOMAIN o.rows
               PROVE  [chunk |-> c, slot |-> o.rows[c]] \in Range(slot_of)
    BY DEF KeepsItsChunks
  <2>1. PICK s \in StreamSlot : o \in Range(queue[s]) /\ o.op = "kernel"
    BY DEF KernelOps
  <2>2. Placed(o)
    BY <2>1 DEF IInv, IssuedInv
  <2>3. QED
    BY <2>1, <2>2 DEF Placed, Entry
<1>2. QED
  BY <1>1, Invariant, PTL

\* No copy that would overwrite a chunk waits behind or beside a kernel that reads it,
\* and the rows the kernel reads are there or on their way.
THEOREM NothingOverwritten == Spec => []NoPendingOverwrite
<1>1. IInv => NoPendingOverwrite
  <2> SUFFICES ASSUME IInv PROVE NoPendingOverwrite
    OBVIOUS
  <2>1. DictInv /\ IssuedInv /\ ContentInv
    BY DEF IInv
  <2> DEFINE all == UNION {Range(queue[s]) : s \in StreamSlot}
             writes(x) == {w \in all : w.op = "copy" /\ w.slot = x}
  <2>2. ASSUME NEW o \in KernelOps, NEW c \in DOMAIN o.rows
        PROVE  /\ \A w \in writes(o.rows[c]) : w.chunk = c
               /\ content[o.rows[c]] = c \/ writes(o.rows[c]) # {}
    <3> DEFINE x == o.rows[c]
               e == Entry(c, x)
    <3>1. PICK s \in StreamSlot : o \in Range(queue[s]) /\ o.op = "kernel"
      BY DEF KernelOps
    <3>2. e \in Range(slot_of)
      BY <2>1, <3>1 DEF IssuedInv, Placed
    <3>3. \A d, y : Entry(d, y).chunk = d /\ Entry(d, y).slot = y
      BY DEF Entry
    <3> HIDE DEF x
    <3>4. ASSUME NEW w \in writes(x) PROVE w.chunk = c
      <4>1. w.op = "copy" /\ w.slot = x /\ Placed(w)
        BY <2>1 DEF IssuedInv
      <4>2. Entry(w.chunk, x) \in Range(slot_of)
        BY <4>1 DEF Placed
      <4>3. QED
        BY <2>1, <3>2, <3>3, <4>2 DEF DictInv
    <3>5. ASSUME content[x] # c PROVE writes(x) # {}
      <4>1. e.slot = x /\ e.chunk = c
        BY <3>3
      <4> HIDE DEF e
      <4>2. PICK r \in StreamSlot : \E w \in Range(queue[r]) : w.op = "copy" /\ w.slot = x
        BY <2>1, <3>2, <3>5, <4>1 DEF ContentInv
      <4>3. PICK w \in Range(queue[r]) : w.op = "copy" /\ w.slot = x
        BY <4>2
      <4>4. w \in writes(x)
        BY <4>3
      <4>5. QED
        BY <4>4
    <3>6. QED
      BY <3>4, <3>5 DEF x
  <2>3. QED
    BY <2>2 DEF NoPendingOverwrite
<1>2. QED
  BY <1>1, Invariant, PTL

-----------------------------------------------------------------------------
(* References that are never given back.                                     *)

\* There are C chunks.
LEMMA FiniteChunks == IsFiniteSet(Chunk) /\ Cardinality(Chunk) = C
<1>1. C \in Nat \ {0} /\ 0 \in Int /\ C - 1 \in Int /\ ~(0 > C - 1) /\ (C - 1) - 0 + 1 = C
  BY DecompositionAssumption
<1>2. QED
  BY <1>1, FS_Interval DEF Chunk

\* A quorum is finite.
LEMMA FiniteInterest ==
    /\ IsFiniteSet(InterestSet)
    /\ Cardinality(InterestSet) \in Nat
  BY FiniteChunks, FS_Subset, FS_CardinalityType, DecompositionAssumption

\* A subproblem needs at most as many chunks as a quorum has members.
LEMMA NeedsBound ==
    ASSUME NEW p \in Subproblem
    PROVE  IsFiniteSet(Needs(p)) /\ Cardinality(Needs(p)) <= Cardinality(InterestSet)
<1> DEFINE f == [off \in InterestSet |-> (p[1] + off) % C]
<1>1. f \in Surjection(InterestSet, Needs(p))
  BY DEF Surjection, Needs, QuorumChunks
<1>2. QED
  BY <1>1, FiniteInterest, FS_Surjection

\* Resident chunks are as many as the entries of the dict.
LEMMA ResidentCount ==
    ASSUME PoolType, DictInv
    PROVE  LET R == {e.chunk : e \in Range(slot_of)} IN
           R \subseteq Chunk /\ Cardinality(R) = Len(slot_of)
<1> DEFINE R == {e.chunk : e \in Range(slot_of)}
           n == Len(slot_of)
           f == [i \in 1 .. n |-> slot_of[i].chunk]
<1>1. /\ slot_of \in Seq(DictEntry) /\ Distinct(slot_of)
      /\ \A e, g \in Range(slot_of) : e.chunk = g.chunk \/ e.slot = g.slot => e = g
      /\ n \in Nat /\ DOMAIN slot_of = 1 .. n
  BY DEF PoolType, DictInv
<1>2. \A i \in 1 .. n : slot_of[i] \in Range(slot_of) /\ slot_of[i] \in DictEntry
  BY <1>1 DEF Range
<1>3. R \subseteq Chunk
  BY <1>1, <1>2 DEF DictEntry, Range
<1>4. R = {slot_of[i].chunk : i \in 1 .. n}
  BY <1>1 DEF Range
<1>5. f \in Surjection(1 .. n, R)
  BY <1>4 DEF Surjection
<1>6. f \in Injection(1 .. n, R)
  <2>1. \A i, j \in 1 .. n : f[i] = f[j] => i = j
    BY <1>1, <1>2 DEF Distinct
  <2>2. f \in [1 .. n -> R]
    BY <1>4
  <2> HIDE DEF f, R, n
  <2>3. QED
    BY <2>1, <2>2 DEF Injection, IsInjective
<1>7. IsFiniteSet(1 .. n) /\ Cardinality(1 .. n) = n
  BY <1>1, FS_Interval
<1> HIDE DEF f, R, n
<1>8. Cardinality(R) = Cardinality(1 .. n)
  BY <1>5, <1>6, <1>7, FS_Surjection
<1>9. QED
  BY <1>3, <1>7, <1>8 DEF R, n

\* Leaked changes only where a failed subproblem is put back.
LEMMA LeakedStep ==
    ASSUME IInv, LeakInv, [Next]_vars, pc' # "end", ~HalveStreams, ~RefineTask
    PROVE  Leaked' = Leaked
<1>t. PoolType /\ HostType /\ AcquireInv
  BY DEF IInv
<1>1. ASSUME \A c \in Chunk : \/ (Holds(c)' <=> Holds(c)) /\ refcount'[c] = refcount[c]
                              \/ /\ Holds(c)' /\ ~Holds(c) /\ refcount'[c] = refcount[c] + 1
                              \/ /\ ~Holds(c)' /\ Holds(c) /\ refcount'[c] = refcount[c] - 1
      PROVE  Leaked' = Leaked
  <2>1. ASSUME NEW c \in Chunk
        PROVE  (IF Holds(c)' THEN refcount'[c] > 1 ELSE refcount'[c] > 0)
               <=> (IF Holds(c) THEN refcount[c] > 1 ELSE refcount[c] > 0)
    <3>1. refcount[c] \in Nat
      BY <1>t DEF PoolType
    <3>2. CASE (Holds(c)' <=> Holds(c)) /\ refcount'[c] = refcount[c]
      BY <3>2
    <3>3. CASE Holds(c)' /\ ~Holds(c) /\ refcount'[c] = refcount[c] + 1
      BY <3>1, <3>3
    <3>4. CASE ~Holds(c)' /\ Holds(c) /\ refcount'[c] = refcount[c] - 1
      BY <3>1, <3>4
    <3>5. QED
      BY <1>1, <3>2, <3>3, <3>4
  <2>2. QED
    BY <2>1 DEF Leaked
<1>2. CASE Quiet
  <2>1. refcount' = refcount /\ ((todo' = todo /\ assigned' = assigned) \/ WaitSlot)
    BY <1>2, QuietFacts DEF poolVars
  <2>2. ASSUME NEW c \in Chunk PROVE (Holds(c)' <=> Holds(c))
    <3>1. CASE Pop \/ Return
      BY <3>1 DEF Pop, Return, Holds
    <3>2. CASE WaitSlot
      <4>1. assigned' = <<>> /\ pc = "slot"
        BY <3>2 DEF WaitSlot
      <4>2. c \notin DOMAIN assigned'
        BY <4>1
      <4>3. QED
        BY <4>1, <4>2 DEF Holds
    <3>3. CASE Oom
      BY <3>3 DEF Oom, Holds
    <3>4. CASE Exhausted \/ GiveUp
      BY <3>4 DEF Exhausted, GiveUp
    <3>5. CASE Ended \/ UNCHANGED vars
      BY <3>5 DEF Ended, vars, Holds
    <3>6. QED
      BY <1>2, <3>1, <3>2, <3>3, <3>4, <3>5 DEF Quiet
  <2>3. QED
    BY <1>1, <2>1, <2>2
<1>3. ASSUME NEW x, Pin(x), pc = "acquire", todo # <<>> PROVE Leaked' = Leaked
  <2>0. PICK c : c = Head(todo)
    OBVIOUS
  <2>1. /\ c \in Chunk /\ c \notin DOMAIN assigned /\ DOMAIN assigned' = DOMAIN assigned \cup {c}
        /\ refcount'[c] = refcount[c] + 1 /\ pc' = pc
        /\ \A d \in Chunk : d # c => refcount'[d] = refcount[d]
    BY <1>3, <2>0, PinFacts
  <2>2. Holds(c)' /\ ~Holds(c)
    BY <1>3, <2>1 DEF Holds
  <2>3. \A d \in Chunk : d # c => (Holds(d)' <=> Holds(d))
    BY <2>1 DEF Holds
  <2>4. QED
    BY <1>1, <2>1, <2>2, <2>3
<1>4. CASE Hit
  BY <1>3, <1>4, HitFacts
<1>5. CASE MissFree \/ MissEvict
  BY <1>3, <1>5, MissFacts DEF Loads
<1>6. CASE Launch
  BY <1>1, <1>6 DEF Launch, Holds, poolVars
<1>7. CASE MergeAndRelease
  <2>1. /\ pc = "merge" /\ pc' = "loop" /\ cur \in Subproblem /\ DOMAIN assigned = Needs(cur)
        /\ refcount' = [c \in Chunk |-> IF c \in Range(Cids(cur)) THEN Dropped(refcount[c])
                                                                  ELSE refcount[c]]
    BY <1>7, <1>t DEF MergeAndRelease, HostType, LeakInv
  <2>2. Range(Cids(cur)) = Needs(cur)
    BY <2>1, CidsAre
  <2>3. ASSUME NEW c \in Chunk
        PROVE  \/ (Holds(c)' <=> Holds(c)) /\ refcount'[c] = refcount[c]
               \/ ~Holds(c)' /\ Holds(c) /\ refcount'[c] = refcount[c] - 1
    <3>1. ~Holds(c)'
      BY <2>1 DEF Holds
    <3>2. CASE c \in Needs(cur)
      <4>1. Holds(c) /\ refcount[c] > 0
        BY <2>1, <3>2 DEF Holds, LeakInv
      <4>2. QED
        BY <2>1, <2>2, <3>1, <3>2, <4>1 DEF Dropped
    <3>3. CASE c \notin Needs(cur)
      <4>1. ~Holds(c)
        BY <2>1, <3>3 DEF Holds
      <4>2. QED
        BY <2>1, <2>2, <3>1, <3>3, <4>1
    <3>4. QED
      BY <3>2, <3>3
  <2>4. QED
    BY <1>1, <2>3
<1>8. CASE (\E s \in StreamSlot : Copy(s) \/ Kernel(s)) \/ MergeOp
  <2>1. UNCHANGED <<pc, assigned, refcount>>
    BY <1>8 DEF Copy, Kernel, MergeOp, Exec, poolVars
  <2>2. QED
    BY <1>1, <2>1 DEF Holds
<1>9. QED
  BY <1>2, <1>4, <1>5, <1>6, <1>7, <1>8, Cases

\* A failure that leaks references takes a stream out of use.
LEMMA LeakStep ==
    ASSUME IInv, LeakInv, [Next]_vars
    PROVE  LeakInv'
<1>t. PoolType /\ HostType /\ AcquireInv
  BY DEF IInv
<1> DEFINE l == Cardinality(InterestSet)
<1>1. ASSUME pc' # "end", ~allow_escalation'
      PROVE  Cardinality(Leaked') <= (n_par' - nstreams') * l
  <2>l. l \in Nat
    BY FiniteInterest
  <2> HIDE DEF l
  <2>1. allow_escalation' = allow_escalation /\ n_par' = n_par
    <3>1. CASE Quiet
      BY <3>1, QuietFacts DEF callVars
    <3>2. CASE Hit
      BY <3>2, HitFacts, PinFacts
    <3>3. CASE MissFree \/ MissEvict
      BY <3>3, MissFacts, PinFacts DEF Loads
    <3>4. CASE Launch
      BY <3>4 DEF Launch, loopVars, callVars
    <3>5. CASE MergeAndRelease
      BY <3>5 DEF MergeAndRelease, callVars
    <3>6. CASE (\E s \in StreamSlot : Copy(s) \/ Kernel(s)) \/ MergeOp
      BY <3>6 DEF Copy, Kernel, MergeOp, Exec, loopVars, callVars
    <3>7. QED
      BY <3>1, <3>2, <3>3, <3>4, <3>5, <3>6, Cases
  <2>2. pc # "end"
    <3> SUFFICES ASSUME pc = "end" PROVE FALSE
      OBVIOUS
    <3> QED
      BY <1>1 DEF Next, Pop, WaitSlot, Hit, MissFree, MissEvict, Exhausted, Launch,
         MergeAndRelease, Oom, HalveStreams, RefineTask, GiveUp, Return, Copy, Kernel, MergeOp,
         Exec, Ended, vars
  <2>3. Cardinality(Leaked) <= (n_par - nstreams) * l
    BY <1>1, <2>1, <2>2 DEF LeakInv, l
  <2>4. CASE HalveStreams
    <3> DEFINE q == nstreams \div 2
    <3>1. nstreams \in Nat /\ nstreams > 1 /\ nstreams <= n_par /\ n_par \in Nat
      BY <2>4, <1>t DEF HalveStreams, HostType
    <3>2. q \in Nat /\ q <= nstreams - 1
      BY <3>1
    <3> HIDE DEF q
    <3>3. nstreams' = q /\ pc = "sync" /\ pc' = "loop" /\ refcount' = refcount
      BY <2>4 DEF HalveStreams, Recovered, poolVars, q
    <3>4. cur \in Subproblem /\ DOMAIN assigned \subseteq Needs(cur)
      BY <3>3, <1>t DEF HostType, LeakInv
    <3>5. Leaked' \subseteq Leaked \cup Needs(cur)
      BY <3>3, <3>4 DEF Leaked, Holds
    <3>6. /\ IsFiniteSet(Leaked) /\ IsFiniteSet(Needs(cur))
          /\ Cardinality(Needs(cur)) <= l
      BY <3>4, NeedsBound, FiniteChunks, FS_Subset DEF Leaked, l
    <3>7. /\ IsFiniteSet(Leaked \cup Needs(cur))
          /\ Cardinality(Leaked \cup Needs(cur)) <= Cardinality(Leaked) + Cardinality(Needs(cur))
      <4>1. /\ IsFiniteSet(Leaked \cup Needs(cur)) /\ IsFiniteSet(Leaked \cap Needs(cur))
            /\ Cardinality(Leaked \cup Needs(cur))
                 = Cardinality(Leaked) + Cardinality(Needs(cur))
                     - Cardinality(Leaked \cap Needs(cur))
        BY <3>6, FS_Union, FS_Intersection
      <4>2. /\ Cardinality(Leaked) \in Nat /\ Cardinality(Needs(cur)) \in Nat
            /\ Cardinality(Leaked \cap Needs(cur)) \in Nat
        BY <3>6, <4>1, FS_CardinalityType
      <4>3. QED
        BY <4>1, <4>2
    <3>8. Cardinality(Leaked') <= Cardinality(Leaked \cup Needs(cur))
      BY <3>5, <3>7, FS_Subset
    <3>9. /\ Cardinality(Leaked) \in Nat /\ Cardinality(Needs(cur)) \in Nat
          /\ Cardinality(Leaked') \in Nat /\ Cardinality(Leaked \cup Needs(cur)) \in Nat
      <4>1. IsFiniteSet(Leaked')
        BY <3>5, <3>7, FS_Subset
      <4>2. QED
        BY <3>6, <3>7, <4>1, FS_CardinalityType
    <3>10. Cardinality(Leaked') <= (n_par - nstreams) * l + l
      <4> DEFINE m == (n_par - nstreams) * l
      <4>1. m \in Int
        BY <2>l, <3>1
      <4>2. Cardinality(Leaked) <= m
        BY <2>3
      <4> HIDE DEF m
      <4>3. Cardinality(Leaked') <= m + l
        BY <2>l, <3>6, <3>7, <3>8, <3>9, <4>1, <4>2
      <4>4. QED
        BY <4>3 DEF m
    <3>11. (n_par - nstreams) * l + l <= (n_par - q) * l
      <4> DEFINE a == n_par - nstreams
                 b == n_par - q
      <4>1. a \in Nat /\ b \in Nat /\ a + 1 <= b
        BY <3>1, <3>2
      <4> HIDE DEF a, b
      <4>2. a * l + l <= b * l
        <5>1. a * l + l = (a + 1) * l
          BY <4>1, <2>l
        <5>2. (a + 1) * l <= b * l
          <6>1. PICK d \in Nat : b = (a + 1) + d
            <7>1. b - (a + 1) \in Nat /\ b = (a + 1) + (b - (a + 1))
              BY <4>1
            <7>2. QED
              BY <7>1
          <6>2. b * l = (a + 1) * l + d * l
            BY <2>l, <4>1, <6>1
          <6>3. d * l \in Nat /\ (a + 1) * l \in Nat
            BY <2>l, <4>1, <6>1
          <6>4. QED
            BY <6>2, <6>3
        <5>3. QED
          BY <5>1, <5>2
      <4>3. QED
        BY <4>2 DEF a, b
    <3>12. QED
      <4> DEFINE m == (n_par - nstreams) * l + l
                 w == (n_par - q) * l
      <4>1. m \in Int /\ w \in Int
        BY <2>l, <3>1, <3>2
      <4>2. Cardinality(Leaked') <= m /\ m <= w
        BY <3>10, <3>11
      <4> HIDE DEF m, w
      <4>3. Cardinality(Leaked') <= w
        BY <3>9, <4>1, <4>2
      <4>4. QED
        BY <2>1, <3>3, <4>3 DEF w
  <2>5. CASE RefineTask
    BY <1>1, <2>1, <2>5 DEF RefineTask, CanRefine
  <2>6. CASE ~HalveStreams /\ ~RefineTask
    <3>1. Leaked' = Leaked
      BY <1>1, <2>6, LeakedStep
    <3>2. nstreams' = nstreams
      <4>1. CASE Quiet
        BY <2>6, <4>1 DEF Quiet, Pop, WaitSlot, Exhausted, Oom, GiveUp, Return, Ended, vars, loopVars
      <4>2. CASE Hit
        BY <4>2, HitFacts, PinFacts
      <4>3. CASE MissFree \/ MissEvict
        BY <4>3, MissFacts, PinFacts DEF Loads
      <4>4. CASE Launch
        BY <4>4 DEF Launch, loopVars
      <4>5. CASE MergeAndRelease
        BY <4>5 DEF MergeAndRelease
      <4>6. CASE (\E s \in StreamSlot : Copy(s) \/ Kernel(s)) \/ MergeOp
        BY <4>6 DEF Copy, Kernel, MergeOp, Exec, loopVars
      <4>7. QED
        BY <4>1, <4>2, <4>3, <4>4, <4>5, <4>6, Cases
    <3>3. QED
      BY <2>1, <2>3, <3>1, <3>2
  <2>7. QED
    BY <2>4, <2>5, <2>6
<1>2. ASSUME pc' \in {"merge", "sync"}, pc' # pc
      PROVE  /\ UNCHANGED <<cur, assigned, refcount>> /\ pc \in {"acquire", "merge"}
             /\ DOMAIN assigned \subseteq Needs(cur)
             /\ pc' = "merge" => DOMAIN assigned = Needs(cur)
  <2>1. Launch \/ Oom
    <3>1. CASE Quiet
      BY <1>2, <3>1 DEF Quiet, Pop, WaitSlot, Exhausted, HalveStreams, RefineTask, Recovered,
         GiveUp, Return, Ended, vars
    <3>2. CASE Hit \/ MissFree \/ MissEvict
      BY <1>2, <3>2 DEF Hit, MissFree, MissEvict, LoadInto, Pin
    <3>3. CASE MergeAndRelease
      BY <1>2, <3>3 DEF MergeAndRelease
    <3>4. CASE (\E s \in StreamSlot : Copy(s) \/ Kernel(s)) \/ MergeOp
      BY <1>2, <3>4 DEF Copy, Kernel, MergeOp, Exec
    <3>5. QED
      BY <3>1, <3>2, <3>3, <3>4, Cases
  <2>2. /\ UNCHANGED <<cur, assigned, refcount>>
        /\ pc \in {"acquire", "merge"}
        /\ pc' = "merge" => pc = "acquire" /\ todo = <<>>
    BY <2>1 DEF Launch, Oom, loopVars, poolVars
  <2>3. ASSUME pc = "acquire", todo = <<>> PROVE DOMAIN assigned = Needs(cur)
    <3>1. Range(todo) = {}
      BY <2>3 DEF Range
    <3>2. QED
      BY <1>t, <2>3, <3>1 DEF AcquireInv
  <2>4. pc = "acquire" => DOMAIN assigned \subseteq Needs(cur)
    BY <1>t DEF AcquireInv
  <2>5. QED
    BY <2>2, <2>3, <2>4 DEF LeakInv
<1>3. ASSUME pc' \in {"merge", "sync"}, pc' = pc
      PROVE  UNCHANGED <<cur, assigned, refcount>>
  <2>1. CASE Quiet
    BY <1>3, <2>1 DEF Quiet, Pop, WaitSlot, Exhausted, Oom, HalveStreams, RefineTask, Recovered,
       GiveUp, Return, Ended, vars, loopVars, poolVars
  <2>2. CASE Hit \/ MissFree \/ MissEvict \/ Launch \/ MergeAndRelease
    BY <1>3, <2>2 DEF Hit, MissFree, MissEvict, LoadInto, Pin, Launch, MergeAndRelease
  <2>3. CASE (\E s \in StreamSlot : Copy(s) \/ Kernel(s)) \/ MergeOp
    BY <2>3 DEF Copy, Kernel, MergeOp, Exec, loopVars, poolVars
  <2>4. QED
    BY <2>1, <2>2, <2>3, Cases
<1>4. ASSUME pc' \in {"merge", "sync"}
      PROVE  /\ DOMAIN assigned' \subseteq Needs(cur')
             /\ pc' = "merge" => DOMAIN assigned' = Needs(cur')
  <2>1. CASE pc' = pc
    BY <1>3, <1>4, <2>1 DEF LeakInv
  <2>2. CASE pc' # pc
    BY <1>2, <1>4, <2>2
  <2>3. QED
    BY <2>1, <2>2
<1>5. ASSUME NEW c \in Chunk, Holds(c)' PROVE refcount'[c] > 0
  <2>1. pc' \in {"acquire", "merge", "sync"} /\ c \in DOMAIN assigned'
    BY <1>5 DEF Holds
  <2>2. CASE pc' = "acquire"
    <3>1. refcount'[c] # 0
      BY <2>1, <2>2, AcquireStep DEF AcquireInv
    <3>2. refcount'[c] \in Nat
      BY PoolTypeStep DEF PoolType
    <3>3. QED
      BY <3>1, <3>2
  <2>3. CASE pc' \in {"merge", "sync"}
    <3>1. UNCHANGED <<assigned, refcount>> /\ pc \in {"acquire", "merge", "sync"}
      BY <1>2, <1>3, <2>3
    <3>2. QED
      BY <2>1, <3>1 DEF Holds, LeakInv
  <2>4. QED
    BY <2>1, <2>2, <2>3
<1>6. QED
  BY <1>1, <1>4, <1>5 DEF LeakInv, Needs

\* No reference is leaked at the start.
LEMMA LeakInit == Init => LeakInv
<1> SUFFICES ASSUME Init PROVE LeakInv
  OBVIOUS
<1>1. pc = "loop" /\ nstreams = n_par /\ \A c \in Chunk : refcount[c] = 0
  BY DEF Init
<1>2. n_par \in Nat
  BY PoolAssumption DEF Init
<1>3. Leaked = {} /\ \A c \in Chunk : ~Holds(c)
  BY <1>1 DEF Leaked, Holds
<1> DEFINE l == Cardinality(InterestSet)
<1>4. l \in Nat
  BY FiniteInterest
<1> HIDE DEF l
<1>5. (n_par - nstreams) * l = 0
  <2>1. n_par - nstreams = 0 /\ 0 * l = 0
    BY <1>1, <1>2, <1>4
  <2>2. QED
    BY <2>1
<1>6. Cardinality(Leaked) = 0
  BY <1>3, FS_EmptySet
<1>7. QED
  BY <1>1, <1>3, <1>5, <1>6 DEF LeakInv, l

\* A pool of the default size has a slot for every chunk of the call, or for every
\* chunk that the failed subproblems and the one being acquired can reference.
LEMMA NeverExhausted ==
    ASSUME IInv, LeakInv, Exhausted, ~allow_escalation
    PROVE  ~(n_slots >= DefaultSlots)
<1> DEFINE l == Cardinality(InterestSet)
           R == {e.chunk : e \in Range(slot_of)}
           h == Head(todo)
<1>1. /\ pc = "acquire" /\ todo # <<>> /\ free = <<>> /\ Victims = {}
      /\ \A i \in DOMAIN slot_of : slot_of[i].chunk # h
  BY DEF Exhausted, Resident
<1>2. PoolType /\ DictInv /\ HostType /\ AcquireInv
  BY DEF IInv
<1>3. R \subseteq Chunk /\ Cardinality(R) = n_slots
  <2>1. Len(free) = 0 /\ Len(slot_of) \in Nat /\ Len(slot_of) + Len(free) = n_slots
    BY <1>1, <1>2 DEF DictInv, PoolType
  <2>2. QED
    BY <1>2, <2>1, ResidentCount
<1>4. \A e \in Range(slot_of) : e.chunk # h /\ refcount[e.chunk] # 0
  BY <1>1 DEF Range, Victims, Evictable
<1>5. cur \in Subproblem /\ h \in Range(todo)
  <2>1. todo \in Seq(Chunk) /\ cur \in Subproblem
    BY <1>1, <1>2 DEF AcquireInv, HostType
  <2>2. QED
    BY <1>1, <2>1, TailIs
<1>6. h \in Needs(cur) /\ h \notin DOMAIN assigned /\ DOMAIN assigned \subseteq Needs(cur)
  BY <1>1, <1>2, <1>5 DEF AcquireInv
<1>7. Needs(cur) \subseteq Chunk /\ IsFiniteSet(Needs(cur)) /\ Cardinality(Needs(cur)) <= l
  BY <1>5, NeedsAre, NeedsBound
<1>8. h \notin R
  BY <1>4
<1>9. R \subseteq Leaked \cup (Needs(cur) \ {h})
  <2>1. ASSUME NEW c \in R PROVE c \in Leaked \cup (Needs(cur) \ {h})
    <3>1. c \in Chunk /\ refcount[c] # 0 /\ refcount[c] \in Nat
      BY <1>2, <1>3, <1>4 DEF PoolType
    <3>2. CASE c \in DOMAIN assigned
      BY <1>6, <3>2
    <3>3. CASE c \notin DOMAIN assigned
      BY <3>1, <3>3 DEF Leaked, Holds
    <3>4. QED
      BY <3>2, <3>3
  <2>2. QED
    BY <2>1
<1> HIDE DEF h, R
<1>10. l \in Nat /\ C \in Nat /\ IsFiniteSet(Chunk) /\ Cardinality(Chunk) = C
  BY FiniteInterest, FiniteChunks, DecompositionAssumption
<1> HIDE DEF l
<1>11. IsFiniteSet(R) /\ Cardinality(R) \in Nat
  BY <1>3, <1>10, FS_Subset, FS_CardinalityType
<1>12. Cardinality(R) < C
  <2>1. R \subseteq Chunk \ {h} /\ h \in Chunk
    BY <1>3, <1>6, <1>7, <1>8
  <2>2. IsFiniteSet(Chunk \ {h}) /\ Cardinality(Chunk \ {h}) = C - 1
    BY <1>10, <2>1, FS_RemoveElement
  <2>3. Cardinality(R) <= C - 1
    BY <2>1, <2>2, FS_Subset
  <2>4. QED
    BY <1>10, <1>11, <2>3
<1>13. Cardinality(R) < n_par * l
  <2> DEFINE B == Needs(cur) \ {h}
  <2>1. IsFiniteSet(B) /\ Cardinality(B) = Cardinality(Needs(cur)) - 1
    BY <1>6, <1>7, FS_RemoveElement
  <2>2. IsFiniteSet(Leaked)
    BY <1>10, FS_Subset DEF Leaked
  <2>3. R \subseteq Leaked \cup B
    BY <1>9
  <2> HIDE DEF B
  <2>4. /\ IsFiniteSet(Leaked \cup B) /\ IsFiniteSet(Leaked \cap B)
        /\ Cardinality(Leaked \cup B)
             = Cardinality(Leaked) + Cardinality(B) - Cardinality(Leaked \cap B)
    BY <2>1, <2>2, FS_Union, FS_Intersection
  <2>5. /\ Cardinality(Leaked) \in Nat /\ Cardinality(B) \in Nat
        /\ Cardinality(Leaked \cap B) \in Nat /\ Cardinality(Leaked \cup B) \in Nat
        /\ Cardinality(Needs(cur)) \in Nat
    BY <1>7, <2>1, <2>2, <2>4, FS_CardinalityType
  <2>6. Cardinality(R) <= Cardinality(Leaked \cup B)
    BY <2>3, <2>4, FS_Subset
  <2>7. Cardinality(Leaked) <= (n_par - nstreams) * l
    BY <1>1 DEF LeakInv, l
  <2>8. nstreams \in 1 .. n_par /\ n_par \in Nat
    BY <1>2 DEF HostType
  <2> DEFINE a == n_par - nstreams
  <2>9. a \in Nat /\ a + 1 <= n_par
    BY <2>8
  <2> HIDE DEF a
  <2>10. a * l + l <= n_par * l
    <3>1. PICK d \in Nat : n_par = (a + 1) + d
      <4>1. n_par - (a + 1) \in Nat /\ n_par = (a + 1) + (n_par - (a + 1))
        BY <2>8, <2>9
      <4>2. QED
        BY <4>1
    <3>2. n_par * l = (a * l + l) + d * l
      BY <1>10, <2>9, <3>1
    <3>3. d * l \in Nat /\ a * l + l \in Nat
      BY <1>10, <2>9, <3>1
    <3>4. QED
      BY <3>2, <3>3
  <2> DEFINE m == a * l
             w == n_par * l
  <2>11. m \in Nat /\ w \in Nat
    BY <1>10, <2>8, <2>9
  <2>12. Cardinality(Leaked) <= m /\ m + l <= w
    BY <2>7, <2>10 DEF a
  <2> HIDE DEF m, w
  <2>13. Cardinality(R) < w
    BY <1>7, <1>10, <1>11, <2>1, <2>4, <2>5, <2>6, <2>11, <2>12
  <2>14. QED
    BY <2>13 DEF w
<1>14. DefaultSlots \in {C, n_par * l}
  <2> DEFINE w == n_par * l
  <2>1. w \in Int /\ C \in Int
    BY <1>2, <1>10 DEF HostType
  <2>2. DefaultSlots = Min({C, w})
    BY DEF DefaultSlots, l
  <2> HIDE DEF w
  <2>3. \E x \in {C, w} : \A y \in {C, w} : x <= y
    BY <2>1
  <2>4. Min({C, w}) \in {C, w}
    BY <2>3 DEF Min
  <2>5. QED
    BY <2>2, <2>4 DEF w
<1>15. QED
  <2> DEFINE w == n_par * l
  <2>1. w \in Int /\ C \in Int /\ n_slots \in Nat
    BY <1>2, <1>10 DEF HostType
  <2>2. DefaultSlots \in {C, w} /\ n_slots < C /\ n_slots < w
    BY <1>3, <1>12, <1>13, <1>14
  <2> HIDE DEF w
  <2>3. QED
    BY <2>1, <2>2

\* At a fixed depth the default pool is never exhausted: a failure that halves the
\* streams loses the references of one subproblem, at most one per member of a quorum,
\* and takes at least one stream with as many slots out of use.
THEOREM PoolIsEnough == Spec => []PoolSuffices
<1> DEFINE LInv == LeakInv /\ PoolSuffices /\ (outcome = "exhausted" => pc = "end")
<1>1. Init => LInv
  BY LeakInit DEF Init, PoolSuffices
<1>2. IInv /\ LInv /\ [Next]_vars => LInv'
  <2> SUFFICES ASSUME IInv, LInv, [Next]_vars PROVE LInv'
    OBVIOUS
  <2>1. LeakInv'
    BY LeakStep
  <2>2. UNCHANGED <<n_par, n_slots, allow_escalation>>
    <3>1. CASE Quiet
      BY <3>1, QuietFacts DEF callVars
    <3>2. CASE Hit
      BY <3>2, HitFacts, PinFacts
    <3>3. CASE MissFree \/ MissEvict
      BY <3>3, MissFacts, PinFacts DEF Loads
    <3>4. CASE Launch
      BY <3>4 DEF Launch, loopVars, callVars
    <3>5. CASE MergeAndRelease
      BY <3>5 DEF MergeAndRelease, callVars
    <3>6. CASE (\E s \in StreamSlot : Copy(s) \/ Kernel(s)) \/ MergeOp
      BY <3>6 DEF Copy, Kernel, MergeOp, Exec, loopVars, callVars
    <3>7. QED
      BY <3>1, <3>2, <3>3, <3>4, <3>5, <3>6, Cases
  <2>3. DefaultSlots' = DefaultSlots
    BY <2>2 DEF DefaultSlots
  <2>4. CASE Exhausted
    <3>1. PoolSuffices'
      BY <2>2, <2>3, <2>4, NeverExhausted DEF PoolSuffices
    <3>2. pc' = "end"
      BY <2>4 DEF Exhausted
    <3>3. QED
      BY <2>1, <3>1, <3>2
  <2>5. CASE ~Exhausted
    <3>1. \/ outcome' = "raised" \/ outcome' = "returned"
          \/ outcome' = outcome /\ (pc = "end" => pc' = "end")
      <4>1. CASE Quiet
        BY <2>5, <4>1 DEF Quiet, Pop, WaitSlot, Oom, HalveStreams, RefineTask, Recovered, GiveUp,
           Return, Ended, vars, loopVars
      <4>2. CASE Hit \/ MissFree \/ MissEvict \/ Launch \/ MergeAndRelease
        BY <4>2 DEF Hit, MissFree, MissEvict, LoadInto, Pin, Launch, MergeAndRelease, loopVars
      <4>3. CASE (\E s \in StreamSlot : Copy(s) \/ Kernel(s)) \/ MergeOp
        BY <4>3 DEF Copy, Kernel, MergeOp, Exec, loopVars
      <4>4. QED
        BY <4>1, <4>2, <4>3, Cases
    <3>2. CASE outcome' \in {"raised", "returned"}
      BY <2>1, <3>2 DEF PoolSuffices
    <3>3. CASE outcome' = outcome /\ (pc = "end" => pc' = "end")
      BY <2>1, <2>2, <2>3, <3>3 DEF PoolSuffices
    <3>4. QED
      BY <3>1, <3>2, <3>3
  <2>6. QED
    BY <2>4, <2>5
<1>3. LInv => PoolSuffices
  OBVIOUS
<1>4. QED
  BY <1>1, <1>2, <1>3, Invariant, PTL DEF Spec
=============================================================================
