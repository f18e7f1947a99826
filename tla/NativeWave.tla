------------------------------ MODULE NativeWave ------------------------------
(***************************************************************************)
(* The wave engine (native_wave.py): wave_forward, ChunkPool.load, the     *)
(* merge on the device or into host accumulators, and wave_backward.       *)
(*                                                                         *)
(* The host issues work to one stream and seldom waits for it; the stream  *)
(* executes in order.  Host-resident inputs go through two pinned staging  *)
(* buffers into a pool of level-1 chunks.  A kernel is what KernelPair     *)
(* shows of it: it sums the kept pairs of the rows it is pointed at.  A    *)
(* row of an input is <<batch, token>>; a sum is the bag of its terms.     *)
(***************************************************************************)
EXTENDS WaveTables, Bags

VARIABLES
    call,        \* the arguments of the call
    pc,          \* where the host is
    b, issued,   \* its batch and the number of waves issued in it
    slot_of,     \* chunk -> slot of the pool, -1 if not resident
    todo,        \* copies left in ChunkPool.load: <<chunk, tensor>>
    copied,      \* copies made in it
    stage,       \* content of the two staging buffers: <<batch, chunk, tensor>>
    queue,       \* work issued to the stream and not executed
    pool,        \* [slot, tensor] -> <<batch, chunk>> copied there last
    pack,        \* packed output: [subproblem, row] -> set of terms
    acc,         \* the accumulators: token -> bag of terms, or NaN
    part,        \* staged partial result of a wave (acc=CPU)
    out,         \* batch -> the output rows, once copied
    grad         \* batch -> bag of the products added to the gradients

hostVars   == <<call, pc, b, issued, slot_of, todo, copied, stage>>
deviceVars == <<pool, pack, part, grad>>
vars       == <<hostVars, queue, deviceVars, acc, out>>

Tensor == {"q", "k", "v"}
NaN    == SetToBag({<<-1>>})
Waves  == FwdWaves[call]
Wave   == Waves[issued+1]
Zeros  == [u \in Token |-> EmptyBag]

Init ==
    /\ call \in Calls
    /\ pc = "zero" /\ b = 0 /\ issued = 0
    /\ slot_of = [k \in Chunk |-> -1]
    /\ todo = <<>> /\ copied = 0
    /\ stage = [s \in 0 .. 1 |-> <<>>]
    /\ queue = <<>>
    /\ pool = [x \in (0 .. call.n_slots - 1) \X Tensor |-> <<>>]
    /\ pack = <<>>
    /\ part = Zeros
    /\ acc = Zeros
    /\ out = [x \in 0 .. call.batch - 1 |-> <<>>]
    /\ grad = [x \in 0 .. call.batch - 1 |-> EmptyBag]

-----------------------------------------------------------------------------
\* The host.

\* acc.zero_() at the start of a batch: queued, or done at once on the host.
ZeroAcc ==
    /\ pc = "zero"
    /\ pc' = "wave"
    /\ IF call.acc_gpu
       THEN queue' = Append(queue, [op |-> "zero"]) /\ UNCHANGED acc
       ELSE acc' = Zeros /\ UNCHANGED queue
    /\ UNCHANGED <<call, b, issued, slot_of, todo, copied, stage, deviceVars, out>>

\* Chunks a wave needs that are resident, and the slots of the others.
Resident == {k \in ChunksOf(Wave) : slot_of[k] # -1}

FreeSlots == {s \in 0 .. call.n_slots - 1 : \A k \in Resident : slot_of[k] # s}

Missing == Ascending(ChunksOf(Wave) \ Resident)

\* ChunkPool.load: resident chunks stay where they are, the others take the free
\* slots from the highest down and are copied tensor by tensor.
BeginLoad ==
    LET free == Reverse(Ascending(FreeSlots))
    IN  /\ pc = "wave" /\ call.host /\ issued < Len(Waves)
        /\ pc' = "load"
        /\ slot_of' = [k \in Chunk |->
               IF k \in Resident THEN slot_of[k]
               ELSE IF k \in ChunksOf(Wave)
               THEN free[CHOOSE x \in DOMAIN Missing : Missing[x] = k]
               ELSE -1]
        /\ todo' = FlattenSeq([x \in DOMAIN Missing |->
                                  <<<<Missing[x], "q">>, <<Missing[x], "k">>, <<Missing[x], "v">>>>])
        /\ copied' = 0
        /\ UNCHANGED <<call, b, issued, stage, queue, deviceVars, acc, out>>

\* The event of a staging buffer: the last copy out of it has executed.
EventSkipped(s) == TRUE

EventFired(s) == \A x \in DOMAIN queue : queue[x].op = "h2d" => queue[x].buf # s

CopyChunk ==
    LET k == todo[1][1]
        t == todo[1][2]
    IN  /\ pc = "load" /\ todo # <<>>
        /\ EventFired(copied % 2)
        /\ stage' = [stage EXCEPT ![copied % 2] = <<b, k, t>>]
        /\ queue' = Append(queue, [op |-> "h2d", buf |-> copied % 2, src |-> <<b, k, t>>,
                                   dst |-> <<slot_of[k], t>>])
        /\ todo' = Tail(todo)
        /\ copied' = copied + 1
        /\ UNCHANGED <<call, pc, b, issued, slot_of, deviceVars, acc, out>>

\* The forward kernel of a wave with its block map, and the merge of its rows.
Launch ==
    /\ \/ pc = "wave" /\ ~call.host /\ issued < Len(Waves)
       \/ pc = "load" /\ todo = <<>>
    /\ queue' = queue \o <<[op |-> "forward", b |-> b, w |-> issued+1, slot_of |-> slot_of],
                           [op |-> "merge", w |-> issued+1]>>
    /\ IF call.acc_gpu
       THEN pc' = "wave" /\ issued' = issued + 1
       ELSE pc' = "fold" /\ UNCHANGED issued
    /\ UNCHANGED <<call, b, slot_of, todo, copied, stage, deviceVars, acc, out>>

\* _merge_wave_to_host waits for the device before it reads the staged result; for
\* a token whose maximum is -inf on both sides the weights are exp(-inf + inf).
\* A fault: the host does not wait.
NotSynchronized == TRUE

Synchronized == queue = <<>>

Folded(u) == IF part[u] = EmptyBag /\ acc[u] = EmptyBag THEN NaN ELSE acc[u] (+) part[u]

Fold ==
    /\ pc = "fold"
    /\ Synchronized
    /\ acc' = [u \in Token |-> IF u \in Uniq(Wave) THEN Folded(u) ELSE acc[u]]
    /\ issued' = issued + 1
    /\ pc' = "wave"
    /\ UNCHANGED <<call, b, slot_of, todo, copied, stage, queue, deviceVars, out>>

\* out[b].copy_ and the next batch.  The backward exists for the CUDA kernel only.
Output ==
    /\ pc = "wave" /\ issued = Len(Waves)
    /\ IF call.acc_gpu
       THEN queue' = Append(queue, [op |-> "out", b |-> b]) /\ UNCHANGED out
       ELSE out' = [out EXCEPT ![b] = acc] /\ UNCHANGED queue
    /\ issued' = 0
    /\ IF b + 1 < call.batch THEN b' = b + 1 /\ pc' = "zero"
       ELSE b' = 0 /\ pc' = IF call.kernel = "cuda" /\ BwdWaves[call] # <<>>
                           THEN "backward" ELSE "done"
    /\ UNCHANGED <<call, slot_of, todo, copied, stage, deviceVars, acc>>

\* One wave of wave_backward: the packed inputs, the kernel and the three
\* wave_scatter_add, all on the stream.
IssueBackward ==
    /\ pc = "backward"
    /\ queue' = Append(queue, [op |-> "backward", b |-> b, w |-> issued+1])
    /\ IF issued + 1 < Len(BwdWaves[call]) THEN issued' = issued + 1 /\ UNCHANGED <<b, pc>>
       ELSE /\ issued' = 0
            /\ IF b + 1 < call.batch THEN b' = b + 1 /\ UNCHANGED pc
               ELSE pc' = "done" /\ UNCHANGED b
    /\ UNCHANGED <<call, slot_of, todo, copied, stage, deviceVars, acc, out>>

HostStep == ZeroAcc \/ BeginLoad \/ CopyChunk \/ Launch \/ Fold \/ Output \/ IssueBackward

-----------------------------------------------------------------------------
\* The stream.
Execute(op) == queue # <<>> /\ Head(queue).op = op /\ queue' = Tail(queue)

Zero ==
    /\ Execute("zero")
    /\ acc' = Zeros
    /\ UNCHANGED <<hostVars, deviceVars, out>>

HostToDevice ==
    /\ Execute("h2d")
    /\ pool' = [pool EXCEPT ![Head(queue).dst] = SubSeq(stage[Head(queue).buf], 1, 2)]
    /\ UNCHANGED <<hostVars, pack, part, grad, acc, out>>

\* What the kernel of batch bb reads as row r of tensor t.  A pool row past the end
\* of its chunk, or one past the end of the input, is no row of the call.
PoolRow(r, t) ==
    LET cell == pool[<<r \div slot_len, t>>]
        off  == r % slot_len
    IN  IF cell # <<>> /\ off < ChunkSize(cell[2])
        THEN <<cell[1], ChunkStart(N, cell[2]) + off>> ELSE <<>>

ReadRow(bb, r, t) ==
    IF call.host THEN PoolRow(r, t) ELSE IF r \in Token THEN <<bb, r>> ELSE <<>>

\* Row x of a wave, through the gather or through the block map.
Operand(op, x, t) ==
    LET wave == Waves[op.w]
        g    == Tok(wave, x)
        row  == IF call.host THEN rows_of_global(op.slot_of, g) ELSE g
    IN  ReadRow(op.b, IF Gathered(call) THEN row ELSE KernelRow(call, wave, op.slot_of, x), t)

Attended(wave, x) ==
    {y \in WaveRows(wave) : /\ y[1] = x[1]
                            /\ call.causal => y[2] <= x[2]
                            /\ <<Tok(wave, x), Tok(wave, y)>> \in wave[x[1]].kept}

ForwardKernel ==
    /\ Execute("forward")
    /\ LET op   == Head(queue)
           wave == Waves[op.w]
           in   == [x \in WaveRows(wave) |->
                       <<Operand(op, x, "q"), Operand(op, x, "k"), Operand(op, x, "v")>>]
       IN  pack' = [x \in WaveRows(wave) |->
                       {<<in[x][1], in[y][2], in[y][3]>> : y \in Attended(wave, x)}]
    /\ UNCHANGED <<hostVars, pool, part, grad, acc, out>>

\* The bag of the values F takes on a set.
BagOf(F(_), set) == [e \in {F(x) : x \in set} |-> Cardinality({x \in set : F(x) = e})]

\* The rows of token u; one without a finite lse adds nothing.
Merged(wave, u) == BagOf(LAMBDA z : z[2], UNION {{x} \X pack[x] : x \in Order(wave, u)})

\* wave_merge: into the accumulators, or into those of this wave, which are then
\* copied to pinned memory.
Merge ==
    /\ Execute("merge")
    /\ LET wave == Waves[Head(queue).w]
           sum  == [u \in Token |-> Merged(wave, u)]
       IN  IF call.acc_gpu
           THEN acc' = [u \in Token |-> acc[u] (+) sum[u]] /\ UNCHANGED part
           ELSE part' = sum /\ UNCHANGED acc
    /\ UNCHANGED <<hostVars, pool, pack, grad, out>>

CopyOut ==
    /\ Execute("out")
    /\ out' = [out EXCEPT ![Head(queue).b] = acc]
    /\ UNCHANGED <<hostVars, deviceVars, acc>>

\* A product of the backward pairs a query with a key and uses the query's dpsum.
Dpsum(wave, x) ==
    LET written == {y \in WaveRows(wave) : DpsWritten(wave, y) = DpsRead(wave, x)}
    IN  {Tok(wave, y) : y \in written}

\* wave_scatter_add, once per gradient: every packed row is added to its token.
Scattered(bb, products) == [grad EXCEPT ![bb] = @ (+) products]

BackwardKernel ==
    /\ Execute("backward")
    /\ LET op   == Head(queue)
           wave == BwdWaves[call][op.w]
           pairs == UNION {{x} \X Attended(wave, x) : x \in WaveRows(wave)}
           term(p) == <<Tok(wave, p[1]), Tok(wave, p[2]), Dpsum(wave, p[1])>>
       IN  grad' = Scattered(op.b, BagOf(term, pairs))
    /\ UNCHANGED <<hostVars, pool, pack, part, acc, out>>

DeviceStep ==
    \/ Zero \/ HostToDevice \/ ForwardKernel \/ Merge \/ CopyOut \/ BackwardKernel

Returned == pc = "done" /\ queue = <<>>

Complete == Returned /\ UNCHANGED vars

Next == HostStep \/ DeviceStep \/ Complete

Spec == Init /\ [][Next]_vars

-----------------------------------------------------------------------------
\* Type invariant: positions of the host, and a slot for at most one chunk.
TypeOK ==
    /\ call \in Calls
    /\ pc \in {"zero", "wave", "load", "fold", "backward", "done"}
    /\ b \in 0 .. call.batch - 1
    /\ issued \in 0 .. Len(IF pc = "backward" THEN BwdWaves[call] ELSE Waves)
    /\ slot_of \in [Chunk -> -1 .. call.n_slots - 1]
    /\ \A j, k \in Chunk : j # k /\ slot_of[j] # -1 => slot_of[j] # slot_of[k]
    /\ todo \in Seq(Chunk \X Tensor)
    /\ DOMAIN part = Token
    /\ DOMAIN acc = Token

\* A copy that has not executed finds in its staging buffer what the host put
\* there for it: reuse waits for the event of the copy before (ChunkPool.load).
StagingOwned ==
    \A x \in DOMAIN queue :
        queue[x].op = "h2d" => stage[queue[x].buf] = queue[x].src

\* The two assertions of the pool hold for every plan: a wave never needs more
\* chunks than there are slots, and its block map refers to resident chunks only.
NeverAsserts ==
    /\ call.host /\ pc = "wave" /\ issued < Len(Waves) =>
           Cardinality(ChunksOf(Wave)) <= call.n_slots
    /\ \A x \in DOMAIN queue :
           call.host /\ queue[x].op = "forward" =>
               \A y \in WaveRows(Waves[queue[x].w]) :
                   queue[x].slot_of[ChunkAt(N, Tok(Waves[queue[x].w], y))] # -1

\* With host accumulators, a token is never folded while its maximum is -inf both in
\* the accumulator and in the wave ("every uniq token has at least one row: sm is
\* finite", _merge_wave_to_host): the weights would be exp(-inf + inf).
FoldsFinite ==
    pc = "fold" /\ Synchronized =>
        \A u \in Uniq(Wave) : acc[u] # EmptyBag \/ part[u] # EmptyBag

\* Every row that is returned sums each key of its mask exactly once, with the
\* query, key and value rows of its own batch element: through any grouping into
\* waves, either layout, any residence and either accumulator.
ReturnedExact ==
    \A x \in DOMAIN out : out[x] # <<>> =>
        \A u \in Token :
            out[x][u] = SetToBag({<<<<x, u>>, <<x, v>>, <<x, v>>>> :
                                      v \in {v \in Token : call.causal => v <= u}})

\* Only rows of its own batch element reach an output: what wave_forward promises
\* of host-resident inputs "streamed into a device chunk pool wave by wave".
ReadsItsBatch ==
    \A x \in DOMAIN out : out[x] # <<>> =>
        \A u \in Token : \A term \in DOMAIN out[x][u] :
            \A y \in 1 .. 3 : term[y][1] = x

\* The gradients get each kept pair exactly once, with the dpsum of its query,
\* although the backward has its own depth and its own waves.
GradientsExact ==
    Returned /\ call.kernel = "cuda" =>
        \A x \in DOMAIN grad :
            grad[x] = SetToBag({<<u[1], u[2], {u[1]}>> :
                           u \in {u \in Token \X Token : call.causal => u[2] <= u[1]}})
=============================================================================
