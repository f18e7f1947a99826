---------------------------- MODULE FrontEndProofs ----------------------------
(***************************************************************************)
(* The four invariants of the drop-in API, for any ways of passing the     *)
(* tensors and any number of calls and nested contexts.                    *)
(***************************************************************************)
EXTENDS FrontEnd, SequenceTheorems, TLAPS

Place2 == {"device", "host"}

\* Where a call can be.
Control == {"idle", "check", "evict_first", "plan", "mono", "place", "evict", "engine",
            "classic", "finally", "restore", "leave"}

Operand == [at : Place2, graph : BOOLEAN, grad_to : Place2]

\* Tensors are on one side or the other, loops are over three tensors, and attention is
\* running exactly when a call is.
TypeInv ==
    /\ where \in [Object -> Place2] /\ before \in [Object -> Place2]
    /\ calls \in Nat /\ (pc # "idle" => calls > 0) /\ (calls > 0 => call \in Call)
    /\ pc \in Control /\ i \in 1 .. 4
    /\ calls > 0 => operand \in [Args -> Operand]
    /\ on_cuda \in BOOLEAN /\ stream \in BOOLEAN /\ p \in {"mono", "device", "host"}
    /\ ev \in {"none", "held", "left", "restored"}
    /\ inside = (IF pc = "idle" THEN 0 ELSE 1)

\* As long as only contexts are used, the outermost one found the original and every
\* other one the patch.
PatchInv ==
    /\ sdpa \in {"original", "patched"} /\ min_tokens \in 1 .. 2
    /\ contexts \in Seq(BOOLEAN)
    /\ ~explicit =>
          /\ sdpa = "patched" <=> contexts # <<>>
          /\ \A k \in 1 .. Len(contexts) : contexts[k] <=> k # 1

\* The control points from the check of the devices to the end of the run.
Running == {"check", "evict_first", "plan", "mono", "place", "evict", "engine", "classic"}

\* The graph reaches what the run works on, wherever it is moved to; a tensor that an
\* eviction has not reached yet is where the caller had it.
GradInv ==
    pc \in Running /\ IsInjective(call.obj) =>
        /\ \A a \in call.grad :
              operand[a].graph /\ operand[a].grad_to = before[call.obj[a]]
        /\ Evicting => \A j \in 1 .. 3 :
              j >= i => where[call.obj[Arg[j]]] = before[call.obj[Arg[j]]]

\* What the run works on is where on_cuda says, or is being moved to the host.
PlaceInv ==
    /\ pc \in {"plan", "mono", "place", "engine", "classic"} =>
          \A a \in Args : operand[a].at = (IF on_cuda THEN "device" ELSE "host")
    /\ pc \in {"engine", "classic"} /\ stream /\ call.pinned # "stream" => ~on_cuda
    /\ Evicting => \A j \in 1 .. 3 : j < i => operand[Arg[j]].at = "host"

\* Only the call's tensors move, from the device to the host, once the call knows that
\* all of them are on the device; until the eviction is recorded nothing has moved unless
\* it failed halfway.
MoveInv ==
    /\ pc = "check" => ev = "none" /\ \A a \in Args : operand[a].at = before[call.obj[a]]
    /\ pc \in {"plan", "mono", "place"} /\ on_cuda => \A a \in Args : before[call.obj[a]] = "device"
    /\ calls > 0 /\ (Evicting \/ ev # "none") => \A a \in Args : before[call.obj[a]] = "device"
    /\ calls > 0 => \A o \in Object : where[o] # before[o] =>
          where[o] = "host" /\ \E j \in 1 .. 3 : o = call.obj[Arg[j]]
    /\ pc \in Running \ {"evict_first", "evict"} /\ (ev = "none" \/ on_cuda) =>
          where = before /\ i = 1 /\ ev = "none"
    /\ Evicting => ev = "none"
    /\ pc \in Running => failed = "none" /\ refused = {}

\* What is not back when the call ends.
AccountInv ==
    /\ pc \in {"finally", "leave", "idle"} /\ calls > 0 /\ ev = "none" =>
          where = before \/ failed \in {"evict_first", "evict", "plan"}
    /\ pc = "finally" => refused = {} /\ ev \in {"none", "held"}
    /\ pc = "restore" =>
          /\ ev = "held"
          /\ \A j \in 1 .. 3 : j < i =>
                where[call.obj[Arg[j]]] = "device" \/ call.obj[Arg[j]] \in refused
    /\ pc \in {"leave", "idle"} /\ calls > 0 /\ ev # "none" =>
          \A o \in Object : where[o] # before[o] =>
              failed = "plan" \/ call.restore = "no" \/ o \in refused
    /\ pc \in {"leave", "idle"} /\ calls > 0 /\ ev = "restored" => where = before
    /\ pc \in Running => ev \in {"none", "held"}

IInv == TypeInv /\ PatchInv /\ GradInv /\ PlaceInv /\ MoveInv /\ AccountInv

-----------------------------------------------------------------------------
\* The three arguments, and the loops over them.
LEMMA ArgFacts ==
    /\ Len(Arg) = 3
    /\ \A k \in 1 .. 3 : Arg[k] \in Args
    /\ \A a \in Args : \E k \in 1 .. 3 : a = Arg[k]
    /\ \A k, l \in 1 .. 3 : Arg[k] = Arg[l] => k = l
  BY DEF Arg, Args

\* A call passes one of the ways of passing tensors and asks for gradients of some.
LEMMA CallFacts ==
    ASSUME NEW c \in Call
    PROVE  /\ \A a \in Args : c.obj[a] \in Object
           /\ c.grad \subseteq Args
           /\ DOMAIN c.obj = Args
  BY FrontEndAssumption DEF Call, Object, Args

\* Every action keeps the types.
LEMMA TypeStep ==
    ASSUME IInv, [Next]_vars
    PROVE  TypeInv'
<1> USE ArgFacts, CallFacts DEF IInv, TypeInv, Control, patchVars, planVars, evVars, callVars, Kept, Goto, Raise
<1>1. CASE Patching
  BY <1>1 DEF Patching, Idle
<1>2. CASE Attention
  BY <1>2 DEF Attention, Begin, Given, Idle, Operand, Place2
<1>3. CASE Sdpa
  BY <1>3 DEF Sdpa, Begin, Given, Idle, Operand, Place2
<1>4. CASE Reject
  BY <1>4 DEF Reject
<1>5. CASE Accept
  BY <1>5 DEF Accept
<1>6. CASE EvictOne
  BY <1>6 DEF EvictOne, Evicting, HostCopy, Operand, Place2
<1>7. CASE Evicted
  BY <1>7 DEF Evicted, Evicting
<1>8. CASE EvictFails
  BY <1>8 DEF EvictFails, Evicting
<1>9. CASE Plan
  BY <1>9 DEF Plan
<1>10. CASE PlanRaises
  BY <1>10 DEF PlanRaises
<1>11. CASE MonoReturns
  BY <1>11 DEF MonoReturns, out_device
<1>12. CASE MonoOom
  BY <1>12 DEF MonoOom
<1>13. CASE Place
  <2> USE <1>13 DEF Place, Operand, Place2
  <2>1. CASE CopyToHost
    BY <2>1 DEF CopyToHost, PlainCopy, Settings
  <2>2. CASE ~CopyToHost
    BY <2>2 DEF StayResident, Release, KeepGraph, AsPlanned, Settings
  <2>3. QED
    BY <2>1, <2>2
<1>14. CASE WaveReturns
  BY <1>14 DEF WaveReturns, Deliver
<1>15. CASE WaveOom
  BY <1>15 DEF WaveOom
<1>16. CASE ClassicReturns
  BY <1>16 DEF ClassicReturns, Deliver
<1>17. CASE RunRaises
  BY <1>17 DEF RunRaises
<1>18. CASE Finally
  BY <1>18 DEF Finally, Due
<1>19. CASE RestoreOne
  BY <1>19 DEF RestoreOne, Operand, Place2
<1>20. CASE Restored
  BY <1>20 DEF Restored
<1>21. CASE RestoreRaises
  BY <1>21 DEF RestoreRaises
<1>22. CASE Leave
  <2> USE <1>22 DEF Leave
  <2>1. calls' > 0 /\ call' \in Call /\ pc' = "idle" /\ inside' = 0
    OBVIOUS
  <2>2. operand' \in [Args -> Operand]
    BY DEF Given, Operand, Place2
  <2>3. /\ calls' \in Nat /\ pc' \in Control /\ i' \in 1 .. 4
        /\ UNCHANGED <<where, before, ev>>
    OBVIOUS
  <2>4. on_cuda' \in BOOLEAN /\ stream' \in BOOLEAN /\ p' \in {"mono", "device", "host"}
    OBVIOUS
  <2>5. QED
    BY <2>1, <2>2, <2>3, <2>4
<1>23. CASE UNCHANGED vars
  BY <1>23 DEF vars
<1>24. QED
  BY <1>1, <1>2, <1>3, <1>4, <1>5, <1>6, <1>7, <1>8, <1>9, <1>10, <1>11, <1>12,
     <1>13, <1>14, <1>15, <1>16, <1>17, <1>18, <1>19, <1>20, <1>21, <1>22, <1>23 DEF Next

\* Entering and leaving contexts keeps them in step with the patch.
LEMMA PatchStep ==
    ASSUME IInv, [Next]_vars
    PROVE  PatchInv'
<1> USE ArgFacts DEF IInv, TypeInv, PatchInv, patchVars, planVars, evVars, callVars, Kept, Goto, Raise
<1>1. CASE Patching
  <2> USE <1>1 DEF Patching, Idle
  <2>1. ASSUME NEW m \in 1 .. 2, PatchSdpa(m) PROVE PatchInv'
    BY <2>1 DEF PatchSdpa, Patched
  <2>2. CASE UnpatchSdpa
    BY <2>2 DEF UnpatchSdpa
  <2>3. ASSUME NEW m \in 1 .. 2, EnterPatched(m) PROVE PatchInv'
    <3>1. contexts' = Append(contexts, sdpa = "patched") /\ sdpa' = "patched" /\ min_tokens' = m
      BY <2>3 DEF EnterPatched, Patched
    <3>2. /\ contexts' \in Seq(BOOLEAN) /\ Len(contexts') = Len(contexts) + 1
          /\ \A k \in 1 .. Len(contexts) : contexts'[k] = contexts[k]
          /\ contexts'[Len(contexts) + 1] = (sdpa = "patched")
      BY <3>1, AppendProperties
    <3>3. contexts = <<>> <=> Len(contexts) = 0
      BY EmptySeq
    <3>4. explicit' = explicit
      BY <2>3 DEF EnterPatched
    <3>5. contexts'[Len(contexts) + 1] <=> sdpa = "patched"
      BY <3>2, Zenon
    <3>6. ~explicit => (contexts'[Len(contexts) + 1] <=> Len(contexts) + 1 # 1)
      BY <3>3, <3>5
    <3>7. ASSUME ~explicit', NEW k \in 1 .. Len(contexts') PROVE contexts'[k] <=> k # 1
      <4>1. CASE k = Len(contexts) + 1
        BY <3>4, <3>6, <3>7, <4>1
      <4>2. CASE k # Len(contexts) + 1
        <5>1. k \in 1 .. Len(contexts)
          BY <3>2, <4>2
        <5>2. contexts'[k] = contexts[k] /\ (contexts[k] <=> k # 1)
          BY <3>2, <3>4, <3>7, <5>1
        <5>3. QED
          BY <5>2, Zenon
      <4>3. QED
        BY <4>1, <4>2
    <3>8. contexts' # <<>>
      BY <3>2, <3>3, EmptySeq
    <3>9. QED
      BY <3>1, <3>2, <3>4, <3>7, <3>8
  <2>4. CASE ExitPatched
    <3>1. contexts # <<>> /\ contexts' = Front(contexts) /\ explicit' = explicit
          /\ sdpa' = (IF ~Last(contexts) THEN "original" ELSE sdpa) /\ min_tokens' = min_tokens
      BY <2>4 DEF ExitPatched, Unpatches
    <3>2. Len(contexts) \in Nat \ {0} /\ Last(contexts) = contexts[Len(contexts)]
      BY <3>1, EmptySeq DEF Last
    <3>a. \A k \in 1 .. Len(contexts) - 1 : contexts[k] \in BOOLEAN
      BY <3>2, ElementOfSeq
    <3>b. contexts' = SubSeq(contexts, 1, Len(contexts) - 1)
      BY <3>1 DEF Front
    <3>3. /\ contexts' \in Seq(BOOLEAN) /\ Len(contexts') = Len(contexts) - 1
          /\ \A k \in 1 .. Len(contexts) - 1 : contexts'[k] = contexts[k]
      <4> DEFINE n == Len(contexts) - 1
      <4>1. n \in Nat /\ 1 \in Int /\ n \in Int
        BY <3>2
      <4>2. \A k \in 1 .. n : contexts[k] \in BOOLEAN
        BY <3>a
      <4> HIDE DEF n
      <4>3. /\ SubSeq(contexts, 1, n) \in Seq(BOOLEAN)
            /\ Len(SubSeq(contexts, 1, n)) = (IF 1 <= n THEN n - 1 + 1 ELSE 0)
            /\ \A k \in 1 .. n - 1 + 1 : SubSeq(contexts, 1, n)[k] = contexts[1 + k - 1]
        BY <4>1, <4>2, SubSeqProperties
      <4>4. contexts' = SubSeq(contexts, 1, n)
        BY <3>b DEF n
      <4>5. Len(contexts') = n /\ \A k \in 1 .. n : contexts'[k] = contexts[k]
        BY <4>1, <4>3, <4>4
      <4>6. QED
        BY <4>3, <4>4, <4>5 DEF n
    <3>4. contexts' = <<>> <=> Len(contexts) = 1
      BY <3>3, EmptySeq
    <3>5. QED
      BY <3>1, <3>2, <3>3, <3>4
  <2>5. QED
    BY <2>1, <2>2, <2>3, <2>4
<1>2. CASE Attention
  BY <1>2 DEF Attention, Begin, Given, Idle
<1>3. CASE Sdpa
  BY <1>3 DEF Sdpa, Begin, Given, Idle
<1>4. CASE Reject
  BY <1>4 DEF Reject
<1>5. CASE Accept
  BY <1>5 DEF Accept
<1>6. CASE EvictOne
  BY <1>6 DEF EvictOne, Evicting, HostCopy
<1>7. CASE Evicted
  BY <1>7 DEF Evicted, Evicting
<1>8. CASE EvictFails
  BY <1>8 DEF EvictFails, Evicting
<1>9. CASE Plan
  BY <1>9 DEF Plan
<1>10. CASE PlanRaises
  BY <1>10 DEF PlanRaises
<1>11. CASE MonoReturns
  BY <1>11 DEF MonoReturns, out_device
<1>12. CASE MonoOom
  BY <1>12 DEF MonoOom
<1>13. CASE Place
  BY <1>13 DEF Place, StayResident, Release, KeepGraph, CopyToHost, AsPlanned, Settings, Crowded, PlainCopy
<1>14. CASE WaveReturns
  BY <1>14 DEF WaveReturns, Deliver
<1>15. CASE WaveOom
  BY <1>15 DEF WaveOom
<1>16. CASE ClassicReturns
  BY <1>16 DEF ClassicReturns, Deliver
<1>17. CASE RunRaises
  BY <1>17 DEF RunRaises
<1>18. CASE Finally
  BY <1>18 DEF Finally, Due
<1>19. CASE RestoreOne
  BY <1>19 DEF RestoreOne
<1>20. CASE Restored
  BY <1>20 DEF Restored
<1>21. CASE RestoreRaises
  BY <1>21 DEF RestoreRaises
<1>22. CASE Leave
  BY <1>22 DEF Leave, Given
<1>23. CASE UNCHANGED vars
  BY <1>23 DEF vars
<1>24. QED
  BY <1>1, <1>2, <1>3, <1>4, <1>5, <1>6, <1>7, <1>8, <1>9, <1>10, <1>11, <1>12,
     <1>13, <1>14, <1>15, <1>16, <1>17, <1>18, <1>19, <1>20, <1>21, <1>22, <1>23 DEF Next

\* Every action keeps what the run works on where on_cuda says.
LEMMA PlaceStep ==
    ASSUME IInv, [Next]_vars
    PROVE  PlaceInv'
<1> USE ArgFacts, CallFacts DEF IInv, TypeInv, PlaceInv, MoveInv, Running, Control, Evicting, patchVars, planVars, evVars, callVars, Kept, Goto, Raise
<1>1. CASE Patching
  BY <1>1 DEF Patching, Idle
<1>2. CASE Attention
  BY <1>2 DEF Attention, Begin, Given, Idle
<1>3. CASE Sdpa
  BY <1>3 DEF Sdpa, Begin, Given, Idle
<1>4. CASE Reject
  BY <1>4 DEF Reject
<1>5. CASE Accept
  <2>1. on_cuda' <=> operand["q"].at = "device"
    BY <1>5, Zenon DEF Accept
  <2>2. UNCHANGED <<where, before, operand, ev, refused, calls, call, i, failed>>
    BY <1>5 DEF Accept
  <2>3. \A a, c \in Args : operand[a].at = operand[c].at
    BY <1>5 DEF Accept
  <2>4. pc = "check" /\ pc' = (IF call.evict = "yes" /\ on_cuda' THEN "evict_first" ELSE "plan")
    BY <1>5 DEF Accept
  <2>5. \A a \in Args : operand[a].at \in Place2
    BY <2>4, <1>5 DEF Operand
  <2>6. "q" \in Args /\ \A a \in Args : operand[a].at = operand["q"].at
    BY <2>3 DEF Args
  <2>7. QED
    BY <2>1, <2>2, <2>4, <2>5, <2>6 DEF Place2
<1>6. CASE EvictOne
  BY <1>6 DEF EvictOne, Evicting, HostCopy, Operand, Place2
<1>7. CASE Evicted
  BY <1>7 DEF Evicted, Evicting
<1>8. CASE EvictFails
  BY <1>8 DEF EvictFails, Evicting
<1>9. CASE Plan
  BY <1>9 DEF Plan
<1>10. CASE PlanRaises
  BY <1>10 DEF PlanRaises
<1>11. CASE MonoReturns
  BY <1>11 DEF MonoReturns, out_device
<1>12. CASE MonoOom
  BY <1>12 DEF MonoOom
<1>13. CASE Place
  <2>1. CASE CopyToHost
    BY <1>13, <2>1 DEF Place, CopyToHost, PlainCopy
  <2>2. CASE StayResident
    BY <1>13, <2>2 DEF Place, StayResident, Settings
  <2>3. CASE Release
    BY <1>13, <2>3 DEF Place, Release, Crowded
  <2>4. CASE KeepGraph
    BY <1>13, <2>4 DEF Place, KeepGraph, Settings
  <2>5. CASE AsPlanned
    <3>1. stream' /\ call.pinned # "stream" => ~on_cuda
      BY <2>5 DEF AsPlanned, Settings, Crowded
    <3>2. QED
      BY <1>13, <2>5, <3>1 DEF Place, AsPlanned
  <2>6. QED
    BY <1>13, <2>1, <2>2, <2>3, <2>4, <2>5 DEF Place
<1>14. CASE WaveReturns
  BY <1>14 DEF WaveReturns, Deliver
<1>15. CASE WaveOom
  BY <1>15 DEF WaveOom
<1>16. CASE ClassicReturns
  BY <1>16 DEF ClassicReturns, Deliver
<1>17. CASE RunRaises
  BY <1>17 DEF RunRaises
<1>18. CASE Finally
  BY <1>18 DEF Finally, Due
<1>19. CASE RestoreOne
  BY <1>19 DEF RestoreOne
<1>20. CASE Restored
  BY <1>20 DEF Restored
<1>21. CASE RestoreRaises
  BY <1>21 DEF RestoreRaises
<1>22. CASE Leave
  BY <1>22 DEF Leave, Given
<1>23. CASE UNCHANGED vars
  BY <1>23 DEF vars
<1>24. QED
  BY <1>1, <1>2, <1>3, <1>4, <1>5, <1>6, <1>7, <1>8, <1>9, <1>10, <1>11, <1>12,
     <1>13, <1>14, <1>15, <1>16, <1>17, <1>18, <1>19, <1>20, <1>21, <1>22, <1>23 DEF Next

\* Tensors move as MoveInv says.
LEMMA MoveStep ==
    ASSUME IInv, [Next]_vars
    PROVE  MoveInv'
<1> USE ArgFacts, CallFacts DEF IInv, TypeInv, MoveInv, AccountInv, Running, Control, Evicting, patchVars, planVars, evVars, callVars, Kept, Goto, Raise
<1>1. CASE Patching
  BY <1>1 DEF Patching, Idle
<1>2. CASE Attention
  BY <1>2 DEF Attention, Begin, Given, Idle
<1>3. CASE Sdpa
  BY <1>3 DEF Sdpa, Begin, Given, Idle
<1>4. CASE Reject
  BY <1>4 DEF Reject
<1>5. CASE Accept
  <2>1. on_cuda' <=> operand["q"].at = "device"
    BY <1>5, Zenon DEF Accept
  <2>2. UNCHANGED <<where, before, operand, ev, refused, calls, call, i, failed>>
    BY <1>5 DEF Accept
  <2>3. \A a, c \in Args : operand[a].at = operand[c].at
    BY <1>5 DEF Accept
  <2>4. pc = "check" /\ pc' = (IF call.evict = "yes" /\ on_cuda' THEN "evict_first" ELSE "plan")
    BY <1>5 DEF Accept
  <2>5. \A a \in Args : operand[a].at \in Place2
    BY <2>4, <1>5 DEF Operand
  <2>6. "q" \in Args /\ \A a \in Args : operand[a].at = operand["q"].at
    BY <2>3 DEF Args
  <2>7. QED
    BY <2>1, <2>2, <2>4, <2>5, <2>6 DEF Place2
<1>6. CASE EvictOne
  BY <1>6 DEF EvictOne, Evicting, HostCopy
<1>7. CASE Evicted
  BY <1>7 DEF Evicted, Evicting
<1>8. CASE EvictFails
  BY <1>8 DEF EvictFails, Evicting
<1>9. CASE Plan
  BY <1>9 DEF Plan
<1>10. CASE PlanRaises
  BY <1>10 DEF PlanRaises
<1>11. CASE MonoReturns
  BY <1>11 DEF MonoReturns, out_device
<1>12. CASE MonoOom
  BY <1>12 DEF MonoOom
<1>13. CASE Place
  <2>1. pc = "place" /\ UNCHANGED <<where, before, ev, refused, calls, call, i, failed>>
    BY <1>13 DEF Place
  <2>2. \/ pc' = "evict" /\ Crowded /\ UNCHANGED on_cuda
        \/ pc' = "engine" /\ UNCHANGED on_cuda
        \/ pc' = "engine" /\ on_cuda' = FALSE
    BY <1>13 DEF Place, StayResident, Release, KeepGraph, CopyToHost, AsPlanned
  <2>3. QED
    BY <2>1, <2>2 DEF Crowded
<1>14. CASE WaveReturns
  BY <1>14 DEF WaveReturns, Deliver
<1>15. CASE WaveOom
  BY <1>15 DEF WaveOom
<1>16. CASE ClassicReturns
  BY <1>16 DEF ClassicReturns, Deliver
<1>17. CASE RunRaises
  BY <1>17 DEF RunRaises
<1>18. CASE Finally
  BY <1>18 DEF Finally, Due
<1>19. CASE RestoreOne
  BY <1>19 DEF RestoreOne
<1>20. CASE Restored
  BY <1>20 DEF Restored
<1>21. CASE RestoreRaises
  BY <1>21 DEF RestoreRaises
<1>22. CASE Leave
  BY <1>22 DEF Leave, Given
<1>23. CASE UNCHANGED vars
  BY <1>23 DEF vars
<1>24. QED
  BY <1>1, <1>2, <1>3, <1>4, <1>5, <1>6, <1>7, <1>8, <1>9, <1>10, <1>11, <1>12,
     <1>13, <1>14, <1>15, <1>16, <1>17, <1>18, <1>19, <1>20, <1>21, <1>22, <1>23 DEF Next

\* No action cuts an operand off from the graph of the caller.
LEMMA GradStep ==
    ASSUME IInv, [Next]_vars
    PROVE  GradInv'
<1> USE ArgFacts, CallFacts DEF IInv, TypeInv, GradInv, MoveInv, Running, Control, Evicting, patchVars, planVars, evVars, callVars, Kept, Goto, Raise
<1>1. CASE Patching
  BY <1>1 DEF Patching, Idle
<1>2. CASE Attention
  BY <1>2 DEF Attention, Begin, Given, Idle
<1>3. CASE Sdpa
  BY <1>3 DEF Sdpa, Begin, Given, Idle
<1>4. CASE Reject
  BY <1>4 DEF Reject
<1>5. CASE Accept
  BY <1>5 DEF Accept
<1>6. CASE EvictOne
  BY <1>6 DEF EvictOne, Evicting, HostCopy, Operand, IsInjective
<1>7. CASE Evicted
  BY <1>7 DEF Evicted, Evicting
<1>8. CASE EvictFails
  BY <1>8 DEF EvictFails, Evicting
<1>9. CASE Plan
  BY <1>9 DEF Plan
<1>10. CASE PlanRaises
  BY <1>10 DEF PlanRaises
<1>11. CASE MonoReturns
  BY <1>11 DEF MonoReturns, out_device
<1>12. CASE MonoOom
  BY <1>12 DEF MonoOom
<1>13. CASE Place
  <2>1. pc = "place" /\ UNCHANGED <<where, before, ev, refused, calls, call, i, failed>>
    BY <1>13 DEF Place
  <2>2. call.grad = {} \/ UNCHANGED operand
    BY <1>13 DEF Place, StayResident, Release, KeepGraph, CopyToHost, AsPlanned
  <2>3. pc' \in {"evict", "engine"} /\ (pc' = "evict" => on_cuda)
    BY <1>13 DEF Place, StayResident, Release, KeepGraph, CopyToHost, AsPlanned, Crowded
  <2>4. QED
    BY <2>1, <2>2, <2>3
<1>14. CASE WaveReturns
  BY <1>14 DEF WaveReturns, Deliver
<1>15. CASE WaveOom
  BY <1>15 DEF WaveOom
<1>16. CASE ClassicReturns
  BY <1>16 DEF ClassicReturns, Deliver
<1>17. CASE RunRaises
  BY <1>17 DEF RunRaises
<1>18. CASE Finally
  BY <1>18 DEF Finally, Due
<1>19. CASE RestoreOne
  BY <1>19 DEF RestoreOne
<1>20. CASE Restored
  BY <1>20 DEF Restored
<1>21. CASE RestoreRaises
  BY <1>21 DEF RestoreRaises
<1>22. CASE Leave
  BY <1>22 DEF Leave, Given
<1>23. CASE UNCHANGED vars
  BY <1>23 DEF vars
<1>24. QED
  BY <1>1, <1>2, <1>3, <1>4, <1>5, <1>6, <1>7, <1>8, <1>9, <1>10, <1>11, <1>12,
     <1>13, <1>14, <1>15, <1>16, <1>17, <1>18, <1>19, <1>20, <1>21, <1>22, <1>23 DEF Next

\* The end of the call leaves only what was refused or forbidden.
LEMMA AccountStep ==
    ASSUME IInv, [Next]_vars
    PROVE  AccountInv'
<1> USE ArgFacts, CallFacts DEF IInv, TypeInv, MoveInv, AccountInv, Running, Control, Evicting, patchVars, planVars, evVars, callVars, Kept, Goto, Raise
<1>1. CASE Patching
  BY <1>1 DEF Patching, Idle
<1>2. CASE Attention
  BY <1>2 DEF Attention, Begin, Given, Idle
<1>3. CASE Sdpa
  BY <1>3 DEF Sdpa, Begin, Given, Idle
<1>4. CASE Reject
  BY <1>4 DEF Reject
<1>5. CASE Accept
  BY <1>5 DEF Accept
<1>6. CASE EvictOne
  BY <1>6 DEF EvictOne, Evicting, HostCopy
<1>7. CASE Evicted
  BY <1>7 DEF Evicted, Evicting
<1>8. CASE EvictFails
  BY <1>8 DEF EvictFails, Evicting
<1>9. CASE Plan
  BY <1>9 DEF Plan
<1>10. CASE PlanRaises
  BY <1>10 DEF PlanRaises
<1>11. CASE MonoReturns
  BY <1>11 DEF MonoReturns, out_device
<1>12. CASE MonoOom
  BY <1>12 DEF MonoOom
<1>13. CASE Place
  BY <1>13 DEF Place, StayResident, Release, KeepGraph, CopyToHost, AsPlanned, Settings, Crowded, PlainCopy
<1>14. CASE WaveReturns
  BY <1>14 DEF WaveReturns, Deliver
<1>15. CASE WaveOom
  BY <1>15 DEF WaveOom
<1>16. CASE ClassicReturns
  BY <1>16 DEF ClassicReturns, Deliver
<1>17. CASE RunRaises
  BY <1>17 DEF RunRaises
<1>18. CASE Finally
  BY <1>18 DEF Finally, Due
<1>19. CASE RestoreOne
  BY <1>19 DEF RestoreOne
<1>20. CASE Restored
  BY <1>20 DEF Restored
<1>21. CASE RestoreRaises
  BY <1>21 DEF RestoreRaises
<1>22. CASE Leave
  BY <1>22 DEF Leave, Given
<1>23. CASE UNCHANGED vars
  BY <1>23 DEF vars
<1>24. QED
  BY <1>1, <1>2, <1>3, <1>4, <1>5, <1>6, <1>7, <1>8, <1>9, <1>10, <1>11, <1>12,
     <1>13, <1>14, <1>15, <1>16, <1>17, <1>18, <1>19, <1>20, <1>21, <1>22, <1>23 DEF Next

-----------------------------------------------------------------------------
\* A thread that has not called attention yet.
LEMMA InvInit == Init => IInv
<1> SUFFICES ASSUME Init PROVE IInv
  OBVIOUS
<1>0. /\ where \in [Object -> Place2] /\ before = where /\ calls = 0 /\ inside = 0
      /\ pc = "idle" /\ i = 1 /\ p = "mono" /\ ev = "none"
      /\ on_cuda = FALSE /\ stream = FALSE
  BY DEF Init, Place2
<1>a. before \in [Object -> Place2] /\ on_cuda \in BOOLEAN /\ stream \in BOOLEAN
  BY <1>0, Zenon
<1>b. /\ calls \in Nat /\ ~(calls > 0) /\ pc \in Control /\ i \in 1 .. 4
      /\ p \in {"mono", "device", "host"} /\ ev \in {"none", "held", "left", "restored"}
      /\ inside = (IF pc = "idle" THEN 0 ELSE 1)
  BY <1>0 DEF Control
<1>1. TypeInv
  BY <1>0, <1>a, <1>b DEF TypeInv
<1>2. PatchInv
  BY EmptySeq DEF Init, PatchInv
<1>3. GradInv /\ PlaceInv /\ MoveInv /\ AccountInv
  BY DEF Init, GradInv, PlaceInv, MoveInv, AccountInv, Running, Evicting
<1>4. QED
  BY <1>1, <1>2, <1>3 DEF IInv

\* Every action keeps the invariant.
LEMMA InvStep == IInv /\ [Next]_vars => IInv'
  BY TypeStep, PatchStep, GradStep, PlaceStep, MoveStep, AccountStep DEF IInv

\* The inductive invariant the four theorems follow from.
LEMMA Invariant == Spec => []IInv
  BY InvInit, InvStep, PTL DEF Spec

\* After a call, an input that is not where it was had its return refused or forbidden, or
\* the call failed while it was being evicted or planned; inputs reported as restored are
\* all where they were (_evict_inputs, _restore_inputs, the finally of attention).
THEOREM InputsAccountedFor == Spec => []InputsAccounted
<1>1. IInv => InputsAccounted
  BY DEF IInv, AccountInv, InputsAccounted
<1>2. QED
  BY <1>1, Invariant, PTL

\* The engine works on operands the graph of the caller reaches, and their gradients
\* arrive where the inputs were (the host copies of _evict_inputs).
THEOREM GradientsConnected == Spec => []GradConnected
<1>1. IInv => GradConnected
  BY DEF IInv, GradInv, GradConnected, Running
<1>2. QED
  BY <1>1, Invariant, PTL

\* The engine is given operands on one device, and streams only from the host (_run).
THEOREM OperandsWherePlanned == Spec => []OperandsPlaced
<1>1. IInv => OperandsPlaced
  BY DEF IInv, PlaceInv, OperandsPlaced
<1>2. QED
  BY <1>1, Invariant, PTL

\* With context managers only, the patch is in place exactly within them and a long call
\* is routed (patched_sdpa, _sdpa_replacement).
THEOREM RoutedWithinContexts == Spec => []Routing
<1>1. IInv => Routing
  BY DEF IInv, TypeInv, PatchInv, Routing, Routed, Idle
<1>2. QED
  BY <1>1, Invariant, PTL
=============================================================================
