------------------------------- MODULE FrontEnd -------------------------------
(***************************************************************************)
(* The drop-in API (api.py) of one thread: calls of attention, made        *)
(* directly or through the patched F.scaled_dot_product_attention, with    *)
(* the eviction of the caller's tensors, the choice of an engine, the      *)
(* fallbacks, the delivery and the restoration.                            *)
(*                                                                         *)
(* An engine is one step that returns, runs out of memory or raises.  What *)
(* fits on a device, and what the planner makes of it, is left open.  A    *)
(* tensor is where its storage is; the caller may pass one object twice.   *)
(***************************************************************************)
EXTENDS Naturals, SequencesExt, Functions

CONSTANTS
    Passed,      \* ways of passing the caller's tensors as q, k and v
    MaxCalls,    \* bound: calls of attention
    MaxNested    \* bound: patched_sdpa contexts open at a time

Arg == <<"q", "k", "v">>
Args == {"q", "k", "v"}
Object == UNION {{obj[a] : a \in Args} : obj \in Passed}

ASSUME FrontEndAssumption ==
    /\ \A obj \in Passed : DOMAIN obj = Args
    /\ MaxCalls \in Nat /\ MaxNested \in Nat

VARIABLES
    where,         \* object -> "device" or "host", where its storage is
    sdpa,          \* what F.scaled_dot_product_attention is: "original" or "patched"
    min_tokens,    \* _PATCH_MIN_TOKENS
    contexts,      \* open patched_sdpa contexts: their was, innermost last
    explicit,      \* patch_sdpa or unpatch_sdpa was called outside of a context manager
    inside,        \* _INSIDE[0]
    calls, call,   \* calls of attention made, and the arguments of the latest
    before,        \* where, when it was made
    pc, i,         \* where it is, and the tensor a loop is at
    operand,       \* what the names q, k and v denote
    on_cuda, p, dev_ok, stream, acc,
    ev, refused,   \* the eviction state, tensors the restoration left on the host
    out, failed    \* where the output is; where in the call an exception came from

patchVars == <<sdpa, min_tokens, contexts, explicit>>
planVars  == <<p, dev_ok, stream, acc>>
evVars    == <<where, operand, on_cuda, ev, refused>>
callVars  == <<calls, call, before>>
vars == <<patchVars, planVars, evVars, callVars, inside, pc, i, out, failed>>

\* An operand: where it is, whether the caller's graph reaches it, and where its
\* gradient is sent back to.
Given(obj) == [a \in Args |-> [at |-> where[obj[a]], graph |-> TRUE, grad_to |-> where[obj[a]]]]

\* A caller pins no setting of the engine, some, or stream_from_host among them.
Call == [obj : Passed, evict : {"auto", "yes", "no"}, restore : {"auto", "yes", "no"},
         kernel : {"auto", "wave", "cuda"}, grad : {{}, {"q"}, Args},
         pinned : {"none", "some", "stream"}]

Init ==
    /\ where \in [Object -> {"device", "host"}]
    /\ sdpa = "original" /\ min_tokens = 2 /\ contexts = <<>> /\ explicit = FALSE
    /\ inside = 0
    /\ calls = 0 /\ call = [evict |-> "auto", restore |-> "auto", kernel |-> "auto",
                            grad |-> {}, pinned |-> "none", obj |-> CHOOSE obj \in Passed : TRUE]
    /\ before = where
    /\ pc = "idle" /\ i = 1
    /\ operand = Given(call.obj)
    /\ on_cuda = FALSE /\ p = "mono" /\ dev_ok = FALSE /\ stream = FALSE /\ acc = "gpu"
    /\ ev = "none" /\ refused = {}
    /\ out = "none" /\ failed = "none"

-----------------------------------------------------------------------------
(* Patching F.scaled_dot_product_attention.                                  *)

Idle == pc = "idle"
Patched(m) == sdpa' = "patched" /\ min_tokens' = m

PatchSdpa(m) == Patched(m) /\ explicit' = TRUE /\ UNCHANGED contexts

UnpatchSdpa == sdpa' = "original" /\ explicit' = TRUE /\ UNCHANGED <<min_tokens, contexts>>

EnterPatched(m) ==
    /\ Len(contexts) < MaxNested
    /\ contexts' = Append(contexts, sdpa = "patched")
    /\ Patched(m)
    /\ UNCHANGED explicit

\* A context that found the patch in place leaves it there.  A fault: it does not.
Always(was)    == TRUE
Unpatches(was) == ~was

ExitPatched ==
    /\ contexts # <<>>
    /\ contexts' = Front(contexts)
    /\ sdpa' = IF Unpatches(Last(contexts)) THEN "original" ELSE sdpa
    /\ UNCHANGED <<min_tokens, explicit>>

Patching ==
    /\ Idle
    /\ (\E m \in 1 .. 2 : PatchSdpa(m) \/ EnterPatched(m)) \/ UnpatchSdpa \/ ExitPatched
    /\ UNCHANGED <<planVars, evVars, callVars, inside, pc, i, out, failed>>

-----------------------------------------------------------------------------
(* The call.                                                                 *)

Begin(c) ==
    /\ call' = c /\ before' = where /\ calls' = calls + 1
    /\ inside' = inside + 1
    /\ pc' = "check" /\ i' = 1
    /\ ev' = "none" /\ refused' = {} /\ out' = "none" /\ failed' = "none"
    /\ operand' = Given(c.obj)
    /\ UNCHANGED <<patchVars, planVars, where, on_cuda>>

Attention == Idle /\ calls < MaxCalls /\ \E c \in Call : Begin(c)

\* A call of F.scaled_dot_product_attention on n tokens is routed when it is patched,
\* the call is long enough, and attention is not running.
Routed(n) == sdpa = "patched" /\ n >= min_tokens /\ inside = 0

Sdpa ==
    /\ Idle /\ calls < MaxCalls
    /\ \E n \in 1 .. 2, c \in Call :
          /\ Routed(n)
          /\ c.evict = "auto" /\ c.restore = "auto" /\ c.kernel = "auto" /\ c.pinned = "none"
          /\ Begin(c)

Goto(at)  == pc' = at
Raise(at) == failed' = pc /\ pc' = at

\* Inputs on different devices are rejected.
Reject ==
    /\ pc = "check" /\ \E a, c \in Args : operand[a].at # operand[c].at
    /\ Raise("leave")
    /\ UNCHANGED <<patchVars, planVars, evVars, callVars, inside, i, out>>

Accept ==
    /\ pc = "check" /\ \A a, c \in Args : operand[a].at = operand[c].at
    /\ on_cuda' = (operand["q"].at = "device")
    /\ Goto(IF call.evict = "yes" /\ on_cuda' THEN "evict_first" ELSE "plan")
    /\ UNCHANGED <<patchVars, planVars, where, operand, ev, refused, callVars, inside, i, out, failed>>

out_device == before[call.obj["q"]]

Evicting == pc \in {"evict_first", "evict"}

\* The copy of an input the graph reaches is an operation of the graph.  A fault: a
\* plain copy.
PlainCopy(a) == [at |-> "host", graph |-> FALSE, grad_to |-> "host"]
HostCopy(a)  ==
    [at |-> "host", graph |-> a \in call.grad, grad_to |-> where[call.obj[a]]]

\* _evict_inputs copies one tensor to the host and rebinds the caller's.
EvictOne ==
    /\ Evicting /\ i <= Len(Arg)
    /\ LET a == Arg[i]
       IN  /\ operand' = [operand EXCEPT ![a] = HostCopy(a)]
           /\ where' = [where EXCEPT ![call.obj[a]] = "host"]
    /\ i' = i + 1
    /\ UNCHANGED <<patchVars, planVars, on_cuda, ev, refused, callVars, inside, pc, out, failed>>

\* The state that tells what to restore is recorded last.
Evicted ==
    /\ Evicting /\ i > Len(Arg)
    /\ ev' = "held" /\ on_cuda' = FALSE
    /\ Goto(IF pc = "evict_first" THEN "plan" ELSE "engine")
    /\ UNCHANGED <<patchVars, planVars, where, operand, refused, callVars, inside, i, out, failed>>

\* Host or device memory runs out on the way.  Only _run is inside the try.
EvictFails ==
    /\ Evicting
    /\ Raise(IF pc = "evict_first" THEN "leave" ELSE "finally")
    /\ UNCHANGED <<patchVars, planVars, evVars, callVars, inside, i, out>>

\* plan: one monolithic call, subproblems on the device, or streamed from the host.
\* dev_ok: some configuration that leaves the inputs on the device fits as well.
Plan ==
    /\ pc = "plan"
    /\ p' \in {"mono", "device", "host"} /\ dev_ok' \in (IF p' = "host" THEN BOOLEAN ELSE {TRUE})
    /\ Goto(IF p' = "mono" /\ call.pinned = "none" THEN "mono" ELSE "place")
    /\ UNCHANGED <<patchVars, stream, acc, evVars, callVars, inside, i, out, failed>>

PlanRaises ==
    /\ pc = "plan" /\ Raise("leave")
    /\ UNCHANGED <<patchVars, planVars, evVars, callVars, inside, i, out>>

-----------------------------------------------------------------------------
(* _run.                                                                     *)

Kept == <<patchVars, callVars, inside, i>>

\* The monolithic kernel, on copies of inputs that are on the host.
MonoReturns ==
    /\ pc = "mono"
    /\ out' = out_device /\ Goto("finally")
    /\ UNCHANGED <<Kept, planVars, evVars, failed>>

\* It runs out of memory after all: planned again, and decomposed whatever the plan.
MonoOom ==
    /\ pc = "mono"
    /\ p' \in {"device", "host"} /\ dev_ok' \in (IF p' = "host" THEN BOOLEAN ELSE {TRUE})
    /\ Goto("place")
    /\ UNCHANGED <<Kept, stream, acc, evVars, out, failed>>

\* Inputs on the device that the plan wants streamed from the host.  A fault: only
\* looked at when no setting is pinned.
CrowdedUnpinned == on_cuda /\ p = "host" /\ call.pinned = "none"
Crowded         == on_cuda /\ p = "host"

\* The settings chosen below, under those the caller pins.
Settings(streams, accs) ==
    /\ stream' \in (IF call.pinned = "stream" THEN BOOLEAN ELSE {streams})
    /\ acc' \in (IF call.pinned # "none" THEN {"gpu", "cpu"} ELSE accs)

\* The fastest configuration that leaves them on the device.
StayResident ==
    /\ Crowded /\ dev_ok
    /\ Settings(FALSE, {"gpu", "cpu"})
    /\ Goto("engine")
    /\ UNCHANGED <<operand, on_cuda>>

\* They are released to the host for the call.
Release ==
    /\ Crowded /\ ~dev_ok /\ call.evict # "no"
    /\ Settings(TRUE, {"gpu", "cpu"})
    /\ Goto("evict")
    /\ UNCHANGED <<operand, on_cuda>>

\* With gradients: they stay, and the accumulator goes to the host.
KeepGraph ==
    /\ Crowded /\ ~dev_ok /\ call.evict = "no" /\ call.grad # {}
    /\ Settings(FALSE, {"cpu"})
    /\ Goto("engine")
    /\ UNCHANGED <<operand, on_cuda>>

\* Without: they are copied.
CopyToHost ==
    /\ Crowded /\ ~dev_ok /\ call.evict = "no" /\ call.grad = {}
    /\ operand' = [a \in Args |-> PlainCopy(a)] /\ on_cuda' = FALSE
    /\ Settings(TRUE, {"gpu", "cpu"})
    /\ Goto("engine")

AsPlanned ==
    /\ ~Crowded
    /\ Settings(IF p = "mono" THEN ~on_cuda ELSE p = "host",
                IF p = "mono" THEN {"gpu"} ELSE {"gpu", "cpu"})
    /\ Goto("engine")
    /\ UNCHANGED <<operand, on_cuda>>

Place ==
    /\ pc = "place"
    /\ StayResident \/ Release \/ KeepGraph \/ CopyToHost \/ AsPlanned
    /\ UNCHANGED <<Kept, p, dev_ok, where, ev, refused, out, failed>>

\* The wave engine, when it is asked for or has enough subproblems to pay off.
UseWave == call.kernel = "wave" \/ (call.kernel = "auto" /\ acc = "gpu")

\* fp32 results are delivered to the caller's device, or stay on the host if there is
\* no room.
Deliver ==
    /\ out' \in {out_device, "host"} /\ Goto("finally")
    /\ UNCHANGED <<Kept, planVars, evVars, failed>>

WaveReturns == pc = "engine" /\ UseWave /\ Deliver

\* It runs out of memory: the streaming engine, unless the wave engine was asked for.
WaveOom ==
    /\ pc = "engine" /\ UseWave /\ call.kernel = "auto"
    /\ Goto("classic")
    /\ UNCHANGED <<Kept, planVars, evVars, out, failed>>

ClassicReturns ==
    /\ pc = "classic" \/ (pc = "engine" /\ call.kernel # "wave")
    /\ Deliver

\* Anything else raised on the way.
RunRaises ==
    /\ pc \in {"mono", "place", "engine", "classic"}
    /\ Raise("finally")
    /\ UNCHANGED <<Kept, planVars, evVars, out>>

-----------------------------------------------------------------------------
(* The end of the call.                                                      *)

\* Restoration is due on every exit once the state is recorded.  A fault: only if the
\* run returned.
OnReturn == ev = "held" /\ failed = "none"
Due      == ev = "held"

Finally ==
    /\ pc = "finally"
    /\ i' = 1
    /\ IF Due /\ call.restore # "no"
       THEN Goto("restore") /\ UNCHANGED ev
       ELSE Goto("leave") /\ ev' = IF Due THEN "left" ELSE ev
    /\ UNCHANGED <<patchVars, planVars, where, operand, on_cuda, refused, callVars, inside, out, failed>>

\* _restore_inputs: one tensor at a time, as room remains.
RestoreOne ==
    /\ pc = "restore" /\ i <= Len(Arg)
    /\ LET o == call.obj[Arg[i]]
       IN  IF where[o] = "device" THEN UNCHANGED <<where, refused>>
           ELSE \/ where' = [where EXCEPT ![o] = "device"] /\ UNCHANGED refused
                \/ refused' = refused \cup {o} /\ UNCHANGED where
    /\ i' = i + 1
    /\ UNCHANGED <<patchVars, planVars, operand, on_cuda, ev, callVars, inside, pc, out, failed>>

Restored ==
    /\ pc = "restore" /\ i > Len(Arg)
    /\ ev' = IF refused = {} THEN "restored" ELSE "left"
    /\ Goto("leave")
    /\ UNCHANGED <<Kept, planVars, where, operand, on_cuda, refused, out, failed>>

\* An exception other than out of memory ends the restoration, and is dropped.
RestoreRaises ==
    /\ pc = "restore" /\ i <= Len(Arg) /\ where[call.obj[Arg[i]]] = "host"
    /\ refused' = refused \cup {call.obj[Arg[j]] : j \in i .. Len(Arg)}
    /\ Goto("leave")
    /\ UNCHANGED <<Kept, planVars, where, operand, on_cuda, ev, out, failed>>

\* The finally of attention; the locals of the call are gone.
Leave ==
    /\ pc = "leave"
    /\ inside' = inside - 1
    /\ i' = 1 /\ operand' = Given(call.obj) /\ on_cuda' = FALSE
    /\ p' = "mono" /\ dev_ok' = FALSE /\ stream' = FALSE /\ acc' = "gpu"
    /\ Goto("idle")
    /\ UNCHANGED <<patchVars, where, ev, refused, callVars, out, failed>>

Next ==
    \/ Patching \/ Attention \/ Sdpa
    \/ Reject \/ Accept \/ EvictOne \/ Evicted \/ EvictFails \/ Plan \/ PlanRaises
    \/ MonoReturns \/ MonoOom \/ Place \/ WaveReturns \/ WaveOom \/ ClassicReturns \/ RunRaises
    \/ Finally \/ RestoreOne \/ Restored \/ RestoreRaises \/ Leave

Spec == Init /\ [][Next]_vars

-----------------------------------------------------------------------------
(* Properties.                                                               *)

\* After a call, an input that was on the device and no longer is had its return
\* refused or forbidden, unless the call failed while it was being evicted or planned:
\* whatever failed, and also when an object is passed twice.  A caller who is told
\* that the inputs were restored finds every one of them where it was.
InputsAccounted ==
    pc = "idle" /\ calls > 0 =>
        /\ \A o \in Object : where[o] # before[o] =>
              \/ failed \in {"evict_first", "evict", "plan"}
              \/ ev # "none" /\ (call.restore = "no" \/ o \in refused)
        /\ ev = "restored" => where = before

\* Whatever the inputs were turned into, the graph of the caller reaches the operands
\* it needs gradients of, and brings each gradient to where the input was ("Gradients
\* still arrive on the device").  Of an object passed twice this is not said: its
\* second copy is made of the first, and its gradient goes to the host.
GradConnected ==
    pc \in {"mono", "engine", "classic"} /\ IsInjective(call.obj) =>
        \A a \in call.grad : operand[a].graph /\ operand[a].grad_to = before[call.obj[a]]

\* The engine is given operands on one device, and those it is to stream are on the
\* host, unless the caller pins stream_from_host.
OperandsPlaced ==
    pc \in {"engine", "classic"} =>
        /\ \A a \in Args : operand[a].at = (IF on_cuda THEN "device" ELSE "host")
        /\ stream /\ call.pinned # "stream" => ~on_cuda

\* Only context managers used: the function is patched within them and the original
\* outside, however they nest, also when what they surround raised; and a long call
\* made within one is routed.
Routing ==
    ~explicit =>
        /\ sdpa = "patched" <=> contexts # <<>>
        /\ Idle /\ contexts # <<>> => Routed(2)
=============================================================================
