----------------------------- MODULE MCKernelPair -----------------------------
\* Tiles, summary blocks and the block map keep their proportions: a summary
\* block of 2 tokens stands for 64, tiles of 2 and 4 for 64 and 128.
EXTENDS KernelPair

Square == [kM |-> 4, kN |-> 4]
Wide   == [kM |-> 4, kN |-> 2]
Short  == [kM |-> 2, kN |-> 4]

\* Group bits: an owner chunk and two masked ones, a cut inside a block, one
\* group for all tokens, and tokens of several groups.
Owner(i)  == IF i < 4 THEN {} ELSE IF i < 8 THEN {1} ELSE {2}
Cut(i)    == IF i < 5 THEN {1} ELSE {2}
Whole(i)  == {1}
Nested(i) == IF i < 4 THEN {1} ELSE IF i < 6 THEN {1, 2} ELSE {}
Middle(i) == IF i \in 4 .. 7 THEN {} ELSE {1}

InPlace(nb)  == [b \in 0 .. nb-1 |-> 4 * ((b + 1) % nb) + 4]
Aliased(nb)  == [b \in 0 .. nb-1 |-> IF b = nb-1 THEN 4 * nb ELSE 4 * b + 4]
Straight(nb) == [b \in 0 .. nb-1 |-> 4 * b]

\* A varlen launch has the grid of its longest subproblem.
Make(layout, causal, cqs, L, S, bits(_), f, b, base(_), det, dbl) ==
    [layout |-> layout, causal |-> causal, cqs |-> cqs, L |-> L, S |-> S,
     bits |-> [i \in 0 .. L-1 |-> IF cqs THEN bits(i) ELSE {}], fwd |-> f, bwd |-> b,
     base |-> base(CeilDiv(S, 4)), grid |-> CeilDiv(IF layout = "varlen" THEN 16 ELSE S, f.kM),
     deterministic |-> det, doubleBuffer |-> dbl]

MCCalls ==
    \* alone: even and ragged, with and without the causal mask and the groups
    {Make("classic", ca, cq, L, L, Owner, Square, Square, Straight, FALSE, TRUE) :
        ca \in BOOLEAN, cq \in BOOLEAN, L \in {7, 8}}
    \cup {Make("classic", ca, TRUE, 12, 12, Middle, Wide, Square, Straight, TRUE, d) :
        ca \in BOOLEAN, d \in BOOLEAN}
    \cup {Make("classic", TRUE, TRUE, L, L, Nested, Wide, Short, Straight, FALSE, FALSE) :
        L \in {5, 7, 8}}
    \cup {Make("classic", ca, TRUE, L, L, Nested, Square, Wide, Straight, TRUE, TRUE) :
        ca \in BOOLEAN, L \in {7, 8}}
    \cup {Make("classic", ca, TRUE, 8, 8, Whole, Short, Square, Straight, FALSE, TRUE) :
        ca \in BOOLEAN}
    \* in a wave, rows in place
    \cup {Make("uniform", TRUE, TRUE, 7, S, Cut, Square, Square, InPlace, TRUE, TRUE) : S \in {8, 12}}
    \cup {Make("varlen", FALSE, TRUE, L, L, Middle, Square, Square, InPlace, TRUE, d) :
        L \in {10, 12}, d \in BOOLEAN}
=============================================================================
