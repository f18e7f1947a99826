----------------------------- MODULE MCPathState -----------------------------
EXTENDS PathState
\* The smallest difference set in blocks of two tokens, three levels, lengths
\* below, at and above every chunk boundary; the default decomposition in both
\* gather orders, two levels, lengths below and above the chunk count; and a
\* translate of that set, a perfect difference set without offset 0.
MCDecompositions ==
    {[c |-> 3, interest_set |-> <<0, 1>>, align |-> 2, lengths |-> 0 .. 13, bound |-> 3],
     [c |-> 7, interest_set |-> <<0, 1, 3>>, align |-> 1, lengths |-> 5 .. 16, bound |-> 2],
     [c |-> 7, interest_set |-> <<1, 2, 4>>, align |-> 1, lengths |-> 5 .. 16, bound |-> 2]}
=============================================================================
