---------------------------- MODULE MCDistributed ----------------------------
\* Ten tokens in three chunks of whole blocks of four, one refinement possible, and
\* up to one rank more than there are tasks; blocks of rows that straddle shards.
EXTENDS Distributed
MCInterestSet == {0, 1}

\* For MCDistributedShort.cfg: three tokens in the default decomposition, whose sixth
\* subproblem is empty.
MCDefaultSet == {0, 1, 3}
=============================================================================
