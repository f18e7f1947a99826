------------------------------ MODULE MCBackward ------------------------------
\* Ten tokens in three chunks: uneven chunks, one refinement possible, and every
\* shard of the three initial subproblems.
EXTENDS Backward
MCInterestSet == {0, 1}
=============================================================================
