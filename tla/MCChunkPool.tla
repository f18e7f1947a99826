----------------------------- MODULE MCChunkPool -----------------------------
\* The default seven-chunk decomposition with two tokens per chunk, and a small
\* three-chunk one that can be refined once.
EXTENDS ChunkPool
MCInterestSet7 == {0, 1, 3}
MCInterestSet3 == {0, 1}
=============================================================================
