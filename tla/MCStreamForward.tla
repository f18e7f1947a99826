--------------------------- MODULE MCStreamForward ---------------------------
\* The engine on nine tokens in three chunks: three initial subproblems, each
\* of which can be refined once.
EXTENDS StreamForward
MCInterestSet == {0, 1}
=============================================================================
