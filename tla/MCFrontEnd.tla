----------------------------- MODULE MCFrontEnd -----------------------------
\* One call, on inputs wherever earlier calls left them, between any uses of the patch;
\* three tensors, or one of them passed as both k and v.
EXTENDS FrontEnd
MCPassed == {[a \in Args |-> a], [a \in Args |-> IF a = "q" THEN "q" ELSE "k"]}
=============================================================================
