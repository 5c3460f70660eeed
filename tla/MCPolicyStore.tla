--------------------------- MODULE MCPolicyStore ---------------------------
(* Instances of PolicyStore for TLC. *)
EXTENDS PolicyStore

CONSTANTS t1, Comment, Stray

\* A directory with a good, a bad and a good policy.
Files == <<<<1, t1>>, <<2, Bad>>, <<3, t1>>>>
NoFile == <<>>
=============================================================================
