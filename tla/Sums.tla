-------------------------------- MODULE Sums --------------------------------
(* Sums of sequences of numbers, by a recursive function.                   *)
EXTENDS Integers, Sequences

\* Prefix(f)[i] is f[1] + ... + f[i].
Prefix(f) == LET s[i \in 0..Len(f)] == IF i = 0 THEN 0 ELSE s[i - 1] + f[i] IN s

Sum(f) == Prefix(f)[Len(f)]
=============================================================================
