----------------------------- MODULE RunningSum -----------------------------
(***************************************************************************)
(* Sums over the first places of a sequence.                               *)
(***************************************************************************)
EXTENDS Integers

IsSumOf(sum, u, n) == sum = [k \in 0 .. n |-> IF k = 0 THEN 0 ELSE sum[k - 1] + u[k]]

\* u[1] + ... + u[n]
SumTo(u, n) ==
    LET sum[k \in 0 .. n] == IF k = 0 THEN 0 ELSE sum[k - 1] + u[k]
    IN  sum[n]

\* The same reduced modulo m at every step.
ReducedSumTo(u, n, m) ==
    LET sum[k \in 0 .. n] == IF k = 0 THEN 0 ELSE (sum[k - 1] + u[k]) % m
    IN  sum[n]
=============================================================================
