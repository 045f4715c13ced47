---- MODULE TraceAnswer ----
(***************************************************************************)
(* The answer of the hft clients: the trace of A * B modulo Mod.  The      *)
(* reference client multiplies the matrices.  The low-latency client       *)
(* parses B into transposed layout, by the worker while the main thread    *)
(* parses A, so that the trace is one dot product of two arrays.           *)
(***************************************************************************)
EXTENDS Sequences, RunningSum

CONSTANTS N,   \* rows and columns
          Mod  \* MOD

ParameterAssumption == N \in Nat \ {0} /\ Mod \in Nat \ {0}

VARIABLES a, b  \* the values of A and of B parsed so far, row by row

vars == <<a, b>>

Values == 0 .. Mod - 1
Positions == 0 .. N - 1

Init == a = <<>> /\ b = <<>>

\* The main thread.
ParseA(v) == Len(a) < N * N /\ a' = Append(a, v) /\ UNCHANGED b

\* The worker, or the main thread after A.
ParseB(v) == Len(b) < N * N /\ b' = Append(b, v) /\ UNCHANGED a

Parsed == Len(a) = N * N /\ Len(b) = N * N

\* Both matrices are overwritten by the next challenge.
Answer == Parsed /\ a' = <<>> /\ b' = <<>>

Next == (\E v \in Values : ParseA(v) \/ ParseB(v)) \/ Answer

Spec == Init /\ [][Next]_vars

\* The A of the program, and its B, where value k * N + i of the text is at i * N + k.
A(j) == a[j + 1]

B(j) == b[(N * (j % N) + j \div N) + 1]

\* trace_AB_T
TraceABT == SumTo([j \in 1 .. N * N |-> A(j - 1) * B(j - 1)], N * N)

\* The reference client: all of C, of which it needs the diagonal.
C(i, j) == SumTo([k \in 1 .. N |-> a[N * i + k] * b[(N * (k - 1) + j) + 1]], N)

NaiveTrace == SumTo([i \in 1 .. N |-> C(i - 1, i - 1)], N)

\* What both send; the second reduction is for negative sums, which do not occur.
Reduced(tr) == ((tr % Mod) + Mod) % Mod

----------------------------------------------------------------------------
(***************************************************************************)
(* Whatever was parsed first, both clients give the same answer.           *)
(***************************************************************************)
ClientsAgree == Parsed => Reduced(TraceABT) = Reduced(NaiveTrace)
====
