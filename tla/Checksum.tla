---- MODULE Checksum ----
(***************************************************************************)
(* The answer to a challenge of the reference server: the sum of all       *)
(* entries of A * B modulo Mod.  The server multiplies the matrices; the   *)
(* student client takes column sums of A and row sums of B while it parses *)
(* the values and never has a matrix.                                      *)
(***************************************************************************)
EXTENDS Sequences, RunningSum

CONSTANTS N,   \* rows and columns
          Mod  \* MODULO, MOD

ParameterAssumption == N \in Nat \ {0} /\ Mod \in Nat \ {0}

VARIABLES
    a, b,      \* the values of the two matrices parsed so far, row by row
    colA,      \* the client's column sums of A
    s,         \* its sum of the row of B it is in
    checksum   \* and what it has of the answer

vars == <<a, b, colA, s, checksum>>

Positions == 0 .. N - 1
Values == 0 .. Mod - 1

Init ==
    /\ a = <<>> /\ b = <<>>
    /\ colA = [k \in Positions |-> 0]
    /\ s = 0
    /\ checksum = 0

\* Fault: a value is added to its row.
ReadAByRow(v) ==
    /\ Len(a) < N * N
    /\ a' = Append(a, v)
    /\ colA' = [colA EXCEPT ![Len(a) \div N] = @ + v]
    /\ UNCHANGED <<b, s, checksum>>

ReadA(v) ==
    /\ Len(a) < N * N
    /\ a' = Append(a, v)
    /\ colA' = [colA EXCEPT ![Len(a) % N] = @ + v]
    /\ UNCHANGED <<b, s, checksum>>

\* The last value of a row meets the column sum that belongs to it.
ReadB(v) ==
    /\ Len(a) = N * N /\ Len(b) < N * N
    /\ b' = Append(b, v)
    /\ IF Len(b') % N = 0
       THEN /\ checksum' = checksum + colA[Len(b) \div N] * (s + v)
            /\ s' = 0
       ELSE /\ s' = s + v
            /\ UNCHANGED checksum
    /\ UNCHANGED <<a, colA>>

\* The answer is sent and the next challenge begins with empty sums.
Answer ==
    /\ Len(b) = N * N
    /\ a' = <<>> /\ b' = <<>>
    /\ colA' = [k \in Positions |-> 0]
    /\ s' = 0
    /\ checksum' = 0

Next == (\E v \in Values : ReadA(v) \/ ReadB(v)) \/ Answer

Spec == Init /\ [][Next]_vars

\* computeChecksum: the entries of A * B one after the other; every sum and
\* every product is reduced.
Product(i, j, k) == a[N * i + k] * b[(N * (k - 1) + j) + 1]

RowC(i, j) == ReducedSumTo([k \in 1 .. N |-> Product(i, j, k) % Mod], N, Mod)

ComputeChecksum ==
    ReducedSumTo([p \in 1 .. N * N |-> RowC((p - 1) \div N, (p - 1) % N)], N * N, Mod)

----------------------------------------------------------------------------
(***************************************************************************)
(* The client's answer, from one pass over the text and with one reduction *)
(* at its end, is the one the server holds for correct.                    *)
(***************************************************************************)
AnswersAgree == Len(b) = N * N => checksum % Mod = ComputeChecksum
====
