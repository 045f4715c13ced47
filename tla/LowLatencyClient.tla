---- MODULE LowLatencyClient ----
(***************************************************************************)
(* The framing of the low-latency client (hft/src/client.cpp) and of the   *)
(* reference client (client_naive.cpp): both receive until they have seen  *)
(* four newlines, take what is in the buffer for one challenge, and start  *)
(* the next one with an empty buffer.  How the two threads of client.cpp   *)
(* share the parse is the subject of WorkerHandshake.                      *)
(***************************************************************************)
EXTENDS ChallengeStream, Integers

CONSTANT Cap  \* PAYLOAD_MAX

ASSUME CapAssumption == Cap \in Nat /\ \A c \in Challenges["client"] : Len(Text[c]) < Cap

LowLatencyInit == client \in {"client", "client_naive"} /\ StreamInit

\* True of the first thousand rounds.
IdsAreShort == \A c \in Challenges["client"] : c.id <= 3

Naive == client = "client_naive"

\* Fault: the text is taken for complete only when a fifth line has ended.
ReceivedOneMore == Cardinality(Newlines(buf)) > 4

Received == Cardinality(Newlines(buf)) >= 4

\* Everything a recv returned is counted and kept; client gives up when its buffer is full.
Keeps(s) == Naive \/ Len(s) < Cap

RecvPayload ==
    /\ running
    /\ ~Received
    /\ Receive(IF Naive THEN Len(wire) ELSE Cap - Len(buf))
    /\ running' = Keeps(buf')
    /\ UNCHANGED <<client, sent, closed, answers>>

PayloadEnds ==
    /\ running
    /\ ~Received
    /\ closed
    /\ wire = <<>>
    /\ running' = FALSE
    /\ UNCHANGED <<serverVars, buf, answers>>

\* parse_int_s1 for the id and the dimension; then A's first value.
RowA == LET dim == 1 + FixedWidth(buf, 1) + 1 IN dim + FixedWidth(buf, dim) + 1

\* The main thread parses A; B starts behind the next newline for the worker,
\* and one byte behind A's last value without it.
ParseFixed(useWorker) ==
    LET a == ReadValues(buf, RowA, M)
        b == ReadValues(buf, IF useWorker THEN FindNewline(buf, RowA) + 1 ELSE a.next + 1, M)
    IN [a |-> a.vals, b |-> b.vals]

\* The stream of client_naive: integers set apart by white space, missing ones are 0.
ParseTokens ==
    LET starts == {i \in DOMAIN buf : buf[i] = "digit" /\ ~IsDigit(buf, i - 1)}
        token(k) == {i \in starts : Cardinality({j \in starts : j <= i}) = k}
        value(k) == IF token(k) = {} THEN 0 ELSE RunLength(buf, CHOOSE i \in token(k) : TRUE)
    IN [a |-> [k \in 1..M |-> value(2 + k)], b |-> [k \in 1..M |-> value(2 + M + k)]]

\* Bytes behind the fourth newline go with the buffer.
NextBuffer == <<>>

Answer ==
    /\ running
    /\ Received
    /\ \E useWorker \in BOOLEAN :  \* the program decides once, at start-up
          answers' = Append(answers, IF Naive THEN ParseTokens ELSE ParseFixed(useWorker))
    /\ buf' = NextBuffer
    /\ running' \in IF closed THEN BOOLEAN ELSE {TRUE}
    /\ UNCHANGED serverVars

LowLatencyLoop == RecvPayload \/ PayloadEnds \/ Answer

\* The server waits for an answer before it sends again.
PacedServer ==
    \/ /\ Len(answers) = Len(sent)
       /\ \E c \in Challenges[client] : SendChallenge(c)
    \/ ServerCloses

LowLatencyNext == PacedServer \/ LowLatencyLoop

\* The receive loop polls or blocks in recv; nothing else stops the client's thread.
LowLatencySpec == LowLatencyInit /\ [][LowLatencyNext]_streamVars /\ WF_streamVars(LowLatencyLoop)

----------------------------------------------------------------------------
(***************************************************************************)
(* The three bytes parse_int_s1 loads for a value are among those received *)
(* for this challenge, so no answer depends on what an earlier one left in *)
(* the buffer; the two bytes behind the last value make the difference.    *)
(* And the worker starts where the main thread stops.                      *)
(***************************************************************************)
NoReadPastEnd ==
    (Received /\ client = "client") =>
        LET a == ReadValues(buf, RowA, M)
            b == ReadValues(buf, a.next + 1, M)
        IN /\ b.next - (b.vals[M] + 1) + 2 <= Len(buf)
           /\ FindNewline(buf, RowA) + 1 = a.next + 1
====
