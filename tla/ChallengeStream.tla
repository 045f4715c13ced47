---- MODULE ChallengeStream ----
(***************************************************************************)
(* The connection from a challenge server to a client, seen as the client  *)
(* sees it: a stream of bytes in which the borders of the server's sends   *)
(* are lost.  The text of a challenge is kept as classes of bytes; a       *)
(* number is known by how many digits it has, which is what decides where  *)
(* the clients' parsers go next.  RetainingClient and LowLatencyClient     *)
(* are the programs that read the stream.                                  *)
(***************************************************************************)
EXTENDS RunningSum, Naturals, Sequences, FiniteSets

CONSTANTS Challenges,    \* for each program what it may be sent: the widths of id, a and b
          MaxChallenges, \* bound on the challenges sent
          M              \* values in a matrix (128 * 128 in the program)

VARIABLES client,  \* the program that reads
          sent,    \* the challenges sent so far
          wire,    \* bytes sent and not yet received by the client
          closed,  \* the server has closed the connection
          buf,     \* the bytes the client has received and not dropped
          running, \* its loop has not been left
          answers  \* what its answers were computed from

serverVars == <<client, sent, wire, closed>>
streamVars == <<client, sent, wire, closed, buf, running, answers>>

Programs == {"hftclient2026", "client", "client_naive"}

\* Matrices have values of up to three digits.
ASSUME StreamAssumption ==
    /\ M \in Nat \ {0}
    /\ MaxChallenges \in Nat
    /\ Challenges \in [Programs -> SUBSET [id : Nat \ {0}, a : [1..M -> 1..3], b : [1..M -> 1..3]]]

Digits(n) == [i \in 1..n |-> "digit"]

\* How many bytes the first k values take, each with the blank behind it.
Offset(widths, k) == SumTo([i \in 1..M |-> widths[i] + 1], k)

\* Fault: blanks between the values only.
MatrixLineUnpadded(widths) ==
    LET end == Offset(widths, M)
        blanks == {Offset(widths, k) : k \in 1..M - 1}
    IN [p \in 1..end |-> IF p = end THEN "newline" ELSE IF p \in blanks THEN "blank" ELSE "digit"]

\* A matrix on its line: every value is followed by a blank, the last one too.
MatrixLine(widths) ==
    LET end == Offset(widths, M) + 1
        blanks == {Offset(widths, k) : k \in 1..M}
    IN [p \in 1..end |-> IF p = end THEN "newline" ELSE IF p \in blanks THEN "blank" ELSE "digit"]

AllChallenges == UNION {Challenges[p] : p \in Programs}

\* Four lines: the id, the dimension (128), A and B.
Text == [c \in AllChallenges |->
    Digits(c.id) \o <<"newline">> \o Digits(3) \o <<"newline">> \o MatrixLine(c.a) \o MatrixLine(c.b)]

Newlines(s) == {i \in DOMAIN s : s[i] = "newline"}

StreamInit ==
    /\ sent = <<>> /\ wire = <<>> /\ closed = FALSE
    /\ buf = <<>> /\ running = TRUE /\ answers = <<>>

\* One send() of the whole text; it may still be in the socket when the next follows.
SendChallenge(c) ==
    /\ ~closed
    /\ Len(sent) < MaxChallenges
    /\ sent' = Append(sent, c)
    /\ wire' = wire \o Text[c]
    /\ UNCHANGED <<client, closed, buf, running, answers>>

ServerCloses == ~closed /\ closed' = TRUE /\ UNCHANGED <<client, sent, wire, buf, running, answers>>

\* recv hands over any number of the bytes that have come, as far as there is room.
Receive(room) ==
    \E n \in 1..Len(wire) :
        /\ n <= room
        /\ buf' = buf \o SubSeq(wire, 1, n)
        /\ wire' = SubSeq(wire, n + 1, Len(wire))

----------------------------------------------------------------------------
\* How the clients read numbers out of a buffer s at position p.

\* A byte behind those received is not a digit here; NoReadPastEnd says none is used.
IsDigit(s, p) == p \in DOMAIN s /\ s[p] = "digit"

\* parse_int_s1 and parse_val look at three bytes, and the first is taken for a digit.
FixedWidth(s, p) ==
    IF ~IsDigit(s, p + 1) THEN 1 ELSE IF ~IsDigit(s, p + 2) THEN 2 ELSE 3

\* Scanning on to the first byte that is no digit.
RunLength(s, p) == CHOOSE n \in 0..Len(s) : ~IsDigit(s, p + n) /\ \A k \in 0..(n - 1) : IsDigit(s, p + k)

\* m numbers from p on, each with the one separator byte behind it.
ReadValues(s, p, m) ==
    LET start[k \in 1..(m + 1)] ==
            IF k = 1 THEN p ELSE start[k - 1] + FixedWidth(s, start[k - 1]) + 1
    IN [vals |-> [k \in 1..m |-> FixedWidth(s, start[k])], next |-> start[m + 1]]

\* The scan for a newline; without one it runs on behind the bytes received.
FindNewline(s, p) ==
    LET found == {q \in p..Len(s) : s[q] = "newline"}
    IN IF found = {} THEN Len(s) + 1 ELSE CHOOSE q \in found : \A r \in found : q <= r

----------------------------------------------------------------------------
\* What an answer is computed from; only hftclient2026 sends the id back.
Matrices(c) == [a |-> c.a, b |-> c.b]
Asks(c) == IF client = "hftclient2026" THEN c ELSE Matrices(c)

Promise == INSTANCE AnswerStream WITH
    Questions <- AllChallenges \cup {Matrices(c) : c \in AllChallenges},
    asked <- [k \in DOMAIN sent |-> Asks(sent[k])],
    answered <- answers

(***************************************************************************)
(* Wherever recv cuts the stream, each client answers every challenge      *)
(* once, in order, from that challenge's own matrices and, where it sends  *)
(* one, with its id: no byte is lost, read twice or taken for the next     *)
(* challenge's.  hftclient2026 does so with any backlog, the other two     *)
(* while the server waits for an answer before it sends again.             *)
(***************************************************************************)
AnswersEachInOrder == Promise!Spec
====
