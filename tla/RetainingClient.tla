---- MODULE RetainingClient ----
(***************************************************************************)
(* The student client (hftclient2026/main.cpp): one buffer that keeps      *)
(* whatever recv returned, a scan for four lines, the answer to the first  *)
(* challenge in it, and a memmove of the bytes behind that challenge.      *)
(***************************************************************************)
EXTENDS ChallengeStream

CONSTANT Bufcap  \* BUFCAP

VARIABLE overflow  \* the loop was left with "payload overflow"

retainingVars == <<streamVars, overflow>>

ASSUME BufcapAssumption ==
    Bufcap \in Nat \ {0} /\ \A c \in Challenges["hftclient2026"] : Len(Text[c]) <= Bufcap

RetainingInit ==
    /\ client = "hftclient2026"
    /\ StreamInit
    /\ overflow = FALSE

\* One past the fourth newline of the buffer, if it has four.
ChallengeEnd ==
    LET nl == Newlines(buf)
        fourth == {i \in nl : Cardinality({j \in nl : j <= i}) = 4}
    IN IF fourth = {} THEN 0 ELSE CHOOSE i \in fourth : TRUE

Parse ==
    LET id == RunLength(buf, 1)
        dim == id + 2 + RunLength(buf, id + 2) + 1
        rowA == ReadValues(buf, dim, M)
        rowB == ReadValues(buf, rowA.next + 1, M)
    IN [id |-> id, a |-> rowA.vals, b |-> rowB.vals]

\* Fault: the challenge's last byte stays in the buffer.
RetainLast(end) == SubSeq(buf, end, Len(buf))

\* memmove(buf, buf + end, have - end)
Retain(end) == SubSeq(buf, end + 1, Len(buf))

\* Answering on a closed connection may end the process (SIGPIPE).
AnswerFirst ==
    /\ running
    /\ ChallengeEnd # 0
    /\ answers' = Append(answers, Parse)
    /\ buf' = Retain(ChallengeEnd)
    /\ running' \in IF closed THEN BOOLEAN ELSE {TRUE}
    /\ UNCHANGED <<serverVars, overflow>>


Full == Len(buf) = Bufcap

Overflow ==
    /\ running
    /\ ChallengeEnd = 0
    /\ Full
    /\ overflow' = TRUE
    /\ running' = FALSE
    /\ UNCHANGED <<serverVars, buf, answers>>

\* recv_some
RecvSome ==
    /\ running
    /\ ChallengeEnd = 0
    /\ ~Full
    /\ Receive(Bufcap - Len(buf))
    /\ UNCHANGED <<client, sent, closed, running, overflow, answers>>

Disconnected ==
    /\ running
    /\ ChallengeEnd = 0
    /\ ~Full
    /\ closed
    /\ wire = <<>>
    /\ running' = FALSE
    /\ UNCHANGED <<serverVars, buf, overflow, answers>>

RetainingLoop == AnswerFirst \/ Overflow \/ RecvSome \/ Disconnected

Server ==
    /\ (\E c \in Challenges[client] : SendChallenge(c)) \/ ServerCloses
    /\ UNCHANGED overflow

RetainingNext == Server \/ RetainingLoop

\* recv returns when bytes have come, and the loop is one thread that never waits elsewhere.
RetainingSpec == RetainingInit /\ [][RetainingNext]_retainingVars /\ WF_retainingVars(RetainingLoop)

----------------------------------------------------------------------------
(***************************************************************************)
(* The loop never ends over a full buffer: it stops reading while a whole  *)
(* challenge is in it, whatever follows that challenge in the socket.      *)
(***************************************************************************)
NeverOverflows == ~overflow
====
