---- MODULE MockServer ----
(***************************************************************************)
(* The mock server of hft (src/server.cpp): a broadcaster, an accept loop  *)
(* and a handler per connection.  An answer carries no challenge id and is *)
(* compared with nothing, so that only which challenge it was computed for *)
(* is kept of it, and nothing of whether it is right.  Whatever a handler  *)
(* reads counts for the current challenge under the name its client was    *)
(* registered with, and the least latency wins.  Messages may be read      *)
(* together; the first read of a connection is the client's name.          *)
(***************************************************************************)
EXTENDS Integers, Sequences, FiniteSets, SequencesExt

CONSTANTS Clients, NoAnswer,
          MaxChallenges,            \* bound
          MaxConnects, MaxClock     \* bounds, for each value of paced

ASSUME MockAssumption ==
    /\ MaxChallenges \in Nat
    /\ MaxConnects \in [BOOLEAN -> Nat] /\ MaxClock \in [BOOLEAN -> Nat]
    /\ NoAnswer \notin Int

VARIABLES
    paced,      \* every challenge outlasts the answers to it, throughout the run: what was
                \* sent for it is read, and what was read is credited, before it is logged
    clock,      \* milliseconds
    infos,      \* clients: the sockets of all ClientInfos ever made
    socket,     \* of a client's connection, or 0
    answers,    \* what a client sent and its handler has not read
    left,       \* the clients that closed their connection
    reader,     \* a client's handler: "none", "naming", "reading", "crediting"
    readAt,     \* the time its handler has read and not yet credited
    unanswered, \* the challenges a client has been sent and not answered
    cid, start, latencies,  \* currentChallenge
    stage,      \* of the broadcaster: "sending", "sleeping", "logging"
    unsent,     \* the sockets the challenge is still to be sent to
    log,        \* results.json: id and responses
    behind,     \* ClientInfo::name, of which only the answers that were read with it are kept
    heard,      \* history: when a client's answer to a challenge was read as an answer
    reads       \* history: how many answers of a client were read

serverSide == <<paced, infos, cid, start, latencies, stage, unsent, log>>
mockVars == <<paced, clock, infos, socket, answers, left, reader, readAt, unanswered, cid, start,
              latencies, stage, unsent, log, behind, heard, reads>>
ghost == <<heard, reads>>

\* The message with the name; an answer is the challenge it was computed for.
Name == 0
Challenges == 1 .. MaxChallenges

\* Fault: the latencies of the challenge before stay.
NoLatenciesKept == latencies

NoLatencies == [n \in {} |-> 0]

MockInit ==
    /\ paced \in BOOLEAN
    /\ clock = 0
    /\ infos = <<>>
    /\ socket = [c \in Clients |-> 0]
    /\ answers = [c \in Clients |-> <<>>]
    /\ left = {}
    /\ reader = [c \in Clients |-> "none"]
    /\ readAt = [c \in Clients |-> 0]
    /\ unanswered = [c \in Clients |-> <<>>]
    /\ cid = 0 /\ start = 0 /\ latencies = [n \in {} |-> 0]
    /\ stage = "logging"
    /\ unsent = <<>>
    /\ log = <<>>
    /\ behind = [c \in Clients |-> <<>>]
    /\ heard = [c \in Clients |-> [n \in Challenges |-> NoAnswer]]
    /\ reads = [c \in Clients |-> 0]

Tick ==
    /\ clock < MaxClock[paced]
    /\ clock' = clock + 1
    /\ UNCHANGED <<serverSide, socket, answers, left, reader, readAt, unanswered, behind, ghost>>

----------------------------------------------------------------------------
(* accept, and the clients *)

\* The kernel gives the least number free; a ClientInfo is never removed.
FreeSocket ==
    CHOOSE n \in 1 .. MaxConnects[paced] :
        /\ \A c \in Clients : socket[c] # n
        /\ \A m \in 1 .. n - 1 : \E c \in Clients : socket[c] = m

\* The client sends its name at once; clientsMutex is held while a challenge is sent.
Join(c) ==
    /\ Len(infos) < MaxConnects[paced]
    /\ stage # "sending"
    /\ reader[c] = "none"
    /\ infos' = Append(infos, FreeSocket)
    /\ socket' = [socket EXCEPT ![c] = FreeSocket]
    /\ answers' = [answers EXCEPT ![c] = <<Name>>]
    /\ left' = left \ {c}
    /\ reader' = [reader EXCEPT ![c] = "naming"]
    /\ unanswered' = [unanswered EXCEPT ![c] = <<>>]
    /\ behind' = [behind EXCEPT ![c] = <<>>]
    /\ UNCHANGED <<paced, clock, readAt, cid, start, latencies, stage, unsent, log, ghost>>

Answer(c) ==
    /\ c \notin left /\ unanswered[c] # <<>>
    /\ answers' = [answers EXCEPT ![c] = Append(@, Head(unanswered[c]))]
    /\ unanswered' = [unanswered EXCEPT ![c] = Tail(@)]
    /\ UNCHANGED <<clock, serverSide, socket, left, reader, readAt, behind, ghost>>

Quit(c) ==
    /\ Len(infos) < MaxConnects[paced]  \* so that it can be seen to come back
    /\ socket[c] # 0 /\ c \notin left
    /\ left' = left \cup {c}
    /\ UNCHANGED <<clock, serverSide, socket, answers, reader, readAt, unanswered, behind, ghost>>

----------------------------------------------------------------------------
(* handleClient *)

\* How many messages one recv may return: they carry no separator.
Together(c) == 1 .. Len(answers[c])

\* Everything the first recv returns is the name: the client's own, or a garbled
\* one that ends in answers.
ReadName(c) ==
    /\ reader[c] = "naming" /\ answers[c] # <<>>
    /\ \E k \in Together(c) :
          /\ answers' = [answers EXCEPT ![c] = SubSeq(@, k + 1, Len(@))]
          /\ behind' = [behind EXCEPT ![c] = SubSeq(answers[c], 2, k)]
    /\ reader' = [reader EXCEPT ![c] = "reading"]
    /\ UNCHANGED <<clock, serverSide, socket, left, readAt, unanswered, ghost>>

\* Answers read together are one number; the clock is read before challengeMutex
\* is taken.
RecvAnswer(c) ==
    /\ reader[c] = "reading" /\ answers[c] # <<>>
    /\ \E k \in Together(c) : answers' = [answers EXCEPT ![c] = SubSeq(@, k + 1, Len(@))]
    /\ heard' = LET n == Head(answers[c])
                IN  IF heard[c][n] # NoAnswer THEN heard ELSE [heard EXCEPT ![c][n] = clock]
    /\ reads' = [reads EXCEPT ![c] = @ + 1]
    /\ reader' = [reader EXCEPT ![c] = "crediting"]
    /\ readAt' = [readAt EXCEPT ![c] = clock]
    /\ UNCHANGED <<clock, serverSide, socket, left, unanswered, behind>>

Latency(at) == at - start

Registered(c) == <<c, behind[c]>>

\* Under challengeMutex: for the current challenge, whatever was answered.
Credit(c) ==
    /\ reader[c] = "crediting"
    /\ latencies' = [n \in DOMAIN latencies \union {Registered(c)} |->
                        IF n = Registered(c) THEN Latency(readAt[c]) ELSE latencies[n]]
    /\ reader' = [reader EXCEPT ![c] = "reading"]
    /\ readAt' = [readAt EXCEPT ![c] = 0]
    /\ UNCHANGED <<paced, clock, infos, socket, answers, left, unanswered, cid, start, stage, unsent, log,
                   behind, ghost>>

Closed(c) ==
    /\ reader[c] \in {"naming", "reading"}
    /\ c \in left /\ answers[c] = <<>>
    /\ reader' = [reader EXCEPT ![c] = "none"]
    /\ socket' = [socket EXCEPT ![c] = 0]
    /\ UNCHANGED <<clock, serverSide, answers, left, readAt, unanswered, behind, ghost>>

----------------------------------------------------------------------------
(* broadcastChallengeLoop *)

Settled ==
    \A c \in Clients : /\ c \in left \/ unanswered[c] = <<>>
                       /\ answers[c] = <<>> /\ reader[c] \in {"none", "reading"}

NewChallenge ==
    /\ stage = "logging" /\ cid < MaxChallenges
    /\ cid' = cid + 1
    /\ start' = clock
    /\ latencies' = NoLatencies
    /\ stage' = "sending"
    /\ unsent' = infos
    /\ UNCHANGED <<paced, clock, infos, socket, answers, left, reader, readAt, unanswered, log, behind, ghost>>

\* A send to a socket that is closed, or belongs to a later connection, goes there.
SendOne ==
    /\ stage = "sending" /\ unsent # <<>>
    /\ unanswered' = [c \in Clients |-> IF socket[c] = Head(unsent) THEN Append(unanswered[c], cid)
                                        ELSE unanswered[c]]
    /\ unsent' = Tail(unsent)
    /\ UNCHANGED <<paced, clock, infos, socket, answers, left, reader, readAt, cid, start, latencies, stage, log,
                   behind, ghost>>

Sleep ==
    /\ stage = "sending" /\ unsent = <<>>
    /\ stage' = "sleeping"
    /\ UNCHANGED <<paced, clock, infos, socket, answers, left, reader, readAt, unanswered, cid, start, latencies,
                   unsent, log, behind, ghost>>

\* After ten seconds: the snapshot, and its entry in the results file.
LogResult ==
    /\ stage = "sleeping"
    /\ paced => Settled
    /\ log' = Append(log, [cid |-> cid, responses |-> latencies])
    /\ stage' = "logging"
    /\ UNCHANGED <<paced, clock, infos, socket, answers, left, reader, readAt, unanswered, cid, start, latencies,
                   unsent, behind, ghost>>

\* The names in an entry are those of these clients, garbled or not.
Players(e) == {n[1] : n \in DOMAIN e.responses}

\* Fault: the comparison is turned around.
SlowestWinners(e) ==
    {n \in DOMAIN e.responses : \A m \in DOMAIN e.responses : e.responses[n] >= e.responses[m]}

\* winner: the map's order decides between equal latencies.
Winners(e) ==
    {n \in DOMAIN e.responses : \A m \in DOMAIN e.responses : e.responses[n] <= e.responses[m]}

MockNext ==
    \/ Tick \/ NewChallenge \/ SendOne \/ Sleep \/ LogResult
    \/ \E c \in Clients : \/ Join(c) \/ Answer(c) \/ Quit(c)
                          \/ ReadName(c) \/ RecvAnswer(c) \/ Credit(c) \/ Closed(c)

MockSpec == MockInit /\ [][MockNext]_mockVars

----------------------------------------------------------------------------
\* The clients from which an answer to challenge n was read, right or wrong.
HeardOn(n) == {c \in Clients : heard[c][n] # NoAnswer}

NoneReused == \A i, j \in DOMAIN infos : infos[i] = infos[j] => i = j

(***************************************************************************)
(* As long as every challenge outlasts the answers to it and no socket     *)
(* number comes back, which would be sent every challenge twice, the entry *)
(* of a challenge has the clients whose answers to it were read, and no    *)
(* other, and the winner, under whatever name it is registered, is the one *)
(* that was read first.  Whether it is right nobody asks; an answer that   *)
(* was read with the name is part of the name and counts for nothing.      *)
(***************************************************************************)
FirstReadWins ==
    paced /\ NoneReused =>
        \A k \in DOMAIN log :
            LET n == log[k].cid
            IN  /\ Players(log[k]) = HeardOn(n)
                /\ \A w \in Winners(log[k]) : \A c \in HeardOn(n) : heard[w[1]][n] <= heard[c][n]

(***************************************************************************)
(* Whatever is late, lost or read together, and whatever names come of it, *)
(* a client is in the log of no more challenges than answers were read     *)
(* from it: the responses of one challenge do not stay for the next.       *)
(***************************************************************************)
CreditsAreAnswers ==
    \A c \in Clients : Cardinality({k \in DOMAIN log : c \in Players(log[k])}) <= reads[c]
====
