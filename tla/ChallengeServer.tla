-------------------------- MODULE ChallengeServer --------------------------
(***************************************************************************)
(* The reference server hftprojectstudent/hftserver2026/main.cpp: one      *)
(* accept loop (main), one detached broadcaster, one detached handler per  *)
(* connection, sharing the vector clients (clientsMutex) and the record    *)
(* currentChallenge (challengeMutex).                                      *)
(*                                                                         *)
(* A step of a thread is what it does under one lock, or one system call.  *)
(* Connection k is the k-th that accept() returned and clients[k] its      *)
(* ClientInfo.  A ClientInfo keeps a descriptor number, fd[k]; owner maps  *)
(* a number to the connection the kernel would now use for it, because a   *)
(* ClientInfo is never removed and the kernel reuses closed numbers.       *)
(*                                                                         *)
(* What the clients do is external: they answer every challenge in the     *)
(* order received, rightly or wrongly, in one of the two formats the       *)
(* server documents, and may disconnect.  A client's send is a few bytes   *)
(* and arrives in one piece, but several may be read by one recv.          *)
(***************************************************************************)
EXTENDS Integers, Sequences

CONSTANTS
    MaxConns,       \* bound: connections ever accepted
    MaxLeaves,      \* bound: clients that disconnect
    MaxChallenges,  \* bound: challenges broadcast
    MaxClock,       \* bound: clock ticks
    Window,         \* payloads the buffers of a connection hold
    TeamOf,         \* the team name each connection introduces itself with
    Checksums,      \* the answers a challenge can have
    Tagged          \* whether clients send "cid answer" or the answer alone

Conns == 1 .. MaxConns
Fds == 1 .. MaxConns

ASSUME ConstantsAssumption ==
    /\ {MaxConns, MaxLeaves, MaxChallenges, MaxClock} \subseteq Nat
    /\ Window \in Nat \ {0}
    /\ DOMAIN TeamOf = Conns
    /\ Checksums \subseteq Nat /\ Checksums # {}
    /\ Tagged \in BOOLEAN

VARIABLES
    clock,       \* steady_clock
    challengeId, \* the next challenge id
    current,     \* currentChallenge: its id, startTime, and per name an answer
    bcast,       \* the broadcaster: next statement and locals
    results,     \* the entries of RESULTS_FILE
    conns,       \* connections accepted
    registered,  \* size of the vector clients
    fd,          \* ClientInfo::socket
    owner,       \* the connection behind an open descriptor, 0 when closed
    handler,     \* handleClient: next statement and locals
    up,          \* clients still connected
    inbox,       \* payloads sent to a client it has not answered
    outbox,      \* answers of a client no recv has returned
    leaves,      \* clients that have left
    fastest      \* ghost: least latency of a right answer to the current challenge

server == <<challengeId, current, bcast, results, fastest>>
accepts == <<conns, registered, fd>>
clientVars == <<up, inbox, outbox, leaves>>
vars == <<clock, server, accepts, owner, handler, clientVars>>

NoCid == -1     \* parsedCid of a single integer
Junk == -1      \* an integer no client computed
None == -1      \* no latency yet

Names == {<<TeamOf[k], n>> : k \in Conns, n \in 0 .. MaxChallenges * MaxConns}
NoAnswers == [n \in {} |-> 0]
NoMessage == [cid |-> NoCid, answer |-> Junk, to |-> 0]
Idle == [pc |-> "none", name |-> <<>>, msg |-> NoMessage, now |-> 0]

Init ==
    /\ clock = 0
    /\ challengeId = 1
    /\ current = [id |-> 0, start |-> 0, answers |-> NoAnswers]
    /\ bcast = [pc |-> "prepare", cid |-> 0, sum |-> 0, next |-> 1, snapshot |-> NoAnswers,
                fastest |-> None]
    /\ results = <<>>
    /\ conns = 0 /\ registered = 0
    /\ fd = [k \in Conns |-> 0]
    /\ owner = [f \in Fds |-> 0]
    /\ handler = [k \in Conns |-> Idle]
    /\ up = [k \in Conns |-> FALSE]
    /\ inbox = [k \in Conns |-> <<>>]
    /\ outbox = [k \in Conns |-> <<>>]
    /\ leaves = 0
    /\ fastest = None

Tick ==
    /\ clock < MaxClock
    /\ clock' = clock + 1
    /\ UNCHANGED <<server, accepts, owner, handler, clientVars>>

-----------------------------------------------------------------------------
(* The accept loop *)

LowestFree(f) == owner[f] = 0 /\ \A g \in 1 .. f - 1 : owner[g] # 0

\* clientsMutex is the broadcaster's for the whole of its send loop.
ClientsLocked == bcast.pc = "send"

Accept(k, f) ==
    /\ k = conns + 1
    /\ registered = conns
    /\ LowestFree(f)
    /\ conns' = k
    /\ fd' = [fd EXCEPT ![k] = f]
    /\ owner' = [owner EXCEPT ![f] = k]
    /\ up' = [up EXCEPT ![k] = TRUE]
    /\ UNCHANGED <<clock, server, registered, handler, inbox, outbox, leaves>>

\* clients.push_back and the handler's thread.
Register ==
    /\ registered < conns
    /\ ~ClientsLocked
    /\ registered' = conns
    /\ handler' = [handler EXCEPT ![conns].pc = "name"]
    /\ UNCHANGED <<clock, server, conns, fd, owner, clientVars>>

-----------------------------------------------------------------------------
(* broadcastChallengeLoop *)

NextIdReused(c) == c

\* challengeId++
NextId(c) == c + 1

\* The id is drawn, then both matrices; all that matters of them is their checksum.
Prepare(s) ==
    /\ bcast.pc = "prepare"
    /\ challengeId <= MaxChallenges
    /\ bcast' = [bcast EXCEPT !.pc = "publish", !.cid = challengeId, !.sum = s]
    /\ challengeId' = NextId(challengeId)
    /\ UNCHANGED <<clock, current, results, fastest, accepts, owner, handler, clientVars>>

Published(c, t) == [id |-> c, start |-> t, answers |-> NoAnswers]

Publish ==
    /\ bcast.pc = "publish"
    /\ current' = Published(bcast.cid, clock)
    /\ fastest' = None
    /\ bcast' = [bcast EXCEPT !.pc = "lock"]
    /\ UNCHANGED <<clock, challengeId, results, accepts, owner, handler, clientVars>>

Lock ==
    /\ bcast.pc = "lock"
    /\ bcast' = [bcast EXCEPT !.pc = "send", !.next = 1]
    /\ UNCHANGED <<clock, challengeId, current, results, fastest, accepts, owner, handler, clientVars>>

SendBlocksWhenGone(k) == k # 0 /\ Len(inbox[k]) < Window

\* send() on the descriptor of clients[next]: it fails on a closed one or when
\* the peer has gone, and the error is ignored; it blocks while the buffers
\* of the connection that now has the number are full.
SendReturns(k) == k # 0 /\ up[k] => Len(inbox[k]) < Window

Send ==
    LET k == owner[fd[bcast.next]]
    IN  /\ bcast.pc = "send"
        /\ bcast.next <= registered
        /\ SendReturns(k)
        /\ inbox' = IF k # 0 /\ up[k]
                    THEN [inbox EXCEPT ![k] = Append(@, [cid |-> bcast.cid, sum |-> bcast.sum])]
                    ELSE inbox
        /\ bcast' = [bcast EXCEPT !.next = @ + 1]
        /\ UNCHANGED <<clock, challengeId, current, results, fastest, accepts, owner, handler,
                       up, outbox, leaves>>

Unlock ==
    /\ bcast.pc = "send"
    /\ bcast.next > registered
    /\ bcast' = [bcast EXCEPT !.pc = "wait"]
    /\ UNCHANGED <<clock, challengeId, current, results, fastest, accepts, owner, handler, clientVars>>

\* sleep_for(10 s), then the copy of the answers.
Snapshot ==
    /\ bcast.pc = "wait"
    /\ bcast' = [bcast EXCEPT !.pc = "log", !.snapshot = current.answers, !.fastest = fastest]
    /\ UNCHANGED <<clock, challengeId, current, results, fastest, accepts, owner, handler, clientVars>>

\* The names logChallengeResult may pick: the strict comparison keeps the
\* first of equal latencies in the map's iteration order, which may be any.
Winners(answers, sum) ==
    {n \in DOMAIN answers : /\ answers[n].answer = sum
                            /\ \A m \in DOMAIN answers :
                                  answers[m].answer = sum => answers[n].latency <= answers[m].latency}

LogEntry(w) == [cid |-> bcast.cid, sum |-> bcast.sum, winner |-> w, players |-> bcast.snapshot,
                fastest |-> bcast.fastest]

Log ==
    LET won == Winners(bcast.snapshot, bcast.sum)
    IN  /\ bcast.pc = "log"
        /\ \E w \in IF won = {} THEN {<<>>} ELSE won : results' = Append(results, LogEntry(w))
        /\ bcast' = [bcast EXCEPT !.pc = "prepare", !.snapshot = NoAnswers, !.fastest = None]
        /\ UNCHANGED <<clock, challengeId, current, fastest, accepts, owner, handler, clientVars>>

Broadcaster ==
    \/ \E s \in Checksums : Prepare(s)
    \/ Publish \/ Lock \/ Send \/ Unlock \/ Snapshot \/ Log

-----------------------------------------------------------------------------
(* handleClient *)

Drop(q, n) == SubSeq(q, n + 1, Len(q))

\* The first recv takes the name with whatever has already come after it, and
\* all of that becomes the name.
RecvName(k) ==
    /\ handler[k].pc = "name"
    /\ \E n \in 0 .. Len(outbox[k]) :
          /\ handler' = [handler EXCEPT ![k].pc = "recv", ![k].name = <<TeamOf[k], n>>]
          /\ outbox' = [outbox EXCEPT ![k] = Drop(@, n)]
    /\ UNCHANGED <<clock, server, accepts, owner, up, inbox, leaves>>

\* What sscanf makes of the first n messages read at once.  Tagged answers end
\* in a newline: the first is parsed, the others are lost.  Bare ones run
\* together into one number.
Parsed(q, n) ==
    IF Tagged \/ n = 1 THEN {q[1]}
    ELSE {[q[1] EXCEPT !.answer = a] : a \in Checksums \union {Junk}}

\* recv, the parse, and the timestamp, all before challengeMutex is taken.
RecvAnswer(k) ==
    /\ handler[k].pc = "recv"
    /\ \E n \in 1 .. Len(outbox[k]) :
          /\ \E msg \in Parsed(outbox[k], n) :
                handler' = [handler EXCEPT ![k].pc = "stamped", ![k].msg = msg, ![k].now = clock]
          /\ outbox' = [outbox EXCEPT ![k] = Drop(@, n)]
    /\ UNCHANGED <<clock, server, accepts, owner, up, inbox, leaves>>

AssociatedWithAny(msg) == current.id

\* A single integer is taken for an answer to the current challenge.
Associated(msg) == IF msg.cid = NoCid THEN current.id ELSE msg.cid

\* An answer replaces the earlier one of the same name.
Answered(n, a) ==
    [m \in DOMAIN current.answers \union {n} |-> IF m = n THEN a ELSE current.answers[m]]

Least(a, b) == IF a = None \/ b < a THEN b ELSE a

Credit(k) ==
    LET msg == handler[k].msg
        latency == handler[k].now - current.start
        a == [latency |-> latency, answer |-> msg.answer, to |-> msg.to]
    IN  /\ handler[k].pc = "stamped"
        /\ IF Associated(msg) = current.id
           THEN /\ current' = [current EXCEPT !.answers = Answered(handler[k].name, a)]
                /\ fastest' = IF msg.answer = bcast.sum THEN Least(fastest, latency) ELSE fastest
           ELSE UNCHANGED <<current, fastest>>
        /\ handler' = [handler EXCEPT ![k].pc = "recv", ![k].msg = NoMessage, ![k].now = 0]
        /\ UNCHANGED <<clock, challengeId, bcast, results, accepts, owner, clientVars>>

\* recv returns 0 once everything was read, or an error before that.
Disconnected(k) ==
    /\ handler[k].pc \in {"name", "recv"}
    /\ ~up[k]
    /\ handler' = [handler EXCEPT ![k].pc = "close"]
    /\ outbox' = [outbox EXCEPT ![k] = <<>>]
    /\ UNCHANGED <<clock, server, accepts, owner, up, inbox, leaves>>

\* The descriptor is closed; the ClientInfo stays in clients.
Close(k) ==
    /\ handler[k].pc = "close"
    /\ owner' = [owner EXCEPT ![fd[k]] = 0]
    /\ handler' = [handler EXCEPT ![k].pc = "ended"]
    /\ UNCHANGED <<clock, server, accepts, clientVars>>

Handler(k) == RecvName(k) \/ RecvAnswer(k) \/ Credit(k) \/ Disconnected(k) \/ Close(k)

-----------------------------------------------------------------------------
(* The clients *)

\* A client computes an answer for the oldest challenge it has and sends it.
Answer(k, a) ==
    /\ up[k]
    /\ inbox[k] # <<>>
    /\ LET c == Head(inbox[k]).cid
       IN  outbox' = [outbox EXCEPT ![k] =
                        Append(@, [cid |-> IF Tagged THEN c ELSE NoCid, answer |-> a, to |-> c])]
    /\ inbox' = [inbox EXCEPT ![k] = Tail(@)]
    /\ UNCHANGED <<clock, server, accepts, owner, handler, up, leaves>>

Leave(k) ==
    /\ up[k]
    /\ leaves < MaxLeaves
    /\ up' = [up EXCEPT ![k] = FALSE]
    /\ inbox' = [inbox EXCEPT ![k] = <<>>]
    /\ leaves' = leaves + 1
    /\ UNCHANGED <<clock, server, accepts, owner, handler, outbox>>

Next ==
    \/ Tick
    \/ \E k \in Conns, f \in Fds : Accept(k, f)
    \/ Register
    \/ Broadcaster
    \/ \E k \in Conns : Handler(k)
    \/ \E k \in Conns, a \in Checksums : Answer(k, a)
    \/ \E k \in Conns : Leave(k)

Spec == Init /\ [][Next]_vars

\* The server's threads run whenever they can; nothing is said of the clients.
FairServer == Spec /\ WF_vars(Broadcaster)

\* The clients also keep reading what they are sent.
Reads(k) == \E a \in Checksums : Answer(k, a)
FairSpec == FairServer /\ \A k \in Conns : WF_vars(Reads(k))

-----------------------------------------------------------------------------
(* Properties *)

\* The winner on file is a client whose answer is right and as fast as the
\* fastest right answer the server accepted before it took its snapshot.
FastestCorrectWins ==
    \A i \in DOMAIN results :
        LET e == results[i]
        IN  IF e.fastest = None THEN e.winner = <<>>
            ELSE /\ e.winner \in DOMAIN e.players
                 /\ e.players[e.winner].answer = e.sum
                 /\ e.players[e.winner].latency = e.fastest

\* The log is that of a fair contest: the entry of a challenge has the answers
\* that were given to it before its window closed, and no other ones, however
\* handlers, snapshot and log overlap.
OpenRound == IF bcast.pc \in {"lock", "send", "wait", "log"} THEN bcast.cid ELSE 0

Judged(answers, sum) ==
    [n \in DOMAIN answers |-> [latency |-> answers[n].latency, to |-> answers[n].to,
                               right |-> answers[n].answer = sum]]

RoundAnswers ==
    CASE bcast.pc \in {"lock", "send", "wait"} -> Judged(current.answers, bcast.sum)
      [] bcast.pc = "log" -> Judged(bcast.snapshot, bcast.sum)
      [] OTHER -> NoAnswers

JudgedResults ==
    [i \in DOMAIN results |-> [cid |-> results[i].cid, winner |-> results[i].winner,
                               players |-> Judged(results[i].players, results[i].sum)]]

Fair == INSTANCE Contest WITH
    Tagging <- Names, open <- OpenRound, answers <- RoundAnswers, log <- JudgedResults
IsFairContest == Fair!Spec

\* A client is sent each challenge once, oldest first.
EachChallengeOnce ==
    \A k \in Conns, i, j \in 1 .. Window :
        i < j /\ j <= Len(inbox[k]) => inbox[k][i].cid < inbox[k][j].cid

\* A challenge that is published is broadcast to the end and logged.
RoundCompletes ==
    \A c \in 1 .. MaxChallenges : (bcast.pc = "lock" /\ bcast.cid = c) ~> (Len(results) >= c)

=============================================================================
