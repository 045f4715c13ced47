---- MODULE BlastRounds ----
(***************************************************************************)
(* The rounds of the blast server (tools/blast_server.cpp): the broadcaster *)
(* publishes a challenge, queues it for every client, and logs the answers *)
(* of its window without waiting for more; in ultra mode bursts of         *)
(* challenges that nobody can answer come between.  Handlers credit what   *)
(* their clients send, whenever that is: an answer with an id for its      *)
(* challenge, a bare one for the challenge that is current then.           *)
(* BlastServer has the delivery, which here is a queue per client.         *)
(***************************************************************************)
EXTENDS Integers, Sequences

CONSTANTS
    BlastClients,   \* clients, connected throughout
    TeamOf,         \* the names they introduced themselves with
    TaggingClients, \* those that answer "id answer"; the others send the answer alone
    BurstEvery,     \* rounds between bursts: 50
    BurstSize,      \* challenges in a burst: 20
    MaxIds,         \* bound: challenge ids drawn
    MaxTime         \* bound: clock ticks

ASSUME RoundsAssumption ==
    /\ DOMAIN TeamOf = BlastClients /\ TaggingClients \subseteq BlastClients
    /\ {BurstEvery, BurstSize} \subseteq Nat \ {0}
    /\ {MaxIds, MaxTime} \subseteq Nat

VARIABLES
    time,         \* steady_clock
    challengeId,  \* the next id
    current,      \* currentChallenge: id, startTime, and per name an answer
    bcast,        \* the broadcaster: next statement and locals
    entries,      \* the entries logged
    queue,        \* per client, the challenges on their way to it
    sent,         \* per client, the ids of its answers that no recv has returned
    handling      \* per client, the id and the time of the answer its handler has read

server == <<challengeId, bcast, entries>>
roundsVars == <<time, server, current, queue, sent, handling>>

NoAnswers == [n \in {} |-> 0]
Bare == -1  \* the cid of an answer without an id
Idle == [pc |-> "recv", cid |-> 0, now |-> 0]

RoundsInit ==
    /\ time = 0
    /\ challengeId = 1
    /\ current = [id |-> 0, start |-> 0, answers |-> NoAnswers]
    /\ bcast = [pc |-> "draw", cid |-> 0, snapshot |-> NoAnswers, counter |-> 0, left |-> 0]
    /\ entries = <<>>
    /\ queue = [k \in BlastClients |-> <<>>]
    /\ sent = [k \in BlastClients |-> <<>>]
    /\ handling = [k \in BlastClients |-> Idle]

TimePasses ==
    /\ time < MaxTime
    /\ time' = time + 1
    /\ UNCHANGED <<server, current, queue, sent, handling>>

----------------------------------------------------------------------------
(* broadcastChallengeLoop *)

\* Every outbox gets the payload.
Pushed(c) == [k \in BlastClients |-> Append(queue[k], c)]

Draw ==
    /\ bcast.pc = "draw"
    /\ challengeId <= MaxIds
    /\ bcast' = [bcast EXCEPT !.pc = "publish", !.cid = challengeId]
    /\ challengeId' = challengeId + 1
    /\ UNCHANGED <<time, current, entries, queue, sent, handling>>

Publish ==
    /\ bcast.pc = "publish"
    /\ current' = [id |-> bcast.cid, start |-> time, answers |-> NoAnswers]
    /\ bcast' = [bcast EXCEPT !.pc = "push"]
    /\ UNCHANGED <<time, challengeId, entries, queue, sent, handling>>

Push ==
    /\ bcast.pc = "push"
    /\ queue' = Pushed(bcast.cid)
    /\ bcast' = [bcast EXCEPT !.pc = "window"]
    /\ UNCHANGED <<time, challengeId, current, entries, sent, handling>>

\* The window is over; its length against the clients' speed is anything.
Snapshot ==
    /\ bcast.pc = "window"
    /\ bcast' = [bcast EXCEPT !.pc = "log", !.snapshot = current.answers]
    /\ UNCHANGED <<time, challengeId, current, entries, queue, sent, handling>>

\* logChallengeResult: of equal latencies the map's order decides.
FastestRight(answers) ==
    LET right == {n \in DOMAIN answers : answers[n].right}
    IN  {n \in right : \A m \in right : answers[n].latency <= answers[m].latency}

Logged(c, answers) ==
    \E w \in IF FastestRight(answers) = {} THEN {<<>>} ELSE FastestRight(answers) :
        entries' = Append(entries, [cid |-> c, winner |-> w, players |-> answers])

\* Only ultra mode counts rounds and bursts; the other modes only sleep here.
Log ==
    /\ bcast.pc = "log"
    /\ Logged(bcast.cid, bcast.snapshot)
    /\ \E ultra \in BOOLEAN :
          LET counter == IF ultra THEN bcast.counter + 1 ELSE bcast.counter
              bursts == ultra /\ counter % BurstEvery = 0
          IN  bcast' = [pc |-> IF bursts THEN "burst" ELSE "draw", cid |-> 0, snapshot |-> NoAnswers,
                        counter |-> counter, left |-> IF bursts THEN BurstSize ELSE 0]
    /\ UNCHANGED <<time, challengeId, current, queue, sent, handling>>

\* A challenge of a burst is queued like any other but never becomes current.
Burst ==
    /\ bcast.pc = "burst"
    /\ challengeId <= MaxIds
    /\ queue' = Pushed(challengeId)
    /\ bcast' = [bcast EXCEPT !.pc = "burstLog", !.cid = challengeId]
    /\ challengeId' = challengeId + 1
    /\ UNCHANGED <<time, current, entries, sent, handling>>

BurstLog ==
    /\ bcast.pc = "burstLog"
    /\ Logged(bcast.cid, NoAnswers)
    /\ bcast' = [bcast EXCEPT !.pc = IF bcast.left = 1 THEN "draw" ELSE "burst",
                              !.cid = 0, !.left = @ - 1]
    /\ UNCHANGED <<time, challengeId, current, queue, sent, handling>>

BroadcastChallengeLoop == Draw \/ Publish \/ Push \/ Snapshot \/ Log \/ Burst \/ BurstLog

----------------------------------------------------------------------------
(* handleClient *)

\* What sscanf makes of the first n messages read at once, which nothing has to
\* separate.  After an id it reads the first answer, with what digits may follow.
\* Bare answers are one number or, if there is space between them, the first is
\* an id: as good as none if it is the current one, and else of no challenge.
ReadAs(k, n) == IF k \in TaggingClients \/ n = 1 THEN {Head(sent[k])} ELSE {Bare, 0}

ReadAnswer(k) ==
    /\ handling[k].pc = "recv"
    /\ \E n \in 1 .. Len(sent[k]) :
          /\ sent' = [sent EXCEPT ![k] = SubSeq(@, n + 1, Len(@))]
          /\ \E cid \in ReadAs(k, n) :
                handling' = [handling EXCEPT ![k] = [pc |-> "credit", cid |-> cid, now |-> time]]
    /\ UNCHANGED <<time, server, current, queue>>

\* Fault: the id of an answer is not compared.
CountsForAny(cid) == TRUE

\* A bare answer is taken for one to the current challenge.
Counts(cid) == cid \in {Bare, current.id}

\* The answer is any number, and so right for this challenge or not.
CreditAnswer(k) ==
    LET n == TeamOf[k]
        a(right) == [latency |-> handling[k].now - current.start, right |-> right,
                     to |-> handling[k].cid]
    IN  /\ handling[k].pc = "credit"
        /\ \E right \in BOOLEAN :
              current' = IF ~Counts(handling[k].cid) THEN current
                         ELSE [current EXCEPT !.answers =
                                 [m \in DOMAIN @ \union {n} |-> IF m = n THEN a(right) ELSE @[m]]]
        /\ handling' = [handling EXCEPT ![k] = Idle]
        /\ UNCHANGED <<time, server, queue, sent>>

\* A client answers what it is sent in order: with the id in front, as the
\* project's README asks for, or without it, as hft's clients do.
SendAnswer(k) ==
    /\ queue[k] # <<>>
    /\ sent' = [sent EXCEPT ![k] = Append(@, IF k \in TaggingClients THEN Head(queue[k]) ELSE Bare)]
    /\ queue' = [queue EXCEPT ![k] = Tail(@)]
    /\ UNCHANGED <<time, server, current, handling>>

RoundsNext == TimePasses \/ BroadcastChallengeLoop \/ \E k \in BlastClients : ReadAnswer(k) \/ CreditAnswer(k) \/ SendAnswer(k)

RoundsSpec == RoundsInit /\ [][RoundsNext]_roundsVars

----------------------------------------------------------------------------
(***************************************************************************)
(* The log is that of a fair contest, also when answers are late, come in  *)
(* while the log is written, or are given to challenges of a burst: the    *)
(* answers of a team whose clients put the id in front count for their own *)
(* challenge or for none, with the time they took.  A bare answer counts   *)
(* for the round under way when it is credited, whatever it was given to,  *)
(* and may take less than no time; it can win that round, but is never     *)
(* moved to another one, and the winner is still the fastest right player. *)
(***************************************************************************)
Names == {TeamOf[k] : k \in BlastClients}

TaggingNames == {n \in Names : \A k \in BlastClients : TeamOf[k] = n => k \in TaggingClients}

OpenRound == IF bcast.pc \in {"push", "window", "log", "burstLog"} THEN bcast.cid ELSE 0

RoundAnswers ==
    CASE bcast.pc \in {"push", "window"} -> current.answers
      [] bcast.pc = "log" -> bcast.snapshot
      [] OTHER -> NoAnswers

Fair == INSTANCE Contest WITH
    Tagging <- TaggingNames, MaxChallenges <- MaxIds,
    open <- OpenRound, answers <- RoundAnswers, log <- entries
IsFairContest == Fair!Spec
====
