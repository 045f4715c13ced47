----------------------------- MODULE BlastServer -----------------------------
(***************************************************************************)
(* How the blast server delivers challenges (tools/blast_server.cpp): the  *)
(* broadcaster queues each payload in the outbox of every client that ever *)
(* connected, and one sender thread per client empties its outbox, asleep  *)
(* on a condition variable while there is nothing to send.                 *)
(*                                                                         *)
(* A sender holds qMutex from the test of its predicate until it sleeps    *)
(* ("falling") or until it unlocks to send; push and notify_one happen     *)
(* under the same mutex, but a handler whose client has gone clears        *)
(* running and notifies without it.  The rounds and the bursts of ultra    *)
(* mode push in the same way, so one loop stands for both.                 *)
(*                                                                         *)
(* A ClientInfo is never removed, and a closed descriptor's number goes to *)
(* a later connection.  Answers are handled as in ChallengeServer and are  *)
(* left out.  Rounds go on for ever: those after MaxChallenges queue       *)
(* nothing here, but still wake the senders.                               *)
(***************************************************************************)
EXTENDS Integers, Sequences, FiniteSets

CONSTANTS
    MaxConns,       \* bound: connections ever accepted
    MaxChallenges,  \* bound: payloads queued
    Window,         \* payloads the buffers between server and client hold
    Readers,        \* the connections whose clients read on for as long as they stay
    None

ASSUME ConstantsAssumption ==
    /\ MaxConns \in Nat
    /\ MaxChallenges \in Nat
    /\ Window \in Nat \ {0}
    /\ Readers \subseteq 1 .. MaxConns
    /\ None \notin Nat

VARIABLES
    accepted,     \* entries of clients; entry e is also the connection e
    fd,           \* ClientInfo::socket
    owner,        \* kernel: the open connection behind a descriptor, or None
    handler,      \* program counter of handleClient
    running,      \* ClientInfo::running
    sender,       \* program counter of senderThread
    outbox,       \* ClientInfo::outbox
    msg,          \* the payload a sender has popped, 0 if none
    sent,         \* ghost: the last payload a sender handed to send()
    challengeId,  \* id of the round's challenge
    next,         \* next entry of the broadcaster's loop, 0 between rounds
    inbox,        \* payloads on their way to the client
    left          \* the client has closed its end

vars == <<accepted, fd, owner, handler, running, sender, outbox, msg, sent,
          challengeId, next, inbox, left>>

Conns == 1 .. MaxConns
Clients == 1 .. accepted
Challenges == 1 .. MaxChallenges

Init ==
    /\ accepted = 0
    /\ fd = [e \in Conns |-> 0]
    /\ owner = [d \in Conns |-> None]
    /\ handler = [e \in Conns |-> "none"]
    /\ running = [e \in Conns |-> TRUE]
    /\ sender = [e \in Conns |-> "none"]
    /\ outbox = [e \in Conns |-> <<>>]
    /\ msg = [e \in Conns |-> 0]
    /\ sent = [e \in Conns |-> 0]
    /\ challengeId = 1
    /\ next = 0
    /\ inbox = [e \in Conns |-> 0]
    /\ left = [e \in Conns |-> FALSE]

-----------------------------------------------------------------------------
(* The accept loop: clientsMutex is the broadcaster's while next # 0. *)

Accept ==
    /\ accepted < MaxConns
    /\ next = 0
    /\ LET e == accepted + 1
           d == CHOOSE x \in Conns : owner[x] = None /\ \A y \in 1 .. x - 1 : owner[y] # None
       IN /\ accepted' = e
          /\ fd' = [fd EXCEPT ![e] = d]
          /\ owner' = [owner EXCEPT ![d] = e]
          /\ handler' = [handler EXCEPT ![e] = "name"]
    /\ UNCHANGED <<running, sender, outbox, msg, sent, challengeId, next, inbox, left>>

-----------------------------------------------------------------------------
(* handleClient *)

\* The name has come; the sender starts.
RecvName(e) ==
    /\ handler[e] = "name"
    /\ handler' = [handler EXCEPT ![e] = "serving"]
    /\ sender' = [sender EXCEPT ![e] = "loop"]
    /\ UNCHANGED <<accepted, fd, owner, running, outbox, msg, sent, challengeId, next,
                   inbox, left>>

\* The client left before it gave a name: the descriptor stays open.
NoName(e) ==
    /\ handler[e] = "name"
    /\ left[e]
    /\ handler' = [handler EXCEPT ![e] = "returned"]
    /\ UNCHANGED <<accepted, fd, owner, running, sender, outbox, msg, sent, challengeId,
                   next, inbox, left>>

\* recv answers 0 or an error.
StopRunning(e) ==
    /\ handler[e] = "serving"
    /\ left[e]
    /\ running' = [running EXCEPT ![e] = FALSE]
    /\ handler' = [handler EXCEPT ![e] = "notifying"]
    /\ UNCHANGED <<accepted, fd, owner, sender, outbox, msg, sent, challengeId, next,
                   inbox, left>>

\* Fault: a notification that wakes nobody.
NotifiedInVain(e) == sender

\* Only a sender that is asleep hears it.
Notified(e) == IF sender[e] = "asleep" THEN [sender EXCEPT ![e] = "awake"] ELSE sender

NotifyAll(e) ==
    /\ handler[e] = "notifying"
    /\ sender' = Notified(e)
    /\ handler' = [handler EXCEPT ![e] = "closing"]
    /\ UNCHANGED <<accepted, fd, owner, running, outbox, msg, sent, challengeId, next,
                   inbox, left>>

Close(e) ==
    /\ handler[e] = "closing"
    /\ owner' = [owner EXCEPT ![fd[e]] = None]
    /\ handler' = [handler EXCEPT ![e] = "returned"]
    /\ UNCHANGED <<accepted, fd, running, sender, outbox, msg, sent, challengeId, next,
                   inbox, left>>

-----------------------------------------------------------------------------
(* senderThread *)

\* while (client->running)
Loop(e) ==
    /\ sender[e] = "loop"
    /\ sender' = [sender EXCEPT ![e] = IF running[e] THEN "awake" ELSE "ended"]
    /\ UNCHANGED <<accepted, fd, owner, handler, running, outbox, msg, sent, challengeId,
                   next, inbox, left>>

\* Fault: front() without pop().
PopKeeping(e) ==
    /\ outbox[e] # <<>>
    /\ msg' = [msg EXCEPT ![e] = Head(outbox[e])]
    /\ outbox' = outbox
    /\ sender' = [sender EXCEPT ![e] = "sending"]

Pop(e) ==
    /\ outbox[e] # <<>>
    /\ msg' = [msg EXCEPT ![e] = Head(outbox[e])]
    /\ outbox' = [outbox EXCEPT ![e] = Tail(@)]
    /\ sender' = [sender EXCEPT ![e] = "sending"]

\* With qMutex: the predicate of wait, at first and after each waking.
TestPredicate(e) ==
    /\ sender[e] = "awake"
    /\ \/ Pop(e)
       \/ /\ outbox[e] = <<>>
          /\ sender' = [sender EXCEPT ![e] = IF running[e] THEN "falling" ELSE "loop"]
          /\ UNCHANGED <<outbox, msg>>
    /\ UNCHANGED <<accepted, fd, owner, handler, running, sent, challengeId, next, inbox, left>>

FallAsleep(e) ==
    /\ sender[e] = "falling"
    /\ sender' = [sender EXCEPT ![e] = "asleep"]
    /\ UNCHANGED <<accepted, fd, owner, handler, running, outbox, msg, sent, challengeId,
                   next, inbox, left>>

\* send() fails on a closed descriptor and on one whose client has gone, and
\* otherwise waits for room: for the connection that has the number now.
Send(e) ==
    LET c == owner[fd[e]] IN
    /\ sender[e] = "sending"
    /\ IF c = None \/ left[c]
         THEN UNCHANGED inbox
         ELSE /\ inbox[c] < Window
              /\ inbox' = [inbox EXCEPT ![c] = @ + 1]
    /\ sent' = [sent EXCEPT ![e] = msg[e]]
    /\ msg' = [msg EXCEPT ![e] = 0]
    /\ sender' = [sender EXCEPT ![e] = "draining"]
    /\ UNCHANGED <<accepted, fd, owner, handler, running, outbox, challengeId, next, left>>

\* while (!client->outbox.empty()), with the mutex again.
Drain(e) ==
    /\ sender[e] = "draining"
    /\ \/ Pop(e)
       \/ /\ outbox[e] = <<>>
          /\ sender' = [sender EXCEPT ![e] = "loop"]
          /\ UNCHANGED <<outbox, msg>>
    /\ UNCHANGED <<accepted, fd, owner, handler, running, sent, challengeId, next, inbox, left>>

-----------------------------------------------------------------------------
(* broadcastChallengeLoop *)

StartRound ==
    /\ next = 0
    /\ next' = 1
    /\ UNCHANGED <<accepted, fd, owner, handler, running, sender, outbox, msg, sent,
                   challengeId, inbox, left>>

\* Fault: the mutex is kept during send().
QueueFreeOnceSent(e) == sender[e] \notin {"falling", "sending"}

QueueFree(e) == sender[e] # "falling"

Queued(e) ==
    IF challengeId \in Challenges THEN [outbox EXCEPT ![e] = Append(@, challengeId)]
                                  ELSE outbox

\* Fault: no notify_one.
PushSilently ==
    /\ next \in Clients
    /\ QueueFree(next)
    /\ outbox' = Queued(next)
    /\ next' = next + 1
    /\ UNCHANGED <<accepted, fd, owner, handler, running, sender, msg, sent, challengeId,
                   inbox, left>>

Push ==
    /\ next \in Clients
    /\ QueueFree(next)
    /\ outbox' = Queued(next)
    /\ sender' = Notified(next)
    /\ next' = next + 1
    /\ UNCHANGED <<accepted, fd, owner, handler, running, msg, sent, challengeId, inbox, left>>

EndRound ==
    /\ next > accepted
    /\ next' = 0
    /\ challengeId' = IF challengeId \in Challenges THEN challengeId + 1 ELSE challengeId
    /\ UNCHANGED <<accepted, fd, owner, handler, running, sender, outbox, msg, sent, inbox, left>>

-----------------------------------------------------------------------------
(* The clients *)

Read(e) ==
    /\ ~left[e]
    /\ inbox[e] > 0
    /\ inbox' = [inbox EXCEPT ![e] = @ - 1]
    /\ UNCHANGED <<accepted, fd, owner, handler, running, sender, outbox, msg, sent,
                   challengeId, next, left>>

Leave(e) ==
    /\ e \in Clients
    /\ ~left[e]
    /\ left' = [left EXCEPT ![e] = TRUE]
    /\ inbox' = [inbox EXCEPT ![e] = 0]
    /\ UNCHANGED <<accepted, fd, owner, handler, running, sender, outbox, msg, sent,
                   challengeId, next>>

Handler(e) == NoName(e) \/ StopRunning(e) \/ NotifyAll(e) \/ Close(e)
Sender(e) == Loop(e) \/ TestPredicate(e) \/ FallAsleep(e) \/ Send(e) \/ Drain(e)
Broadcaster == StartRound \/ Push \/ EndRound

Next ==
    \/ Accept
    \/ Broadcaster
    \/ \E e \in Conns : RecvName(e) \/ Handler(e) \/ Sender(e) \/ Read(e) \/ Leave(e)

\* The server's threads run; of the clients only the readers are known to go on reading.
Fairness ==
    /\ WF_vars(Broadcaster)
    /\ \A e \in Conns : WF_vars(Handler(e)) /\ WF_vars(Sender(e))
    /\ \A e \in Readers : WF_vars(Read(e))

Spec == Init /\ [][Next]_vars /\ Fairness

-----------------------------------------------------------------------------
\* The payload in hand and those behind it.
Pending(e) == (IF msg[e] = 0 THEN <<>> ELSE <<msg[e]>>) \o outbox[e]

(***************************************************************************)
(* A sender hands over every challenge since its client connected, once    *)
(* and in order: whatever the interleaving of pushes, sends and wakings,   *)
(* the payload last sent, the one in hand and those queued are consecutive *)
(* and end with the last one the broadcaster has pushed for this client.   *)
(***************************************************************************)
NothingLostOrRepeated ==
    \A e \in Clients :
        LET q == Pending(e)
            lastPushed == IF challengeId \in Challenges /\ next > e THEN challengeId
                          ELSE challengeId - 1
        IN /\ \A i \in 1 .. Len(q) : q[i] = lastPushed - Len(q) + i
           /\ sent[e] # 0 => sent[e] = lastPushed - Len(q)

(***************************************************************************)
(* A client that does not read keeps its own sender waiting and nobody     *)
(* else: every round ends, although the round takes the mutex of each      *)
(* client in turn.                                                         *)
(***************************************************************************)
RoundsEnd == next # 0 ~> next = 0

(***************************************************************************)
(* The sender of a client that has gone ends.  Its wake-up can be lost     *)
(* between the test of the predicate and the sleep; it is the push of a    *)
(* later round that ends the sleep then.  (One that is still sending on a  *)
(* descriptor a later client has taken over needs that client to read.)    *)
(***************************************************************************)
SendersEnd ==
    \A e \in Conns : (handler[e] = "returned" /\ ~running[e]) ~> sender[e] = "ended"

(***************************************************************************)
(* A payload queued for a client that is served, reads and stays is sent,  *)
(* whatever the other clients do.                                          *)
(***************************************************************************)
Delivered ==
    \A e \in Readers, c \in Challenges :
        (handler[e] = "serving" /\ \E i \in 1 .. Len(outbox[e]) : outbox[e][i] = c)
            ~> (sent[e] >= c \/ left[e])
=============================================================================
