---- MODULE PriceServer ----
(***************************************************************************)
(* The price server (phase2/hft_server.cpp) and its momentum clients       *)
(* (phase2/hft_client.cpp): a broadcaster thread, one handler thread per   *)
(* connection, the tables under priceMutex, and clients that answer a      *)
(* price when the last three they have noted rise or fall.  Neither side   *)
(* puts a separator between messages, so a recv may return several that    *)
(* are then read as one.                                                   *)
(***************************************************************************)
EXTENDS Integers, Sequences, FiniteSets, SequencesExt

CONSTANTS MaxConns,   \* bound on the connections ever accepted
          MaxPrices,  \* bound on the prices broadcast
          MaxLeaves,  \* bound on the clients that leave, for each value of prompt
          Values      \* the values a price takes

ASSUME PriceAssumption ==
    /\ MaxConns \in Nat \ {0} /\ MaxPrices \in Nat /\ MaxLeaves \in [BOOLEAN -> Nat]
    /\ Values \subseteq Int

Conns == 1..MaxConns
Ids == 0..(MaxPrices - 1)
None == -1

VARIABLES
    prompt,      \* the pause between prices outlasts every reaction, throughout the run
    prices,      \* the prices made; the one with index i has id i - 1 (priceId)
    stamped,     \* ids in priceTimestamps
    phase,       \* broadcaster: sleep, or send with clientsMutex held
    todo,        \* entries of clients it has still to send to
    clients,     \* the descriptor in each ClientInfo; entries are never removed
    handler,     \* handler thread per connection: none, name, recv, decide, done
    order,       \* the id a handler has read: receivedPriceId
    hit,         \* priceAlreadyHit
    inbox,       \* prices sent to a client and not yet read
    outbox,      \* what a client has sent and its handler not read: its name (None), then ids
    live,        \* the client is connected
    history,     \* priceHistory
    pending,     \* the id a client is about to order
    \* what has happened
    ordered,     \* pairs client, id of the orders sent
    runTogether, \* orders that were read together with others
    credits      \* pairs client, id in the order they were credited

serverVars == <<prompt, prices, stamped, phase, todo, clients, handler, order, hit>>
clientVars == <<live, history, pending, ordered>>
ghosts == <<runTogether, credits>>
priceVars == <<serverVars, inbox, outbox, clientVars, ghosts>>

PriceInit ==
    /\ prompt \in BOOLEAN
    /\ prices = <<>> /\ stamped = {} /\ hit = {}
    /\ phase = "sleep" /\ todo = <<>>
    /\ clients = <<>>
    /\ handler = [c \in Conns |-> "none"]
    /\ order = [c \in Conns |-> None]
    /\ inbox = [c \in Conns |-> <<>>]
    /\ outbox = [c \in Conns |-> <<>>]
    /\ live = [c \in Conns |-> FALSE]
    /\ history = [c \in Conns |-> <<>>]
    /\ pending = [c \in Conns |-> None]
    /\ ordered = {} /\ runTogether = {} /\ credits = <<>>

----------------------------------------------------------------------------
\* Connections.

Serves(c) == handler[c] \in {"name", "recv", "decide"}

UsedDescriptors == {clients[c] : c \in {d \in DOMAIN clients : Serves(d)}}

\* accept, push_back under clientsMutex, a thread; the client sends its name at once.
Connect ==
    /\ phase = "sleep"
    /\ Len(clients) < MaxConns
    /\ LET c == Len(clients) + 1
           fd == CHOOSE f \in Conns \ UsedDescriptors : \A g \in Conns \ UsedDescriptors : f <= g
       IN /\ clients' = Append(clients, fd)
          /\ handler' = [handler EXCEPT ![c] = "name"]
          /\ outbox' = [outbox EXCEPT ![c] = <<None>>]
          /\ live' = [live EXCEPT ![c] = TRUE]
    /\ UNCHANGED <<prompt, prices, stamped, phase, todo, order, hit, inbox, history, pending, ordered, ghosts>>

\* The connection a send on entry i reaches: whoever has that descriptor now.
Reached(i) == {c \in DOMAIN clients : Serves(c) /\ clients[c] = clients[i]}

----------------------------------------------------------------------------
\* The broadcaster.

Quiet == \A c \in Conns : live[c] => inbox[c] = <<>> /\ pending[c] = None

Indices == [i \in 1..Len(clients) |-> i]

\* Fault: the time is stored under the id before.
NewPriceUnstamped ==
    /\ phase = "sleep"
    /\ todo = <<>>
    /\ Len(prices) < MaxPrices
    /\ prompt => Quiet
    /\ \E v \in Values : prices' = Append(prices, v)
    /\ stamped' = stamped \cup {Len(prices) - 1}
    /\ phase' = "send"
    /\ todo' = Indices
    /\ UNCHANGED <<prompt, clients, handler, order, hit, inbox, outbox, clientVars, ghosts>>

\* The id and its time are stored, then clientsMutex is taken for the whole loop.
NewPrice ==
    /\ phase = "sleep"
    /\ todo = <<>>
    /\ Len(prices) < MaxPrices
    /\ prompt => Quiet
    /\ \E v \in Values : prices' = Append(prices, v)
    /\ stamped' = stamped \cup {Len(prices)}
    /\ phase' = "send"
    /\ todo' = Indices
    /\ UNCHANGED <<prompt, clients, handler, order, hit, inbox, outbox, clientVars, ghosts>>

Message == [id |-> Len(prices) - 1, value |-> Last(prices)]

SendNext ==
    /\ phase = "send"
    /\ todo # <<>>
    /\ inbox' = [c \in Conns |-> IF c \in Reached(Head(todo)) THEN Append(inbox[c], Message) ELSE inbox[c]]
    /\ todo' = Tail(todo)
    /\ UNCHANGED <<prompt, prices, stamped, phase, clients, handler, order, hit, outbox, clientVars, ghosts>>

EndBroadcast ==
    /\ phase = "send"
    /\ todo = <<>>
    /\ phase' = "sleep"
    /\ UNCHANGED <<prompt, prices, stamped, todo, clients, handler, order, hit, inbox, outbox, clientVars, ghosts>>

----------------------------------------------------------------------------
\* The handlers.

\* Orders read with the name become part of it.
RecvName(c) ==
    /\ handler[c] = "name"
    /\ \E n \in 1..Len(outbox[c]) :
          /\ runTogether' = runTogether \cup {<<c, outbox[c][k]>> : k \in 2..n}
          /\ outbox' = [outbox EXCEPT ![c] = SubSeq(@, n + 1, Len(@))]
    /\ handler' = [handler EXCEPT ![c] = "recv"]
    /\ UNCHANGED <<prompt, prices, stamped, phase, todo, clients, order, hit, inbox, clientVars, credits>>

\* Ids without a separator read as one decimal number.
RunOn(ids) == FoldLeft(LAMBDA x, i : 10 * x + i, 0, ids)

RecvOrder(c) ==
    /\ handler[c] = "recv"
    /\ \E n \in 1..Len(outbox[c]) :
          /\ order' = [order EXCEPT ![c] = RunOn(SubSeq(outbox[c], 1, n))]
          /\ runTogether' = IF n = 1 THEN runTogether
                            ELSE runTogether \cup {<<c, outbox[c][k]>> : k \in 1..n}
          /\ outbox' = [outbox EXCEPT ![c] = SubSeq(@, n + 1, Len(@))]
    /\ handler' = [handler EXCEPT ![c] = "decide"]
    /\ UNCHANGED <<prompt, prices, stamped, phase, todo, clients, hit, inbox, clientVars, credits>>

\* Known and not yet hit.
Creditable(id) == id \notin hit /\ id \in stamped

\* Under priceMutex; every path goes back to recv.
Decide(c) ==
    /\ handler[c] = "decide"
    /\ IF Creditable(order[c])
       THEN /\ hit' = hit \cup {order[c]}
            /\ credits' = Append(credits, <<c, order[c]>>)
       ELSE UNCHANGED <<hit, credits>>
    /\ order' = [order EXCEPT ![c] = None]
    /\ handler' = [handler EXCEPT ![c] = "recv"]
    /\ UNCHANGED <<prompt, prices, stamped, phase, todo, clients, inbox, outbox, clientVars, runTogether>>

\* recv returns 0, for the name as for an order; the ClientInfo stays in clients.
Disconnected(c) ==
    /\ handler[c] \in {"name", "recv"}
    /\ outbox[c] = <<>>
    /\ ~live[c]
    /\ handler' = [handler EXCEPT ![c] = "done"]
    /\ UNCHANGED <<prompt, prices, stamped, phase, todo, clients, order, hit, inbox, outbox, clientVars, ghosts>>

Handler(c) == RecvName(c) \/ RecvOrder(c) \/ Decide(c) \/ Disconnected(c)

----------------------------------------------------------------------------
\* The clients.

\* Fault: two prices are enough.
MomentumOfTwo(h) == Len(h) >= 2 /\ h[Len(h) - 1] # h[Len(h)]

Momentum(h) ==
    /\ Len(h) = 3
    /\ \/ h[1] < h[2] /\ h[2] < h[3]
       \/ h[1] > h[2] /\ h[2] > h[3]

LastThree(h) == IF Len(h) > 3 THEN Tail(h) ELSE h

\* Only the first of the messages a recv returned is looked at.
RecvPrice(c) ==
    /\ live[c] /\ pending[c] = None
    /\ \E n \in 1..Len(inbox[c]) :
          inbox' = [inbox EXCEPT ![c] = SubSeq(@, n + 1, Len(@))]
    /\ LET first == Head(inbox[c])
           noted == LastThree(Append(history[c], first.value))
       IN /\ history' = [history EXCEPT ![c] = noted]
          /\ pending' = [pending EXCEPT ![c] = IF Momentum(noted) THEN first.id ELSE None]
    /\ UNCHANGED <<serverVars, outbox, live, ordered, ghosts>>

\* After the reaction delay.
SendOrder(c) ==
    /\ live[c] /\ pending[c] # None
    /\ outbox' = [outbox EXCEPT ![c] = Append(@, pending[c])]
    /\ ordered' = ordered \cup {<<c, pending[c]>>}
    /\ pending' = [pending EXCEPT ![c] = None]
    /\ UNCHANGED <<serverVars, inbox, live, history, ghosts>>

Left == {c \in DOMAIN clients : ~live[c]}

Leave(c) ==
    /\ live[c]
    /\ Cardinality(Left) < MaxLeaves[prompt]
    /\ live' = [live EXCEPT ![c] = FALSE]
    /\ pending' = [pending EXCEPT ![c] = None]
    /\ inbox' = [inbox EXCEPT ![c] = <<>>]
    /\ UNCHANGED <<serverVars, outbox, history, ordered, ghosts>>

Client(c) == RecvPrice(c) \/ SendOrder(c) \/ Leave(c)

Broadcaster == NewPrice \/ SendNext \/ EndBroadcast

PriceNext == Connect \/ Broadcaster \/ \E c \in Conns : Handler(c) \/ Client(c)

PriceSpec == PriceInit /\ [][PriceNext]_priceVars

----------------------------------------------------------------------------
OneCreditPerPrice == \A i, j \in DOMAIN credits : credits[i][2] = credits[j][2] => i = j

\* Nobody has decided on the order yet, and its own handler is going to.
Waits(c, i) ==
    \/ \E k \in DOMAIN outbox[c] : outbox[c][k] = i
    \/ handler[c] = "decide" /\ order[c] = i

(***************************************************************************)
(* However the handlers' orders interleave, each price is credited to one  *)
(* client, and an order is never lost or turned down as unknown: unless it *)
(* was read together with others its price has been hit, by this client or *)
(* an earlier one, or the order waits to be decided on.  It relies on the  *)
(* id being known before any client can see the price.                     *)
(***************************************************************************)
OrdersAreDecided ==
    /\ OneCreditPerPrice
    /\ \A o \in ordered : o[2] \in hit \/ o \in runTogether \/ Waits(o[1], o[2])

(***************************************************************************)
(* When every reaction is prompt, a price is ordered only when it and the  *)
(* two broadcast before it rise or fall strictly, even by a client that    *)
(* joined later or, on a descriptor used before, gets every price twice.   *)
(***************************************************************************)
MomentumIsReal ==
    prompt => \A p \in ordered : p[2] >= 2 /\ Momentum(SubSeq(prices, p[2] - 1, p[2] + 1))
====
