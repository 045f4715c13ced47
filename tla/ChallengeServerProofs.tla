------------------------ MODULE ChallengeServerProofs ------------------------
(***************************************************************************)
(* The reference server, for any number of connections, challenges, names  *)
(* and answers: a client is sent each challenge once as long as no client  *)
(* has left, and if clients tag their answers the results file is the log  *)
(* of a fair contest, whoever leaves and whatever descriptors are reused.  *)
(*                                                                         *)
(* Neither is inductive.  The first needs that the broadcaster's loop      *)
(* finds every connection behind its own ClientInfo, and which ones it has *)
(* reached.  The second needs that the challenge current since Publish is  *)
(* newer than every message under way, so that an answer credited to it    *)
(* was computed for it and was stamped after it started; and, for the      *)
(* names, a bound on the messages one recv can find.                       *)
(***************************************************************************)
EXTENDS ChallengeServer, TLAPS

Steps == {"prepare", "publish", "lock", "send", "wait", "log"}
Underway == bcast.pc \in {"lock", "send", "wait", "log"}

Payloads == [cid : Nat, sum : Nat]
Messages == [cid : Int, answer : Int, to : Int]
HandlerSteps == {"none", "name", "recv", "stamped", "close", "ended"}
Handlers == [pc : HandlerSteps,
             name : Names \union {<<>>}, msg : Messages, now : Nat]

IsBroadcaster(b) ==
    b = [pc |-> b.pc, cid |-> b.cid, sum |-> b.sum, next |-> b.next, snapshot |-> b.snapshot,
         fastest |-> b.fastest]

IsChallenge(c) == c = [id |-> c.id, start |-> c.start, answers |-> c.answers]

IsList(s) == s \in Seq({s[i] : i \in DOMAIN s})

Types ==
    /\ clock \in Nat /\ leaves \in Nat
    /\ challengeId \in 1 .. MaxChallenges + 1
    /\ IsBroadcaster(bcast) /\ bcast.pc \in Steps /\ bcast.cid \in Nat /\ bcast.sum \in Nat
    /\ bcast.next \in Nat \ {0}
    /\ IsChallenge(current) /\ current.id \in Nat /\ current.start \in 0 .. clock
    /\ IsList(results)
    /\ handler \in [Conns -> Handlers]
    /\ inbox \in [Conns -> Seq(Payloads)] /\ outbox \in [Conns -> Seq(Messages)]

\* What the accept loop keeps of connections and descriptors.
Accepting ==
    /\ conns \in 0 .. MaxConns /\ registered \in 0 .. conns
    /\ fd \in [Conns -> 0 .. MaxConns] /\ \A k \in 1 .. conns : fd[k] \in Fds
    /\ owner \in [Fds -> 0 .. MaxConns]
    /\ up \in [Conns -> BOOLEAN]
    /\ bcast.pc = "send" => bcast.next <= registered + 1

\* Challenges are drawn, published and logged in the order of their ids.
RoundsInOrder ==
    /\ bcast.pc = "prepare" => current.id < challengeId
    /\ bcast.pc # "prepare" => bcast.cid = challengeId - 1 /\ bcast.cid >= 1
    /\ bcast.pc = "publish" => current.id < bcast.cid
    /\ Underway => current.id = bcast.cid
    /\ \A i \in DOMAIN results :
          /\ results[i].cid \in Nat /\ results[i].cid < challengeId
          /\ bcast.pc # "prepare" => results[i].cid < bcast.cid

SentBefore == \A k \in Conns : \A i \in 1 .. Len(inbox[k]) : inbox[k][i].cid \in 1 .. current.id

\* While nobody has left, each entry of clients leads to its own connection.
NobodyLeft ==
    leaves = 0 =>
        /\ \A k \in 1 .. conns : owner[fd[k]] = k /\ up[k]
        /\ \A k \in Conns : handler[k].pc # "close" /\ (k > conns => handler[k].pc = "none")

\* The round has yet to reach connection k.
Ahead(k) == bcast.pc = "lock" \/ (bcast.pc = "send" /\ bcast.next <= k)

Increasing(q) == \A i, j \in 1 .. Len(q) : i < j => q[i].cid < q[j].cid

SentOnce ==
    leaves = 0 =>
        \A k \in Conns :
            /\ Increasing(inbox[k])
            /\ Ahead(k) => \A i \in 1 .. Len(inbox[k]) : inbox[k][i].cid < bcast.cid

\* A tagged answer says what it was computed for.
Timely(m) == m.cid = m.to /\ m.to \in 1 .. current.id

AnswersInTime ==
    Tagged =>
        \A k \in Conns :
            /\ \A i \in 1 .. Len(outbox[k]) : Timely(outbox[k][i])
            /\ handler[k].pc = "stamped" =>
                  /\ Timely(handler[k].msg)
                  /\ handler[k].msg.to = current.id => handler[k].now >= current.start

\* The calls of send() so far, if each round made one per connection.
SendsEver ==
    CASE bcast.pc \in {"prepare", "wait", "log"} -> (challengeId - 1) * MaxConns
      [] bcast.pc \in {"publish", "lock"} -> (challengeId - 2) * MaxConns
      [] bcast.pc = "send" -> (challengeId - 2) * MaxConns + bcast.next - 1

Named ==
    \A k \in Conns :
        /\ Len(inbox[k]) + Len(outbox[k]) <= SendsEver
        /\ handler[k].pc \in {"recv", "stamped"} => handler[k].name \in Names

Inv ==
    /\ Types /\ Accepting /\ RoundsInOrder /\ SentBefore /\ NobodyLeft /\ SentOnce
    /\ AnswersInTime /\ Named

-----------------------------------------------------------------------------
(* Records and sequences.                                                  *)

Drawn(b, x, y, z) == [b EXCEPT !.pc = x, !.cid = y, !.sum = z]
Copied(b, x, y, z) == [b EXCEPT !.pc = x, !.snapshot = y, !.fastest = z]

LEMMA DrawnIs ==
    ASSUME NEW b, IsBroadcaster(b), NEW x, NEW y, NEW z
    PROVE  Drawn(b, x, y, z) = [pc |-> x, cid |-> y, sum |-> z, next |-> b.next,
                                snapshot |-> b.snapshot, fastest |-> b.fastest]
<1>1. PICK p, c, s, n, a, f :
          b = [pc |-> p, cid |-> c, sum |-> s, next |-> n, snapshot |-> a, fastest |-> f]
  BY DEF IsBroadcaster
<1> DEFINE e == [b EXCEPT !.pc = x]
           d == [e EXCEPT !.cid = y]
<1>2. e = [pc |-> x, cid |-> c, sum |-> s, next |-> n, snapshot |-> a, fastest |-> f]
  BY <1>1
<1>3. Drawn(b, x, y, z) = [d EXCEPT !.sum = z]
  BY Zenon DEF Drawn
<1> HIDE DEF e
<1>4. d = [pc |-> x, cid |-> y, sum |-> s, next |-> n, snapshot |-> a, fastest |-> f]
  BY <1>2
<1> HIDE DEF d
<1>5. [d EXCEPT !.sum = z] =
          [pc |-> x, cid |-> y, sum |-> z, next |-> n, snapshot |-> a, fastest |-> f]
  BY <1>4
<1>6. b.next = n /\ b.snapshot = a /\ b.fastest = f
  BY <1>1
<1> HIDE <1>1
<1> QED BY <1>3, <1>5, <1>6, Zenon

LEMMA CopiedIs ==
    ASSUME NEW b, IsBroadcaster(b), NEW x, NEW y, NEW z
    PROVE  Copied(b, x, y, z) = [pc |-> x, cid |-> b.cid, sum |-> b.sum, next |-> b.next,
                                 snapshot |-> y, fastest |-> z]
<1>1. PICK p, c, s, n, a, f :
          b = [pc |-> p, cid |-> c, sum |-> s, next |-> n, snapshot |-> a, fastest |-> f]
  BY DEF IsBroadcaster
<1> DEFINE e == [b EXCEPT !.pc = x]
           d == [e EXCEPT !.snapshot = y]
<1>2. e = [pc |-> x, cid |-> c, sum |-> s, next |-> n, snapshot |-> a, fastest |-> f]
  BY <1>1
<1>3. Copied(b, x, y, z) = [d EXCEPT !.fastest = z]
  BY Zenon DEF Copied
<1> HIDE DEF e
<1>4. d = [pc |-> x, cid |-> c, sum |-> s, next |-> n, snapshot |-> y, fastest |-> f]
  BY <1>2
<1> HIDE DEF d
<1>5. [d EXCEPT !.fastest = z] =
          [pc |-> x, cid |-> c, sum |-> s, next |-> n, snapshot |-> y, fastest |-> z]
  BY <1>4
<1>6. b.cid = c /\ b.sum = s /\ b.next = n
  BY <1>1
<1> HIDE <1>1
<1> QED BY <1>3, <1>5, <1>6, Zenon

LEMMA MovedIs ==
    ASSUME NEW b, IsBroadcaster(b), NEW x, NEW y
    PROVE  /\ [b EXCEPT !.pc = x] = [pc |-> x, cid |-> b.cid, sum |-> b.sum, next |-> b.next,
                                     snapshot |-> b.snapshot, fastest |-> b.fastest]
           /\ [b EXCEPT !.next = y] = [pc |-> b.pc, cid |-> b.cid, sum |-> b.sum, next |-> y,
                                       snapshot |-> b.snapshot, fastest |-> b.fastest]
           /\ [b EXCEPT !.pc = x, !.next = y] =
                  [pc |-> x, cid |-> b.cid, sum |-> b.sum, next |-> y,
                   snapshot |-> b.snapshot, fastest |-> b.fastest]
<1>1. PICK p, c, s, n, a, f :
          b = [pc |-> p, cid |-> c, sum |-> s, next |-> n, snapshot |-> a, fastest |-> f]
  BY DEF IsBroadcaster
<1> DEFINE e == [b EXCEPT !.pc = x]
<1>2. e = [pc |-> x, cid |-> c, sum |-> s, next |-> n, snapshot |-> a, fastest |-> f]
  BY <1>1
<1>3. [b EXCEPT !.next = y] =
          [pc |-> p, cid |-> c, sum |-> s, next |-> y, snapshot |-> a, fastest |-> f]
  BY <1>1
<1>4. [b EXCEPT !.pc = x, !.next = y] = [e EXCEPT !.next = y]
  BY Zenon
<1> HIDE DEF e
<1>5. [e EXCEPT !.next = y] =
          [pc |-> x, cid |-> c, sum |-> s, next |-> y, snapshot |-> a, fastest |-> f]
  BY <1>2
<1>6. b.pc = p /\ b.cid = c /\ b.sum = s /\ b.next = n /\ b.snapshot = a /\ b.fastest = f
  BY <1>1
<1> HIDE <1>1
<1> QED BY <1>2, <1>3, <1>4, <1>5, <1>6, Zenon DEF e

LEMMA ChallengeFields ==
    ASSUME NEW c, IsChallenge(c), NEW a, NEW d, d = [c EXCEPT !.answers = a]
    PROVE  IsChallenge(d) /\ d.id = c.id /\ d.start = c.start /\ d.answers = a
<1>1. PICK i, t, e : c = [id |-> i, start |-> t, answers |-> e]
  BY DEF IsChallenge
<1> QED BY <1>1 DEF IsChallenge

Stamped(h, k, x, m, t) == [h EXCEPT ![k].pc = x, ![k].msg = m, ![k].now = t]
Renamed(h, k, x, n) == [h EXCEPT ![k].pc = x, ![k].name = n]

LEMMA HandlerMoved ==
    ASSUME NEW h \in [Conns -> Handlers], NEW k \in Conns,
           NEW x \in HandlerSteps
    PROVE  LET r == [h EXCEPT ![k].pc = x]
           IN  /\ r \in [Conns -> Handlers]
               /\ r[k].pc = x /\ r[k].name = h[k].name /\ r[k].msg = h[k].msg /\ r[k].now = h[k].now
               /\ \A j \in Conns \ {k} : r[j] = h[j]
BY DEF Handlers

LEMMA HandlerRenamed ==
    ASSUME NEW h \in [Conns -> Handlers], NEW k \in Conns, NEW n \in Names,
           NEW x \in HandlerSteps, NEW r, r = Renamed(h, k, x, n)
    PROVE  /\ r \in [Conns -> Handlers]
           /\ r[k].pc = x /\ r[k].name = n
           /\ \A j \in Conns \ {k} : r[j] = h[j]
<1> DEFINE e == [h EXCEPT ![k].pc = x]
<1>1. r = [e EXCEPT ![k].name = n]
  BY Zenon DEF Renamed
<1>2. e \in [Conns -> Handlers] /\ e[k].pc = x /\ \A j \in Conns \ {k} : e[j] = h[j]
  BY DEF Handlers
<1> HIDE DEF e
<1>3. /\ r \in [Conns -> Handlers] /\ r[k].name = n /\ r[k].pc = e[k].pc
      /\ \A j \in Conns \ {k} : r[j] = e[j]
  BY <1>1, <1>2 DEF Handlers
<1> QED BY <1>2, <1>3

LEMMA HandlerStamped ==
    ASSUME NEW h \in [Conns -> Handlers], NEW k \in Conns, NEW m \in Messages, NEW t \in Nat,
           NEW x \in HandlerSteps, NEW r, r = Stamped(h, k, x, m, t)
    PROVE  /\ r \in [Conns -> Handlers]
           /\ r[k].pc = x /\ r[k].msg = m /\ r[k].now = t /\ r[k].name = h[k].name
           /\ \A j \in Conns \ {k} : r[j] = h[j]
<1> DEFINE e == [h EXCEPT ![k].pc = x]
           d == [e EXCEPT ![k].msg = m]
<1>1. r = [d EXCEPT ![k].now = t]
  BY Zenon DEF Stamped
<1>2. e \in [Conns -> Handlers] /\ e[k].pc = x /\ e[k].name = h[k].name
      /\ \A j \in Conns \ {k} : e[j] = h[j]
  BY DEF Handlers
<1> HIDE DEF e
<1>3. d \in [Conns -> Handlers] /\ d[k].pc = x /\ d[k].name = h[k].name /\ d[k].msg = m
      /\ \A j \in Conns \ {k} : d[j] = h[j]
  BY <1>2 DEF Handlers
<1> HIDE DEF d
<1>4. /\ r \in [Conns -> Handlers] /\ r[k].now = t
      /\ r[k].pc = d[k].pc /\ r[k].name = d[k].name /\ r[k].msg = d[k].msg
      /\ \A j \in Conns \ {k} : r[j] = d[j]
  BY <1>1, <1>3 DEF Handlers
<1> QED BY <1>3, <1>4

LEMMA ListFacts ==
    ASSUME NEW s, IsList(s)
    PROVE  Len(s) \in Nat /\ DOMAIN s = 1 .. Len(s)
BY DEF IsList

LEMMA ListAppended ==
    ASSUME NEW s, IsList(s), NEW e
    PROVE  /\ IsList(Append(s, e))
           /\ Len(Append(s, e)) = Len(s) + 1
           /\ Append(s, e)[Len(s) + 1] = e
           /\ \A i \in 1 .. Len(s) : Append(s, e)[i] = s[i]
<1> DEFINE S == {s[i] : i \in DOMAIN s} \union {e}
           t == Append(s, e)
<1>1. s \in Seq(S) /\ e \in S
  BY ListFacts DEF IsList
<1>2. t \in Seq(S) /\ Len(t) = Len(s) + 1 /\ t[Len(s) + 1] = e
      /\ \A i \in 1 .. Len(s) : t[i] = s[i]
  <2> HIDE DEF S
  <2> QED BY <1>1
<1>3. Len(t) \in Nat /\ t \in [1 .. Len(t) -> S]
  <2> HIDE DEF S, t
  <2> QED BY <1>2
<1>4. IsList(t)
  <2> HIDE DEF S, t
  <2>1. t \in [1 .. Len(t) -> {t[i] : i \in DOMAIN t}]
    BY <1>3
  <2> QED BY <2>1, <1>3 DEF IsList
<1> QED BY <1>2, <1>4

LEMMA AppendFacts ==
    ASSUME NEW S, NEW q \in Seq(S), NEW e \in S
    PROVE  /\ Append(q, e) \in Seq(S) /\ Len(Append(q, e)) = Len(q) + 1 /\ Len(q) \in Nat
           /\ Append(q, e)[Len(q) + 1] = e
           /\ \A i \in 1 .. Len(q) : Append(q, e)[i] = q[i] /\ q[i] \in S
OBVIOUS

LEMMA TailFacts ==
    ASSUME NEW S, NEW q \in Seq(S), q # <<>>
    PROVE  /\ Head(q) = q[1] /\ q[1] \in S /\ Len(q) \in Nat \ {0}
           /\ Tail(q) \in Seq(S) /\ Len(Tail(q)) = Len(q) - 1
           /\ \A i \in 1 .. Len(Tail(q)) : Tail(q)[i] = q[i + 1]
OBVIOUS

LEMMA DropFacts ==
    ASSUME NEW S, NEW q \in Seq(S), NEW n \in 0 .. Len(q)
    PROVE  /\ Drop(q, n) \in Seq(S) /\ Len(Drop(q, n)) = Len(q) - n /\ Len(q) \in Nat
           /\ \A i \in 1 .. Len(Drop(q, n)) : Drop(q, n)[i] = q[i + n] /\ i + n \in 1 .. Len(q)
BY DEF Drop

-----------------------------------------------------------------------------
(* The invariant holds at first.                                           *)

LEMMA InitOK == Init => Inv
<1> SUFFICES ASSUME Init PROVE Inv
  OBVIOUS
<1> USE ConstantsAssumption DEF Init, Conns, Fds
<1>1. Types
  <2>1. inbox \in [Conns -> Seq(Payloads)] /\ outbox \in [Conns -> Seq(Messages)]
    OBVIOUS
  <2>2. handler \in [Conns -> Handlers]
    BY DEF Handlers, HandlerSteps, Idle, NoMessage, Messages, NoCid, Junk
  <2>3. IsList(results)
    BY DEF IsList
  <2>4. IsBroadcaster(bcast) /\ IsChallenge(current)
    BY DEF IsBroadcaster, IsChallenge
  <2> QED BY <2>1, <2>2, <2>3, <2>4 DEF Types, Steps
<1>2. Accepting /\ RoundsInOrder
  BY DEF Accepting, RoundsInOrder, Underway
<1>3. SentBefore /\ NobodyLeft
  BY DEF SentBefore, NobodyLeft, Idle
<1>4. SentOnce
  BY DEF SentOnce, Ahead, Increasing
<1>5. AnswersInTime
  BY DEF AnswersInTime, Idle
<1>6. Named
  BY DEF Named, SendsEver, Idle
<1> QED BY <1>1, <1>2, <1>3, <1>4, <1>5, <1>6 DEF Inv

-----------------------------------------------------------------------------
(* What each step changes, field by field.                                 *)

LEMMA Preparing ==
    ASSUME Types, NEW s, Prepare(s)
    PROVE  /\ bcast.pc = "prepare" /\ challengeId <= MaxChallenges /\ challengeId' = challengeId + 1
           /\ IsBroadcaster(bcast') /\ bcast'.pc = "publish" /\ bcast'.cid = challengeId
           /\ bcast'.sum = s /\ bcast'.next = bcast.next
           /\ UNCHANGED <<clock, current, results, accepts, owner, handler, clientVars>>
<1>1. bcast' = [pc |-> "publish", cid |-> challengeId, sum |-> s, next |-> bcast.next,
                snapshot |-> bcast.snapshot, fastest |-> bcast.fastest]
  <2>1. IsBroadcaster(bcast) =>
       Drawn(bcast, "publish", challengeId, s) =
           [pc |-> "publish", cid |-> challengeId, sum |-> s, next |-> bcast.next, snapshot |-> bcast.snapshot, fastest |-> bcast.fastest]
    BY DrawnIs, Zenon
  <2>2. bcast' = [bcast EXCEPT !.pc = "publish", !.cid = challengeId, !.sum = s]
    BY DEF Prepare
  <2>3. IsBroadcaster(bcast)
    BY DEF Types
  <2> QED BY <2>1, <2>2, <2>3, Zenon DEF Drawn
<1>2. IsBroadcaster(bcast')
  BY <1>1 DEF IsBroadcaster
<1> QED BY <1>1, <1>2 DEF Prepare, NextId

LEMMA Publishing ==
    ASSUME Types, Publish
    PROVE  /\ bcast.pc = "publish" /\ current' = Published(bcast.cid, clock)
           /\ IsBroadcaster(bcast') /\ bcast'.pc = "lock" /\ bcast'.cid = bcast.cid
           /\ bcast'.sum = bcast.sum /\ bcast'.next = bcast.next
           /\ UNCHANGED <<clock, challengeId, results, accepts, owner, handler, clientVars>>
<1>1. bcast' = [pc |-> "lock", cid |-> bcast.cid, sum |-> bcast.sum, next |-> bcast.next,
                snapshot |-> bcast.snapshot, fastest |-> bcast.fastest]
  BY MovedIs DEF Publish, Types
<1>2. IsBroadcaster(bcast')
  BY <1>1 DEF IsBroadcaster
<1> QED BY <1>1, <1>2 DEF Publish

LEMMA Locking ==
    ASSUME Types, Lock
    PROVE  /\ bcast.pc = "lock"
           /\ IsBroadcaster(bcast') /\ bcast'.pc = "send" /\ bcast'.cid = bcast.cid
           /\ bcast'.sum = bcast.sum /\ bcast'.next = 1
           /\ UNCHANGED <<clock, challengeId, current, results, accepts, owner, handler, clientVars>>
<1>1. bcast' = [pc |-> "send", cid |-> bcast.cid, sum |-> bcast.sum, next |-> 1,
                snapshot |-> bcast.snapshot, fastest |-> bcast.fastest]
  BY MovedIs DEF Lock, Types
<1>2. IsBroadcaster(bcast')
  BY <1>1 DEF IsBroadcaster
<1> QED BY <1>1, <1>2 DEF Lock

LEMMA Sending ==
    ASSUME Types, Send
    PROVE  /\ bcast.pc = "send" /\ bcast.next <= registered
           /\ IsBroadcaster(bcast') /\ bcast'.pc = "send" /\ bcast'.cid = bcast.cid
           /\ bcast'.sum = bcast.sum /\ bcast'.next = bcast.next + 1
           /\ LET k == owner[fd[bcast.next]]
              IN  inbox' = IF k # 0 /\ up[k]
                           THEN [inbox EXCEPT ![k] = Append(@, [cid |-> bcast.cid, sum |-> bcast.sum])]
                           ELSE inbox
           /\ UNCHANGED <<clock, challengeId, current, results, accepts, owner, handler,
                          up, outbox, leaves>>
<1>1. bcast' = [pc |-> bcast.pc, cid |-> bcast.cid, sum |-> bcast.sum, next |-> bcast.next + 1,
                snapshot |-> bcast.snapshot, fastest |-> bcast.fastest]
  BY MovedIs DEF Send, Types
<1>2. IsBroadcaster(bcast')
  BY <1>1 DEF IsBroadcaster
<1> QED BY <1>1, <1>2 DEF Send

LEMMA Waiting ==
    ASSUME Types, Unlock \/ Snapshot
    PROVE  /\ \/ bcast.pc = "send" /\ bcast.next > registered /\ bcast'.pc = "wait"
              \/ bcast.pc = "wait" /\ bcast'.pc = "log" /\ bcast'.snapshot = current.answers
           /\ IsBroadcaster(bcast') /\ bcast'.cid = bcast.cid
           /\ bcast'.sum = bcast.sum /\ bcast'.next = bcast.next
           /\ UNCHANGED <<clock, challengeId, current, results, accepts, owner, handler, clientVars>>
<1>1. CASE Unlock
  <2>1. bcast' = [pc |-> "wait", cid |-> bcast.cid, sum |-> bcast.sum, next |-> bcast.next,
                  snapshot |-> bcast.snapshot, fastest |-> bcast.fastest]
    BY <1>1, MovedIs DEF Unlock, Types
  <2>2. IsBroadcaster(bcast')
    BY <2>1 DEF IsBroadcaster
  <2> QED BY <1>1, <2>1, <2>2 DEF Unlock
<1>2. CASE Snapshot
  <2>1. bcast' = [pc |-> "log", cid |-> bcast.cid, sum |-> bcast.sum, next |-> bcast.next,
                  snapshot |-> current.answers, fastest |-> fastest]
    <3>1. IsBroadcaster(bcast) =>
         Copied(bcast, "log", current.answers, fastest) =
             [pc |-> "log", cid |-> bcast.cid, sum |-> bcast.sum, next |-> bcast.next, snapshot |-> current.answers, fastest |-> fastest]
      BY CopiedIs, Zenon
    <3>2. bcast' = [bcast EXCEPT !.pc = "log", !.snapshot = current.answers, !.fastest = fastest]
      BY <1>2 DEF Snapshot
    <3>3. IsBroadcaster(bcast)
      BY DEF Types
    <3> QED BY <3>1, <3>2, <3>3, Zenon DEF Copied
  <2>2. IsBroadcaster(bcast')
    BY <2>1 DEF IsBroadcaster
  <2> QED BY <1>2, <2>1, <2>2 DEF Snapshot
<1> QED BY <1>1, <1>2

LEMMA Logging ==
    ASSUME Types, Log
    PROVE  /\ bcast.pc = "log"
           /\ IsBroadcaster(bcast') /\ bcast'.pc = "prepare" /\ bcast'.cid = bcast.cid
           /\ bcast'.sum = bcast.sum /\ bcast'.next = bcast.next
           /\ LET won == Winners(bcast.snapshot, bcast.sum)
              IN  \E w \in IF won = {} THEN {<<>>} ELSE won : results' = Append(results, LogEntry(w))
           /\ UNCHANGED <<clock, challengeId, current, accepts, owner, handler, clientVars>>
<1>1. bcast' = [pc |-> "prepare", cid |-> bcast.cid, sum |-> bcast.sum, next |-> bcast.next,
                snapshot |-> NoAnswers, fastest |-> None]
  <2>1. IsBroadcaster(bcast) =>
       Copied(bcast, "prepare", NoAnswers, None) =
           [pc |-> "prepare", cid |-> bcast.cid, sum |-> bcast.sum, next |-> bcast.next, snapshot |-> NoAnswers, fastest |-> None]
    BY CopiedIs, Zenon
  <2>2. bcast' = [bcast EXCEPT !.pc = "prepare", !.snapshot = NoAnswers, !.fastest = None]
    BY DEF Log
  <2>3. IsBroadcaster(bcast)
    BY DEF Types
  <2> QED BY <2>1, <2>2, <2>3, Zenon DEF Copied
<1>2. IsBroadcaster(bcast')
  BY <1>1 DEF IsBroadcaster
<1> QED BY <1>1, <1>2 DEF Log

LEMMA AtMost ==
    ASSUME NEW a \in Nat, NEW b \in Nat, NEW s \in Int, NEW t \in Int, a + b <= s, s <= t
    PROVE  a + b <= t
OBVIOUS

LEMMA OneMore ==
    ASSUME NEW a \in Nat, NEW b \in Nat, NEW s \in Int, a + b <= s
    PROVE  (a + 1) + b <= s + 1
OBVIOUS

LEMMA Fewer ==
    ASSUME NEW a \in Nat, NEW b \in Nat, NEW x \in Nat, NEW y \in Nat, NEW s \in Int,
           a + b <= s, x <= a, y <= b
    PROVE  x + y <= s
OBVIOUS

LEMMA Within ==
    ASSUME NEW a \in Nat, NEW b \in Nat, NEW s \in Int, NEW t \in Int, a + b <= s, s <= t,
           NEW n \in 0 .. b
    PROVE  n \in 0 .. t
OBVIOUS

LEMMA SendsEverBounded ==
    ASSUME Inv
    PROVE  SendsEver \in Int /\ SendsEver <= MaxChallenges * MaxConns
<1>1. MaxConns \in Nat /\ MaxChallenges \in Nat /\ challengeId \in 1 .. MaxChallenges + 1
  BY ConstantsAssumption DEF Inv, Types
<1> DEFINE x == (challengeId - 1) * MaxConns
           y == (challengeId - 2) * MaxConns
           top == MaxChallenges * MaxConns
<1>3. /\ x \in Int /\ y \in Int /\ top \in Int /\ y + MaxConns = x
      /\ x <= top
  <2>1. \A a, b \in Int : a <= b => a * MaxConns <= b * MaxConns
    BY <1>1
  <2> QED BY <1>1, <2>1
<1>4. /\ bcast.pc \in Steps /\ bcast.next \in Nat
      /\ bcast.pc = "send" => bcast.next - 1 <= MaxConns
  BY <1>1 DEF Inv, Types, Accepting
<1>5. SendsEver \in Int /\ SendsEver <= top
  <2>1. CASE bcast.pc \in {"prepare", "wait", "log"}
    <3>1. SendsEver = x
      BY <2>1 DEF SendsEver
    <3> HIDE DEF x, y, top
    <3> QED BY <1>3, <3>1
  <2>2. CASE bcast.pc \in {"publish", "lock"}
    <3>1. SendsEver = y
      BY <2>2 DEF SendsEver
    <3> HIDE DEF x, y, top
    <3> QED BY <1>1, <1>3, <3>1
  <2>3. CASE bcast.pc = "send"
    <3>1. SendsEver = y + bcast.next - 1
      BY <2>3 DEF SendsEver
    <3> HIDE DEF x, y, top
    <3> QED BY <1>1, <1>3, <1>4, <2>3, <3>1
  <2> QED BY <1>4, <2>1, <2>2, <2>3 DEF Steps
<1> QED BY <1>5

LEMMA SendsEverInt ==
    ASSUME Inv
    PROVE  SendsEver \in Int
BY SendsEverBounded

\* The name is drawn from the names there are, because of what can be under way.
LEMMA NameInRange ==
    ASSUME Inv, NEW k \in Conns, NEW n \in 0 .. Len(outbox[k])
    PROVE  <<TeamOf[k], n>> \in Names
<1> DEFINE top == MaxChallenges * MaxConns
<1>1. top \in Int
  BY ConstantsAssumption
<1>2. /\ Len(inbox[k]) \in Nat /\ Len(outbox[k]) \in Nat
      /\ Len(inbox[k]) + Len(outbox[k]) <= SendsEver
  BY DEF Inv, Named, Types
<1>3. SendsEver \in Int /\ SendsEver <= top
  BY SendsEverBounded
<1> HIDE DEF top
<1>4. n \in 0 .. top
  BY <1>1, <1>2, <1>3, Within
<1> QED BY <1>4 DEF Names, top

\* A handler's step is its own; what it reads is gone from the outbox.
LEMMA Handling ==
    ASSUME Inv, NEW k \in Conns, Handler(k)
    PROVE  /\ handler' \in [Conns -> Handlers] /\ outbox' \in [Conns -> Seq(Messages)]
           /\ \A j \in Conns \ {k} : handler'[j] = handler[j] /\ outbox'[j] = outbox[j]
           /\ Len(outbox'[k]) <= Len(outbox[k])
           /\ \A i \in 1 .. Len(outbox'[k]) : \E j \in 1 .. Len(outbox[k]) : outbox'[k][i] = outbox[k][j]
           /\ handler[k].pc # "none"
           /\ handler'[k].pc = "close" => ~up[k]
           /\ handler'[k].pc \in {"recv", "stamped"} => handler'[k].name \in Names
           /\ handler'[k].pc = "stamped" =>
                 /\ handler'[k].now = clock /\ 1 \in 1 .. Len(outbox[k])
                 /\ Tagged => handler'[k].msg = outbox[k][1]
           /\ IsChallenge(current') /\ current'.id = current.id /\ current'.start = current.start
           /\ owner' = owner \/ (handler[k].pc = "close" /\ owner' = [owner EXCEPT ![fd[k]] = 0])
           /\ UNCHANGED <<clock, challengeId, bcast, results, accepts, up, inbox, leaves>>
<1>0. /\ outbox \in [Conns -> Seq(Messages)] /\ outbox[k] \in Seq(Messages)
      /\ Len(outbox[k]) \in Nat
      /\ handler \in [Conns -> Handlers] /\ handler[k] \in Handlers
      /\ IsChallenge(current) /\ clock \in Nat
      /\ handler[k].pc \in {"recv", "stamped"} => handler[k].name \in Names
      /\ handler[k].name \in Names \union {<<>>}
  BY DEF Inv, Types, Named, Handlers
<1>1. CASE RecvName(k)
  <2>1. PICK n \in 0 .. Len(outbox[k]) :
            /\ handler' = Renamed(handler, k, "recv", <<TeamOf[k], n>>)
            /\ outbox' = [outbox EXCEPT ![k] = Drop(@, n)]
    BY <1>1 DEF RecvName, Renamed
  <2>2. <<TeamOf[k], n>> \in Names /\ "recv" \in HandlerSteps
    BY NameInRange DEF HandlerSteps
  <2>3. /\ handler' \in [Conns -> Handlers]
        /\ handler'[k].pc = "recv" /\ handler'[k].name \in Names
        /\ \A j \in Conns \ {k} : handler'[j] = handler[j]
    <3>1. PICK h, r, w : h = handler /\ r = handler' /\ w = <<TeamOf[k], n>>
      OBVIOUS
    <3>2. r = Renamed(h, k, "recv", w) /\ h \in [Conns -> Handlers] /\ w \in Names
      BY <1>0, <2>1, <2>2, <3>1, Zenon
    <3>3. /\ r \in [Conns -> Handlers]
          /\ r[k].pc = "recv" /\ r[k].name = w
          /\ \A j \in Conns \ {k} : r[j] = h[j]
      BY <2>2, <3>2, HandlerRenamed
    <3> QED BY <3>1, <3>2, <3>3
  <2>4. /\ outbox' \in [Conns -> Seq(Messages)] /\ outbox'[k] = Drop(outbox[k], n)
        /\ \A j \in Conns \ {k} : outbox'[j] = outbox[j]
        /\ Len(outbox'[k]) <= Len(outbox[k])
        /\ \A i \in 1 .. Len(outbox'[k]) : \E j \in 1 .. Len(outbox[k]) : outbox'[k][i] = outbox[k][j]
    BY <1>0, <2>1, DropFacts
  <2>5. /\ handler[k].pc = "name"
        /\ UNCHANGED <<clock, challengeId, bcast, results, accepts, up, inbox, leaves, current, owner>>
    BY <1>1 DEF RecvName, server, accepts
  <2> QED BY <1>0, <2>3, <2>4, <2>5
<1>2. CASE RecvAnswer(k)
  <2>0. PICK n \in 1 .. Len(outbox[k]) :
            /\ \E m \in Parsed(outbox[k], n) : handler' = Stamped(handler, k, "stamped", m, clock)
            /\ outbox' = [outbox EXCEPT ![k] = Drop(@, n)]
    BY <1>2 DEF RecvAnswer, Stamped
  <2>1. PICK m \in Parsed(outbox[k], n) : handler' = Stamped(handler, k, "stamped", m, clock)
    BY <2>0
  <2>2. "stamped" \in HandlerSteps /\ m \in Messages /\ (Tagged => m = outbox[k][1])
    <3>1. outbox[k][1] \in Messages
      BY <1>0
    <3>2. \A x \in Checksums \union {Junk} : x \in Int
      BY ConstantsAssumption DEF Junk
    <3>3. \A x \in Int : [outbox[k][1] EXCEPT !.answer = x] \in Messages
      BY <3>1 DEF Messages
    <3>4. Tagged => m = outbox[k][1]
      BY <2>1 DEF Parsed
    <3>5. m = outbox[k][1] \/ \E x \in Int : m = [outbox[k][1] EXCEPT !.answer = x]
      BY <2>1, <3>2 DEF Parsed
    <3> QED BY <3>1, <3>3, <3>4, <3>5 DEF HandlerSteps
  <2>3. /\ handler' \in [Conns -> Handlers]
        /\ handler'[k].pc = "stamped" /\ handler'[k].name = handler[k].name
        /\ handler'[k].msg = m /\ handler'[k].now = clock
        /\ \A j \in Conns \ {k} : handler'[j] = handler[j]
    <3>1. PICK h, r, t : h = handler /\ r = handler' /\ t = clock
      OBVIOUS
    <3>2. r = Stamped(h, k, "stamped", m, t) /\ h \in [Conns -> Handlers] /\ t \in Nat
      BY <1>0, <2>1, <3>1, Zenon
    <3>3. /\ r \in [Conns -> Handlers]
          /\ r[k].pc = "stamped" /\ r[k].msg = m /\ r[k].now = t /\ r[k].name = h[k].name
          /\ \A j \in Conns \ {k} : r[j] = h[j]
      BY <2>2, <3>2, HandlerStamped
    <3> QED BY <3>1, <3>3
  <2>4. /\ outbox' \in [Conns -> Seq(Messages)] /\ outbox'[k] = Drop(outbox[k], n)
        /\ \A j \in Conns \ {k} : outbox'[j] = outbox[j]
        /\ Len(outbox'[k]) <= Len(outbox[k])
        /\ \A i \in 1 .. Len(outbox'[k]) : \E j \in 1 .. Len(outbox[k]) : outbox'[k][i] = outbox[k][j]
    <3>1. n \in 0 .. Len(outbox[k])
      BY <1>0, <2>0
    <3>2. outbox'[k] = Drop(outbox[k], n) /\ \A j \in Conns \ {k} : outbox'[j] = outbox[j]
      BY <1>0, <2>0
    <3>3. Drop(outbox[k], n) \in Seq(Messages) /\ Len(Drop(outbox[k], n)) = Len(outbox[k]) - n
          /\ \A i \in 1 .. Len(Drop(outbox[k], n)) :
                Drop(outbox[k], n)[i] = outbox[k][i + n] /\ i + n \in 1 .. Len(outbox[k])
      BY <1>0, <3>1, DropFacts
    <3>4. outbox' \in [Conns -> Seq(Messages)]
      BY <1>0, <2>0, <3>3
    <3>5. Len(outbox[k]) - n <= Len(outbox[k])
      BY <1>0, <3>1
    <3> QED BY <3>2, <3>3, <3>4, <3>5
  <2>5. /\ handler[k].pc = "recv"
        /\ UNCHANGED <<clock, challengeId, bcast, results, accepts, up, inbox, leaves, current, owner>>
    BY <1>2 DEF RecvAnswer, server, accepts
  <2>6. 1 \in 1 .. Len(outbox[k])
    BY <1>0, <2>0
  <2> QED BY <1>0, <2>2, <2>3, <2>4, <2>5, <2>6
<1>3. CASE Credit(k)
  <2>1. handler' = Stamped(handler, k, "recv", NoMessage, 0)
    BY <1>3 DEF Credit, Stamped
  <2>2. "recv" \in HandlerSteps /\ NoMessage \in Messages /\ 0 \in Nat
    BY DEF HandlerSteps, NoMessage, Messages, NoCid, Junk
  <2>3. /\ handler' \in [Conns -> Handlers]
        /\ handler'[k].pc = "recv" /\ handler'[k].name = handler[k].name
        /\ \A j \in Conns \ {k} : handler'[j] = handler[j]
    <3>1. PICK h, r : h = handler /\ r = handler'
      OBVIOUS
    <3>2. r = Stamped(h, k, "recv", NoMessage, 0) /\ h \in [Conns -> Handlers]
      BY <1>0, <2>1, <3>1, Zenon
    <3>3. /\ r \in [Conns -> Handlers]
          /\ r[k].pc = "recv" /\ r[k].msg = NoMessage /\ r[k].now = 0 /\ r[k].name = h[k].name
          /\ \A j \in Conns \ {k} : r[j] = h[j]
      BY <2>2, <3>2, HandlerStamped
    <3> QED BY <3>1, <3>3
  <2>4. /\ handler[k].pc = "stamped"
        /\ UNCHANGED <<clock, challengeId, bcast, results, accepts, up, inbox, outbox, leaves, owner>>
    BY <1>3 DEF Credit, accepts, clientVars
  <2>5. IsChallenge(current') /\ current'.id = current.id /\ current'.start = current.start
    <3>1. current' = current \/ \E a : current' = [current EXCEPT !.answers = a]
      BY <1>3 DEF Credit
    <3>2. ASSUME NEW a, current' = [current EXCEPT !.answers = a]
          PROVE  IsChallenge(current') /\ current'.id = current.id /\ current'.start = current.start
      <4>1. PICK c, d : c = current /\ d = current'
        OBVIOUS
      <4>2. IsChallenge(c) /\ d = [c EXCEPT !.answers = a]
        BY <1>0, <3>2, <4>1
      <4>3. IsChallenge(d) /\ d.id = c.id /\ d.start = c.start
        BY <4>2, ChallengeFields
      <4> QED BY <4>1, <4>3
    <3> QED BY <1>0, <3>1, <3>2
  <2> QED BY <1>0, <2>3, <2>4, <2>5
<1>4. CASE Disconnected(k)
  <2>1. /\ handler' \in [Conns -> Handlers]
        /\ handler'[k].pc = "close"
        /\ \A j \in Conns \ {k} : handler'[j] = handler[j]
    <3>1. "close" \in HandlerSteps
      BY DEF HandlerSteps
    <3>2. handler' = [handler EXCEPT ![k].pc = "close"]
      BY <1>4 DEF Disconnected
    <3> QED BY <1>0, <3>1, <3>2, HandlerMoved
  <2>2. /\ outbox' \in [Conns -> Seq(Messages)] /\ outbox'[k] = <<>>
        /\ \A j \in Conns \ {k} : outbox'[j] = outbox[j]
    BY <1>0, <1>4 DEF Disconnected
  <2>3. /\ handler[k].pc # "none" /\ ~up[k]
        /\ UNCHANGED <<clock, challengeId, bcast, results, accepts, up, inbox, leaves, current, owner>>
    BY <1>4 DEF Disconnected, server, accepts
  <2> QED BY <1>0, <2>1, <2>2, <2>3
<1>5. CASE Close(k)
  <2>1. /\ handler' \in [Conns -> Handlers]
        /\ handler'[k].pc = "ended"
        /\ \A j \in Conns \ {k} : handler'[j] = handler[j]
    <3>1. "ended" \in HandlerSteps
      BY DEF HandlerSteps
    <3>2. handler' = [handler EXCEPT ![k].pc = "ended"]
      BY <1>5 DEF Close
    <3> QED BY <1>0, <3>1, <3>2, HandlerMoved
  <2>2. /\ handler[k].pc = "close" /\ owner' = [owner EXCEPT ![fd[k]] = 0]
        /\ UNCHANGED <<clock, challengeId, bcast, results, accepts, up, inbox, outbox, leaves, current>>
    BY <1>5 DEF Close, server, accepts, clientVars
  <2> QED BY <1>0, <2>1, <2>2
<1> QED BY <1>1, <1>2, <1>3, <1>4, <1>5 DEF Handler

-----------------------------------------------------------------------------
(* Every step keeps the invariant.                                         *)

LEMMA Frames ==
    ASSUME Inv
    PROVE  /\ UNCHANGED <<conns, registered, fd, owner, up, bcast>> => Accepting'
           /\ UNCHANGED <<bcast, challengeId, current, results>> => RoundsInOrder'
           /\ UNCHANGED <<inbox, current>> => SentBefore'
           /\ UNCHANGED <<leaves, conns, owner, fd, up, handler>> => NobodyLeft'
           /\ UNCHANGED <<leaves, inbox, bcast>> => SentOnce'
           /\ UNCHANGED <<outbox, handler, current>> => AnswersInTime'
           /\ UNCHANGED <<inbox, outbox, handler, bcast, challengeId>> => Named'
<1>1. UNCHANGED <<conns, registered, fd, owner, up, bcast>> => Accepting'
  BY DEF Inv, Accepting
<1>2. UNCHANGED <<bcast, challengeId, current, results>> => RoundsInOrder'
  BY DEF Inv, RoundsInOrder, Underway
<1>3. UNCHANGED <<inbox, current>> => SentBefore'
  BY DEF Inv, SentBefore
<1>4. UNCHANGED <<leaves, conns, owner, fd, up, handler>> => NobodyLeft'
  BY DEF Inv, NobodyLeft
<1>5. UNCHANGED <<leaves, inbox, bcast>> => SentOnce'
  BY DEF Inv, SentOnce, Ahead
<1>6. UNCHANGED <<outbox, handler, current>> => AnswersInTime'
  BY DEF Inv, AnswersInTime, Timely
<1>7. UNCHANGED <<inbox, outbox, handler, bcast, challengeId>> => Named'
  BY DEF Inv, Named, SendsEver
<1> QED BY <1>1, <1>2, <1>3, <1>4, <1>5, <1>6, <1>7

LEMMA TickOK == ASSUME Inv, Tick PROVE Inv'
<1>1. UNCHANGED <<server, accepts, owner, handler, clientVars>> /\ clock' = clock + 1
  BY DEF Tick
<1>2. Types'
  BY <1>1 DEF Inv, Types, server, clientVars
<1> QED BY <1>1, <1>2, Frames DEF Inv, server, accepts, clientVars

LEMMA AcceptOK ==
    ASSUME Inv, NEW k \in Conns, NEW f \in Fds, Accept(k, f)
    PROVE  Inv'
<1>1. /\ k = conns + 1 /\ registered = conns /\ owner[f] = 0 /\ conns' = k
      /\ fd' = [fd EXCEPT ![k] = f] /\ owner' = [owner EXCEPT ![f] = k]
      /\ up' = [up EXCEPT ![k] = TRUE]
      /\ UNCHANGED <<clock, challengeId, current, bcast, results, registered, handler, inbox,
                     outbox, leaves>>
  BY DEF Accept, LowestFree, server
<1>2. /\ conns \in Nat /\ MaxConns \in Nat /\ k \in 1 .. MaxConns /\ f \in 1 .. MaxConns
      /\ fd \in [Conns -> 0 .. MaxConns] /\ owner \in [Fds -> 0 .. MaxConns]
      /\ up \in [Conns -> BOOLEAN] /\ leaves \in Nat
      /\ \A j \in 1 .. conns : j \in Conns /\ fd[j] \in Fds
  <2>1. Types /\ Accepting
    BY DEF Inv
  <2>2. conns \in Nat /\ MaxConns \in Nat /\ conns <= MaxConns
    BY <2>1, ConstantsAssumption DEF Accepting
  <2>3. /\ fd \in [Conns -> 0 .. MaxConns] /\ owner \in [Fds -> 0 .. MaxConns]
        /\ up \in [Conns -> BOOLEAN] /\ leaves \in Nat
        /\ \A j \in 1 .. conns : fd[j] \in Fds
    BY <2>1 DEF Types, Accepting
  <2> QED BY <2>2, <2>3 DEF Conns, Fds
<1>3. /\ fd'[k] = f /\ owner'[f] = k /\ up'[k] = TRUE
      /\ \A j \in Conns \ {k} : fd'[j] = fd[j] /\ up'[j] = up[j]
      /\ \A g \in Fds \ {f} : owner'[g] = owner[g]
  BY <1>1, <1>2
<1>4. Types'
  BY <1>1 DEF Inv, Types
<1>5. Accepting'
  <2>1. /\ fd' \in [Conns -> 0 .. MaxConns] /\ owner' \in [Fds -> 0 .. MaxConns]
        /\ up' \in [Conns -> BOOLEAN]
    BY <1>1, <1>2
  <2>2. \A j \in 1 .. conns' : fd'[j] \in Fds
    BY <1>1, <1>2, <1>3
  <2> QED BY <1>1, <1>2, <2>1, <2>2 DEF Inv, Accepting
<1>6. NobodyLeft'
  <2> SUFFICES ASSUME leaves = 0 PROVE NobodyLeft'
    BY <1>1 DEF NobodyLeft
  <2>1. /\ \A j \in 1 .. conns : owner[fd[j]] = j /\ up[j]
        /\ \A j \in Conns : handler[j].pc # "close" /\ (j > conns => handler[j].pc = "none")
    BY DEF Inv, NobodyLeft
  <2>2. ASSUME NEW j \in 1 .. conns' PROVE owner'[fd'[j]] = j /\ up'[j]
    <3>1. CASE j = k
      BY <1>3, <3>1
    <3>2. CASE j # k
      <4>1. j \in 1 .. conns /\ j # 0
        BY <1>1, <1>2, <3>2
      <4>2. fd[j] # f
        BY <1>1, <2>1, <4>1
      <4> QED BY <1>2, <1>3, <2>1, <3>2, <4>1, <4>2
    <3> QED BY <3>1, <3>2
  <2>3. \A j \in Conns : handler'[j].pc # "close" /\ (j > conns' => handler'[j].pc = "none")
    <3>1. \A j \in Conns : j > conns' => j > conns
      BY <1>1, <1>2 DEF Conns
    <3> QED BY <1>1, <2>1, <3>1
  <2> QED BY <2>2, <2>3 DEF NobodyLeft
<1> QED BY <1>1, <1>4, <1>5, <1>6, Frames DEF Inv

LEMMA RegisterOK == ASSUME Inv, Register PROVE Inv'
<1>1. /\ registered < conns /\ bcast.pc # "send" /\ registered' = conns
      /\ handler' = [handler EXCEPT ![conns].pc = "name"]
      /\ UNCHANGED <<clock, challengeId, current, bcast, results, conns, fd, owner, up, inbox,
                     outbox, leaves>>
  BY DEF Register, ClientsLocked, server, clientVars
<1>2. conns \in Nat /\ conns \in Conns /\ registered \in Nat /\ handler \in [Conns -> Handlers]
  BY <1>1, ConstantsAssumption DEF Inv, Types, Accepting, Conns
<1>3. /\ handler' \in [Conns -> Handlers]
      /\ handler'[conns].pc = "name" /\ \A j \in Conns \ {conns} : handler'[j] = handler[j]
  <2>1. "name" \in HandlerSteps
    BY DEF HandlerSteps
  <2> QED BY <1>1, <1>2, <2>1, HandlerMoved
<1>4. Types'
  BY <1>1, <1>3 DEF Inv, Types
<1>5. Accepting'
  BY <1>1, <1>2 DEF Inv, Accepting
<1>6. NobodyLeft'
  BY <1>1, <1>2, <1>3 DEF Inv, NobodyLeft
<1>7. AnswersInTime'
  BY <1>1, <1>2, <1>3 DEF Inv, AnswersInTime, Timely
<1>8. Named'
  BY <1>1, <1>2, <1>3 DEF Inv, Named, SendsEver
<1> QED BY <1>1, <1>4, <1>5, <1>6, <1>7, <1>8, Frames DEF Inv

-----------------------------------------------------------------------------
(* ... the broadcaster's ...                                               *)

LEMMA PrepareOK ==
    ASSUME Inv, NEW s \in Checksums, Prepare(s)
    PROVE  Inv'
<1>0. Types /\ s \in Nat /\ MaxChallenges \in Nat /\ MaxConns \in Nat
  BY ConstantsAssumption DEF Inv
<1>1. /\ bcast.pc = "prepare" /\ challengeId <= MaxChallenges /\ challengeId' = challengeId + 1
      /\ IsBroadcaster(bcast') /\ bcast'.pc = "publish" /\ bcast'.cid = challengeId
      /\ bcast'.sum = s /\ bcast'.next = bcast.next
      /\ UNCHANGED <<clock, current, results, conns, registered, fd, owner, handler, up, inbox,
                     outbox, leaves>>
  BY <1>0, Preparing DEF accepts, clientVars
<1>2. Types'
  BY <1>0, <1>1 DEF Types, Steps
<1>3. Accepting'
  BY <1>1 DEF Inv, Accepting
<1>4. RoundsInOrder'
  BY <1>0, <1>1 DEF Inv, RoundsInOrder, Underway, Types
<1>5. SentOnce'
  BY <1>1 DEF Inv, SentOnce, Ahead
<1>6. Named'
  <2>1. SendsEver = (challengeId - 1) * MaxConns /\ SendsEver' = (challengeId' - 2) * MaxConns
    BY <1>1 DEF SendsEver
  <2>2. SendsEver' = SendsEver
    BY <1>0, <1>1, <2>1 DEF Types
  <2> QED BY <1>1, <2>2 DEF Inv, Named
<1> QED BY <1>1, <1>2, <1>3, <1>4, <1>5, <1>6, Frames DEF Inv

LEMMA PublishOK == ASSUME Inv, Publish PROVE Inv'
<1>0. Types /\ MaxConns \in Nat /\ challengeId \in Nat /\ bcast.cid \in Nat /\ current.id \in Nat
  BY ConstantsAssumption DEF Inv, Types
<1>1. /\ bcast.pc = "publish" /\ current' = Published(bcast.cid, clock)
      /\ IsBroadcaster(bcast') /\ bcast'.pc = "lock" /\ bcast'.cid = bcast.cid
      /\ bcast'.sum = bcast.sum /\ bcast'.next = bcast.next
      /\ UNCHANGED <<clock, challengeId, results, conns, registered, fd, owner, handler, up,
                     inbox, outbox, leaves>>
  BY <1>0, Publishing DEF accepts, clientVars
<1>2. IsChallenge(current') /\ current'.id = bcast.cid /\ current'.start = clock
  BY <1>1 DEF IsChallenge, Published
<1>3. current.id < bcast.cid
  BY <1>1 DEF Inv, RoundsInOrder
<1>4. Types'
  BY <1>0, <1>1, <1>2 DEF Types, Steps
<1>5. Accepting'
  BY <1>1 DEF Inv, Accepting
<1>6. RoundsInOrder'
  BY <1>1, <1>2 DEF Inv, RoundsInOrder, Underway
<1>7. SentBefore'
  BY <1>0, <1>1, <1>2, <1>3 DEF Inv, SentBefore
<1>8. SentOnce'
  <2>1. \A k \in Conns : \A i \in 1 .. Len(inbox[k]) : inbox[k][i].cid < bcast.cid
    BY <1>0, <1>3 DEF Inv, SentBefore
  <2> QED BY <1>1, <2>1 DEF Inv, SentOnce, Ahead
<1>9. AnswersInTime'
  <2>1. \A m : Timely(m) => Timely(m)' /\ m.to # current'.id
    BY <1>0, <1>2, <1>3 DEF Timely
  <2> QED BY <1>1, <2>1 DEF Inv, AnswersInTime
<1>10. Named'
  <2>1. SendsEver' = SendsEver
    BY <1>1 DEF SendsEver
  <2> QED BY <1>1, <2>1 DEF Inv, Named
<1> QED BY <1>1, <1>4, <1>5, <1>6, <1>7, <1>8, <1>9, <1>10, Frames DEF Inv

LEMMA LockOK == ASSUME Inv, Lock PROVE Inv'
<1>0. Types /\ MaxConns \in Nat /\ challengeId \in Nat
  BY ConstantsAssumption DEF Inv, Types
<1>1. /\ bcast.pc = "lock"
      /\ IsBroadcaster(bcast') /\ bcast'.pc = "send" /\ bcast'.cid = bcast.cid
      /\ bcast'.sum = bcast.sum /\ bcast'.next = 1
      /\ UNCHANGED <<clock, challengeId, current, results, conns, registered, fd, owner, handler,
                     up, inbox, outbox, leaves>>
  BY <1>0, Locking DEF accepts, clientVars
<1>2. Types'
  BY <1>0, <1>1 DEF Types, Steps
<1>3. Accepting'
  BY <1>1 DEF Inv, Accepting
<1>4. RoundsInOrder'
  BY <1>1 DEF Inv, RoundsInOrder, Underway
<1>5. SentOnce'
  BY <1>1 DEF Inv, SentOnce, Ahead
<1>6. Named'
  <2>1. SendsEver' = SendsEver
    <3>1. SendsEver = (challengeId - 2) * MaxConns /\ SendsEver' = (challengeId - 2) * MaxConns + 1 - 1
      BY <1>1 DEF SendsEver
    <3>2. (challengeId - 2) * MaxConns \in Int
      BY <1>0
    <3> QED BY <3>1, <3>2
  <2> QED BY <1>1, <2>1 DEF Inv, Named
<1> QED BY <1>1, <1>2, <1>3, <1>4, <1>5, <1>6, Frames DEF Inv

\* The unlocking only counts the sends the round did not make.
LEMMA WaitOK == ASSUME Inv, Unlock \/ Snapshot PROVE Inv'
<1>0. Types /\ MaxConns \in Nat /\ challengeId \in Nat
  BY ConstantsAssumption DEF Inv, Types
<1>1. /\ \/ bcast.pc = "send" /\ bcast.next > registered /\ bcast'.pc = "wait"
         \/ bcast.pc = "wait" /\ bcast'.pc = "log"
      /\ IsBroadcaster(bcast') /\ bcast'.cid = bcast.cid
      /\ bcast'.sum = bcast.sum /\ bcast'.next = bcast.next
      /\ UNCHANGED <<clock, challengeId, current, results, conns, registered, fd, owner, handler,
                     up, inbox, outbox, leaves>>
  BY <1>0, Waiting DEF accepts, clientVars
<1>2. Types'
  BY <1>0, <1>1 DEF Types, Steps
<1>3. Accepting'
  BY <1>1 DEF Inv, Accepting
<1>4. RoundsInOrder'
  BY <1>1 DEF Inv, RoundsInOrder, Underway
<1>5. SentOnce'
  BY <1>1 DEF Inv, SentOnce, Ahead
<1>6. Named'
  <2>1. SendsEver <= SendsEver' /\ SendsEver \in Int /\ SendsEver' \in Int
    <3> DEFINE x == (challengeId - 1) * MaxConns
               y == (challengeId - 2) * MaxConns
    <3>1. x \in Int /\ y \in Int /\ x = y + MaxConns
      BY <1>0
    <3>2. SendsEver' = x
      BY <1>1 DEF SendsEver
    <3>3. SendsEver = IF bcast.pc = "send" THEN y + bcast.next - 1 ELSE x
      BY <1>1 DEF SendsEver
    <3>4. bcast.next \in Nat /\ (bcast.pc = "send" => bcast.next - 1 <= MaxConns)
      BY <1>0 DEF Inv, Types, Accepting
    <3> HIDE DEF x, y
    <3> QED BY <1>0, <3>1, <3>2, <3>3, <3>4
  <2>2. \A k \in Conns : Len(inbox[k]) \in Nat /\ Len(outbox[k]) \in Nat
    BY <1>0 DEF Types
  <2>3. \A k \in Conns : Len(inbox[k]) + Len(outbox[k]) <= SendsEver
    BY DEF Inv, Named
  <2>4. \A k \in Conns : Len(inbox[k]) + Len(outbox[k]) <= SendsEver'
    BY <2>1, <2>2, <2>3, AtMost
  <2> QED BY <1>1, <2>4 DEF Inv, Named
<1> QED BY <1>1, <1>2, <1>3, <1>4, <1>5, <1>6, Frames DEF Inv

LEMMA SendOK == ASSUME Inv, Send PROVE Inv'
<1> DEFINE e == bcast.next
           k == owner[fd[e]]
           payload == [cid |-> bcast.cid, sum |-> bcast.sum]
<1>0. /\ Types /\ MaxConns \in Nat /\ challengeId \in Nat /\ bcast.cid \in Nat /\ bcast.sum \in Nat
      /\ e \in Nat \ {0} /\ current.id \in Nat
  BY ConstantsAssumption DEF Inv, Types
<1>1. /\ bcast.pc = "send" /\ e <= registered
      /\ IsBroadcaster(bcast') /\ bcast'.pc = "send" /\ bcast'.cid = bcast.cid
      /\ bcast'.sum = bcast.sum /\ bcast'.next = e + 1
      /\ inbox' = IF k # 0 /\ up[k] THEN [inbox EXCEPT ![k] = Append(@, payload)] ELSE inbox
      /\ UNCHANGED <<clock, challengeId, current, results, conns, registered, fd, owner, handler,
                     up, outbox, leaves>>
  BY <1>0, Sending DEF accepts
<1>2. /\ registered \in 0 .. conns /\ conns \in 0 .. MaxConns /\ e \in 1 .. conns /\ e \in Conns
      /\ fd[e] \in Fds /\ k \in 0 .. MaxConns /\ (k # 0 => k \in Conns)
  <2>1. registered \in 0 .. conns /\ conns \in 0 .. MaxConns
    BY DEF Inv, Accepting
  <2>2. e \in 1 .. conns /\ e \in Conns
    BY <1>0, <1>1, <2>1 DEF Conns
  <2>3. fd[e] \in Fds /\ owner \in [Fds -> 0 .. MaxConns]
    BY <2>2 DEF Inv, Accepting
  <2> HIDE DEF e
  <2>4. k \in 0 .. MaxConns
    BY <2>3
  <2> QED BY <1>0, <2>1, <2>2, <2>3, <2>4 DEF Conns
<1>3. payload \in Payloads /\ payload.cid = bcast.cid /\ bcast.cid = current.id /\ bcast.cid \in Nat \ {0}
  <2>1. bcast.cid = current.id /\ bcast.cid >= 1
    BY <1>1 DEF Inv, RoundsInOrder, Underway
  <2> QED BY <1>0, <2>1 DEF Payloads
<1> HIDE DEF e, k, payload
<1>4. /\ inbox' \in [Conns -> Seq(Payloads)]
      /\ \A j \in Conns : \/ inbox'[j] = inbox[j]
                          \/ j = k /\ up[k] /\ inbox'[j] = Append(inbox[j], payload)
  <2>1. inbox \in [Conns -> Seq(Payloads)]
    BY <1>0 DEF Types
  <2>2. CASE k # 0 /\ up[k]
    <3>1. inbox[k] \in Seq(Payloads) /\ k \in Conns
      BY <1>2, <2>1, <2>2
    <3>2. Append(inbox[k], payload) \in Seq(Payloads)
      BY <1>3, <3>1
    <3> QED BY <1>1, <2>1, <2>2, <3>1, <3>2
  <2>3. CASE ~(k # 0 /\ up[k])
    BY <1>1, <2>1, <2>3
  <2> QED BY <2>2, <2>3
<1>5. ASSUME NEW j \in Conns, inbox'[j] = Append(inbox[j], payload)
      PROVE  /\ Len(inbox'[j]) = Len(inbox[j]) + 1 /\ Len(inbox[j]) \in Nat
             /\ inbox'[j][Len(inbox[j]) + 1] = payload
             /\ \A i \in 1 .. Len(inbox[j]) : inbox'[j][i] = inbox[j][i] /\ inbox[j][i].cid \in Nat
  <2>1. inbox[j] \in Seq(Payloads)
    BY <1>0 DEF Types
  <2>2. \A i \in 1 .. Len(inbox[j]) : inbox[j][i] \in Payloads
    BY <2>1
  <2>3. \A i \in 1 .. Len(inbox[j]) : inbox[j][i].cid \in Nat
    BY <2>2 DEF Payloads
  <2> QED BY <1>3, <1>5, <2>1, <2>3, AppendFacts
<1>6. Types'
  BY <1>0, <1>1, <1>4 DEF Types, Steps, e
<1>7. Accepting'
  <2>1. e + 1 <= registered + 1 /\ bcast'.next = e + 1
    BY <1>0, <1>1, <1>2
  <2> QED BY <1>1, <2>1 DEF Inv, Accepting
<1>8. RoundsInOrder'
  BY <1>1 DEF Inv, RoundsInOrder, Underway
<1>9. SentBefore'
  <2> SUFFICES ASSUME NEW j \in Conns, NEW i \in 1 .. Len(inbox'[j])
               PROVE  inbox'[j][i].cid \in 1 .. current.id
    BY <1>1 DEF SentBefore
  <2>1. CASE inbox'[j] = inbox[j]
    BY <2>1 DEF Inv, SentBefore
  <2>2. CASE inbox'[j] = Append(inbox[j], payload)
    <3>1. i \in 1 .. Len(inbox[j]) \/ i = Len(inbox[j]) + 1
      BY <1>5, <2>2
    <3>2. CASE i \in 1 .. Len(inbox[j])
      BY <1>5, <2>2, <3>2 DEF Inv, SentBefore
    <3>3. CASE i = Len(inbox[j]) + 1
      BY <1>0, <1>3, <1>5, <2>2, <3>3
    <3> QED BY <3>1, <3>2, <3>3
  <2> QED BY <1>4, <2>1, <2>2
<1>10. SentOnce'
  <2> SUFFICES ASSUME leaves = 0, NEW j \in Conns
               PROVE  /\ Increasing(inbox'[j])
                      /\ Ahead(j)' => \A i \in 1 .. Len(inbox'[j]) : inbox'[j][i].cid < bcast.cid
    BY <1>1 DEF SentOnce
  <2>1. /\ Increasing(inbox[j])
        /\ Ahead(j) => \A i \in 1 .. Len(inbox[j]) : inbox[j][i].cid < bcast.cid
    BY DEF Inv, SentOnce
  <2>2. k = e
    BY <1>2 DEF Inv, NobodyLeft, k
  <2>3. CASE inbox'[j] = inbox[j]
    <3>1. Ahead(j)' => Ahead(j)
      BY <1>0, <1>1, <1>2 DEF Ahead, Conns, e
    <3> QED BY <2>1, <2>3, <3>1
  <2>4. CASE j = k /\ inbox'[j] = Append(inbox[j], payload)
    <3>1. Ahead(j) /\ ~Ahead(j)'
      BY <1>0, <1>1, <2>2, <2>4 DEF Ahead, e
    <3>2. Increasing(inbox'[j])
      <4> SUFFICES ASSUME NEW a \in 1 .. Len(inbox'[j]), NEW b \in 1 .. Len(inbox'[j]), a < b
                   PROVE  inbox'[j][a].cid < inbox'[j][b].cid
        BY DEF Increasing
      <4>1. /\ Len(inbox'[j]) = Len(inbox[j]) + 1 /\ Len(inbox[j]) \in Nat
            /\ inbox'[j][Len(inbox[j]) + 1] = payload
            /\ \A i \in 1 .. Len(inbox[j]) : inbox'[j][i] = inbox[j][i]
        BY <1>5, <2>4
      <4>2. a \in 1 .. Len(inbox[j])
        BY <4>1
      <4>3. CASE b \in 1 .. Len(inbox[j])
        BY <2>1, <4>1, <4>2, <4>3 DEF Increasing
      <4>4. CASE b = Len(inbox[j]) + 1
        BY <1>3, <2>1, <3>1, <4>1, <4>2, <4>4
      <4>5. b \in 1 .. Len(inbox[j]) \/ b = Len(inbox[j]) + 1
        BY <4>1
      <4> QED BY <4>3, <4>4, <4>5
    <3> QED BY <3>1, <3>2
  <2> QED BY <1>4, <2>3, <2>4
<1>11. Named'
  <2> DEFINE y == (challengeId - 2) * MaxConns
  <2>1. SendsEver' = y + (e + 1) - 1 /\ SendsEver = y + e - 1 /\ y \in Int
    BY <1>0, <1>1 DEF SendsEver, e
  <2> HIDE DEF y
  <2>2. SendsEver \in Int /\ SendsEver' = SendsEver + 1 /\ SendsEver' \in Int /\ SendsEver <= SendsEver'
    BY <1>0, <2>1
  <2> SUFFICES ASSUME NEW j \in Conns
               PROVE  Len(inbox'[j]) + Len(outbox[j]) <= SendsEver'
    BY <1>1 DEF Inv, Named
  <2>3. Len(inbox[j]) + Len(outbox[j]) <= SendsEver /\ Len(outbox[j]) \in Nat /\ Len(inbox[j]) \in Nat
    BY <1>0 DEF Inv, Named, Types
  <2>4. CASE inbox'[j] = inbox[j]
    BY <2>2, <2>3, <2>4, AtMost
  <2>5. CASE inbox'[j] = Append(inbox[j], payload)
    <3>1. Len(inbox'[j]) = Len(inbox[j]) + 1
      BY <1>5, <2>5
    <3> QED BY <2>2, <2>3, <3>1, OneMore
  <2> QED BY <1>4, <2>4, <2>5
<1> QED BY <1>1, <1>6, <1>7, <1>8, <1>9, <1>10, <1>11, Frames DEF Inv

LEMMA LogOK == ASSUME Inv, Log PROVE Inv'
<1>0. Types /\ MaxConns \in Nat /\ challengeId \in Nat /\ bcast.cid \in Nat /\ IsList(results)
  BY ConstantsAssumption DEF Inv, Types
<1>1. /\ bcast.pc = "log"
      /\ IsBroadcaster(bcast') /\ bcast'.pc = "prepare" /\ bcast'.cid = bcast.cid
      /\ bcast'.sum = bcast.sum /\ bcast'.next = bcast.next
      /\ UNCHANGED <<clock, challengeId, current, conns, registered, fd, owner, handler, up, inbox,
                     outbox, leaves>>
  BY <1>0, Logging DEF accepts, clientVars
<1>2. PICK w : results' = Append(results, LogEntry(w))
  BY <1>0, Logging
<1>3. LogEntry(w).cid = bcast.cid
  BY DEF LogEntry
<1>4. /\ IsList(results') /\ Len(results') = Len(results) + 1 /\ Len(results) \in Nat
      /\ results'[Len(results) + 1] = LogEntry(w)
      /\ \A i \in 1 .. Len(results) : results'[i] = results[i]
      /\ DOMAIN results = 1 .. Len(results) /\ DOMAIN results' = 1 .. Len(results')
  <2>1. ASSUME NEW s, IsList(s), NEW x
        PROVE  LET t == Append(s, x)
               IN  /\ IsList(t) /\ Len(t) = Len(s) + 1 /\ Len(s) \in Nat
                   /\ t[Len(s) + 1] = x
                   /\ \A i \in 1 .. Len(s) : t[i] = s[i]
                   /\ DOMAIN s = 1 .. Len(s) /\ DOMAIN t = 1 .. Len(t)
    BY <2>1, ListAppended, ListFacts
  <2> QED BY <1>0, <1>2, <2>1
<1>5. Types'
  BY <1>0, <1>1, <1>4 DEF Types, Steps
<1>6. Accepting'
  BY <1>1 DEF Inv, Accepting
<1>7. RoundsInOrder'
  <2>1. bcast.cid = challengeId - 1 /\ current.id = bcast.cid /\ bcast.cid >= 1
    BY <1>1 DEF Inv, RoundsInOrder, Underway
  <2>2. \A i \in DOMAIN results' : results'[i].cid \in Nat /\ results'[i].cid < challengeId
    <3> SUFFICES ASSUME NEW i \in DOMAIN results'
                 PROVE  results'[i].cid \in Nat /\ results'[i].cid < challengeId
      OBVIOUS
    <3>1. CASE i \in DOMAIN results
      BY <1>4, <3>1 DEF Inv, RoundsInOrder
    <3>2. CASE i \notin DOMAIN results
      <4>1. i = Len(results) + 1
        BY <1>4, <3>2
      <4> QED BY <1>0, <1>3, <1>4, <2>1, <4>1
    <3> QED BY <3>1, <3>2
  <2> QED BY <1>0, <1>1, <2>1, <2>2 DEF RoundsInOrder, Underway
<1>8. SentOnce'
  BY <1>1 DEF Inv, SentOnce, Ahead
<1>9. Named'
  <2>1. SendsEver' = SendsEver
    BY <1>1 DEF SendsEver
  <2> QED BY <1>1, <2>1 DEF Inv, Named
<1> QED BY <1>1, <1>5, <1>6, <1>7, <1>8, <1>9, Frames DEF Inv

-----------------------------------------------------------------------------
(* ... the handlers' and the clients'.                                     *)

LEMMA HandlerOK ==
    ASSUME Inv, NEW k \in Conns, Handler(k)
    PROVE  Inv'
<1>0. Types /\ clock \in Nat /\ current.start \in 0 .. clock /\ current.id \in Nat
      /\ \A j \in Conns : Len(outbox[j]) \in Nat /\ Len(inbox[j]) \in Nat
  BY DEF Inv, Types
<1>1. /\ handler' \in [Conns -> Handlers] /\ outbox' \in [Conns -> Seq(Messages)]
      /\ \A j \in Conns \ {k} : handler'[j] = handler[j] /\ outbox'[j] = outbox[j]
      /\ Len(outbox'[k]) <= Len(outbox[k])
      /\ \A i \in 1 .. Len(outbox'[k]) : \E j \in 1 .. Len(outbox[k]) : outbox'[k][i] = outbox[k][j]
      /\ handler[k].pc # "none"
      /\ handler'[k].pc = "close" => ~up[k]
      /\ handler'[k].pc \in {"recv", "stamped"} => handler'[k].name \in Names
      /\ handler'[k].pc = "stamped" =>
            /\ handler'[k].now = clock /\ 1 \in 1 .. Len(outbox[k])
            /\ Tagged => handler'[k].msg = outbox[k][1]
      /\ IsChallenge(current') /\ current'.id = current.id /\ current'.start = current.start
      /\ owner' = owner \/ (handler[k].pc = "close" /\ owner' = [owner EXCEPT ![fd[k]] = 0])
      /\ UNCHANGED <<clock, challengeId, bcast, results, conns, registered, fd, up, inbox, leaves>>
  BY Handling DEF accepts
<1>2. Types'
  BY <1>0, <1>1 DEF Types
<1>3. Accepting'
  <2>1. owner' \in [Fds -> 0 .. MaxConns]
    BY <1>1, ConstantsAssumption DEF Inv, Accepting
  <2> QED BY <1>1, <2>1 DEF Inv, Accepting
<1>4. RoundsInOrder'
  BY <1>1 DEF Inv, RoundsInOrder, Underway
<1>5. SentBefore'
  BY <1>1 DEF Inv, SentBefore
<1>6. NobodyLeft'
  <2> SUFFICES ASSUME leaves = 0 PROVE NobodyLeft'
    BY <1>1 DEF NobodyLeft
  <2>1. /\ \A j \in 1 .. conns : owner[fd[j]] = j /\ up[j]
        /\ \A j \in Conns : handler[j].pc # "close" /\ (j > conns => handler[j].pc = "none")
    BY DEF Inv, NobodyLeft
  <2>2. k \in 1 .. conns
    BY <1>1, <2>1, ConstantsAssumption DEF Conns, Inv, Accepting
  <2>3. owner' = owner /\ handler'[k].pc # "close"
    BY <1>1, <2>1, <2>2
  <2>4. \A j \in Conns : j > conns => j # k
    BY <2>2, ConstantsAssumption DEF Inv, Accepting, Conns
  <2>5. \A j \in Conns : handler'[j].pc # "close" /\ (j > conns' => handler'[j].pc = "none")
    BY <1>1, <2>1, <2>3, <2>4
  <2> QED BY <1>1, <2>1, <2>3, <2>5 DEF NobodyLeft
<1>7. AnswersInTime'
  <2> SUFFICES ASSUME Tagged, NEW j \in Conns
               PROVE  /\ \A i \in 1 .. Len(outbox'[j]) : Timely(outbox'[j][i])
                      /\ handler'[j].pc = "stamped" =>
                            /\ Timely(handler'[j].msg)
                            /\ handler'[j].msg.to = current.id => handler'[j].now >= current.start
    BY <1>1 DEF AnswersInTime, Timely
  <2>1. /\ \A i \in 1 .. Len(outbox[j]) : Timely(outbox[j][i])
        /\ handler[j].pc = "stamped" =>
              /\ Timely(handler[j].msg)
              /\ handler[j].msg.to = current.id => handler[j].now >= current.start
    BY DEF Inv, AnswersInTime
  <2>2. CASE j # k
    BY <1>1, <2>1, <2>2
  <2>3. CASE j = k
    BY <1>0, <1>1, <2>1, <2>3
  <2> QED BY <2>2, <2>3
<1>8. Named'
  <2>1. SendsEver' = SendsEver /\ SendsEver \in Int
    BY <1>1, SendsEverInt DEF SendsEver
  <2>2. ASSUME NEW j \in Conns
        PROVE  Len(inbox'[j]) + Len(outbox'[j]) <= SendsEver
    <3>1. outbox'[j] \in Seq(Messages) /\ Len(outbox[j]) \in Nat /\ Len(inbox[j]) \in Nat
      BY <1>0, <1>1
    <3>2. Len(outbox'[j]) \in Nat /\ Len(outbox'[j]) <= Len(outbox[j])
      <4>1. j # k => outbox'[j] = outbox[j]
        BY <1>1
      <4>2. j = k => Len(outbox'[j]) <= Len(outbox[j])
        BY <1>1
      <4> QED BY <3>1, <4>1, <4>2
    <3>3. Len(inbox[j]) + Len(outbox[j]) <= SendsEver
      BY DEF Inv, Named
    <3>4. Len(inbox[j]) <= Len(inbox[j]) /\ inbox' = inbox
      BY <1>1, <3>1
    <3> QED BY <2>1, <3>1, <3>2, <3>3, <3>4, Fewer
  <2>3. \A j \in Conns : handler'[j].pc \in {"recv", "stamped"} => handler'[j].name \in Names
    BY <1>1 DEF Inv, Named
  <2> QED BY <2>1, <2>2, <2>3 DEF Named
<1> QED BY <1>2, <1>3, <1>4, <1>5, <1>6, <1>7, <1>8, <1>1, Frames DEF Inv

\* An answer is computed for a challenge that was sent: not for a later one.
LEMMA AnswerOK ==
    ASSUME Inv, NEW k \in Conns, NEW a \in Checksums, Answer(k, a)
    PROVE  Inv'
<1> DEFINE c == Head(inbox[k]).cid
           m == [cid |-> IF Tagged THEN c ELSE NoCid, answer |-> a, to |-> c]
<1>1. /\ inbox[k] # <<>> /\ outbox' = [outbox EXCEPT ![k] = Append(@, m)]
      /\ inbox' = [inbox EXCEPT ![k] = Tail(@)]
      /\ UNCHANGED <<clock, challengeId, current, bcast, results, conns, registered, fd, owner,
                     handler, up, leaves>>
  BY DEF Answer, server, accepts
<1>2. Types /\ inbox \in [Conns -> Seq(Payloads)] /\ outbox \in [Conns -> Seq(Messages)]
      /\ inbox[k] \in Seq(Payloads) /\ outbox[k] \in Seq(Messages)
  BY DEF Inv, Types
<1>3. /\ Head(inbox[k]) = inbox[k][1] /\ inbox[k][1] \in Payloads /\ Len(inbox[k]) \in Nat \ {0}
      /\ Tail(inbox[k]) \in Seq(Payloads) /\ Len(Tail(inbox[k])) = Len(inbox[k]) - 1
      /\ \A i \in 1 .. Len(Tail(inbox[k])) : Tail(inbox[k])[i] = inbox[k][i + 1]
  BY <1>1, <1>2, TailFacts
<1>4. c \in Nat /\ c \in 1 .. current.id /\ m \in Messages /\ m.to = c /\ (Tagged => m.cid = c)
  <2>1. c \in Nat
    BY <1>3 DEF Payloads
  <2>2. c \in 1 .. current.id
    BY <1>3 DEF Inv, SentBefore
  <2> HIDE DEF c
  <2> QED BY <2>1, <2>2, ConstantsAssumption DEF Messages, NoCid
<1> HIDE DEF c, m
<1>5. /\ Append(outbox[k], m) \in Seq(Messages) /\ Len(Append(outbox[k], m)) = Len(outbox[k]) + 1
      /\ Len(outbox[k]) \in Nat /\ Append(outbox[k], m)[Len(outbox[k]) + 1] = m
      /\ \A i \in 1 .. Len(outbox[k]) : Append(outbox[k], m)[i] = outbox[k][i]
  BY <1>2, <1>4, AppendFacts
<1>6. /\ inbox' \in [Conns -> Seq(Payloads)] /\ outbox' \in [Conns -> Seq(Messages)]
      /\ inbox'[k] = Tail(inbox[k]) /\ outbox'[k] = Append(outbox[k], m)
      /\ \A j \in Conns \ {k} : inbox'[j] = inbox[j] /\ outbox'[j] = outbox[j]
  BY <1>1, <1>2, <1>3, <1>5
<1>7. Types'
  BY <1>1, <1>2, <1>6 DEF Types
<1>8. \A i \in 1 .. Len(inbox'[k]) : i + 1 \in 1 .. Len(inbox[k]) /\ inbox'[k][i] = inbox[k][i + 1]
  BY <1>3, <1>6
<1>9. SentBefore'
  <2> SUFFICES ASSUME NEW j \in Conns
               PROVE  \A i \in 1 .. Len(inbox'[j]) : inbox'[j][i].cid \in 1 .. current.id
    BY <1>1 DEF SentBefore
  <2>1. \A i \in 1 .. Len(inbox[j]) : inbox[j][i].cid \in 1 .. current.id
    BY DEF Inv, SentBefore
  <2>2. CASE j # k
    BY <1>6, <2>1, <2>2
  <2>3. CASE j = k
    BY <1>8, <2>1, <2>3
  <2> QED BY <2>2, <2>3
<1>10. SentOnce'
  <2> SUFFICES ASSUME leaves = 0, NEW j \in Conns
               PROVE  /\ Increasing(inbox'[j])
                      /\ Ahead(j) => \A i \in 1 .. Len(inbox'[j]) : inbox'[j][i].cid < bcast.cid
    BY <1>1 DEF SentOnce, Ahead
  <2>1. /\ Increasing(inbox[j])
        /\ Ahead(j) => \A i \in 1 .. Len(inbox[j]) : inbox[j][i].cid < bcast.cid
    BY DEF Inv, SentOnce
  <2>2. CASE j # k
    BY <1>6, <2>1, <2>2
  <2>3. CASE j = k
    <3>1. Increasing(inbox'[k])
      <4> SUFFICES ASSUME NEW x \in 1 .. Len(inbox'[k]), NEW y \in 1 .. Len(inbox'[k]), x < y
                   PROVE  inbox'[k][x].cid < inbox'[k][y].cid
        BY DEF Increasing
      <4>1. x + 1 < y + 1 /\ x + 1 \in 1 .. Len(inbox[k]) /\ y + 1 \in 1 .. Len(inbox[k])
        BY <1>8
      <4>2. inbox[k][x + 1].cid < inbox[k][y + 1].cid
        BY <2>1, <2>3, <4>1 DEF Increasing
      <4> QED BY <1>8, <4>2
    <3> QED BY <1>8, <2>1, <2>3, <3>1
  <2> QED BY <2>2, <2>3
<1>11. AnswersInTime'
  <2> SUFFICES ASSUME Tagged, NEW j \in Conns
               PROVE  \A i \in 1 .. Len(outbox'[j]) : Timely(outbox'[j][i])
    BY <1>1 DEF Inv, AnswersInTime, Timely
  <2>1. \A i \in 1 .. Len(outbox[j]) : Timely(outbox[j][i])
    BY DEF Inv, AnswersInTime
  <2>2. Timely(m)
    BY <1>4 DEF Timely
  <2>3. CASE j # k
    BY <1>6, <2>1, <2>3
  <2>4. CASE j = k
    <3> SUFFICES ASSUME NEW i \in 1 .. Len(outbox'[k]) PROVE Timely(outbox'[k][i])
      BY <2>4
    <3>1. i \in 1 .. Len(outbox[k]) \/ i = Len(outbox[k]) + 1
      BY <1>5, <1>6
    <3> QED BY <1>5, <1>6, <2>1, <2>2, <2>4, <3>1
  <2> QED BY <2>3, <2>4
<1>12. Named'
  <2>1. SendsEver' = SendsEver
    BY <1>1 DEF SendsEver
  <2>2. ASSUME NEW j \in Conns
        PROVE  Len(inbox'[j]) + Len(outbox'[j]) = Len(inbox[j]) + Len(outbox[j])
    <3>1. CASE j # k
      BY <1>6, <3>1
    <3>2. CASE j = k
      <4>1. /\ Len(inbox'[k]) = Len(inbox[k]) - 1 /\ Len(outbox'[k]) = Len(outbox[k]) + 1
            /\ Len(inbox[k]) \in Nat /\ Len(outbox[k]) \in Nat
        BY <1>3, <1>5, <1>6
      <4>2. \A x, y \in Nat : (x - 1) + (y + 1) = x + y
        OBVIOUS
      <4>3. Len(inbox'[k]) + Len(outbox'[k]) = (Len(inbox[k]) - 1) + (Len(outbox[k]) + 1)
        BY <4>1, Zenon
      <4>4. (Len(inbox[k]) - 1) + (Len(outbox[k]) + 1) = Len(inbox[k]) + Len(outbox[k])
        BY <4>1, <4>2, Zenon
      <4> QED BY <3>2, <4>3, <4>4, Zenon
    <3> QED BY <3>1, <3>2
  <2> QED BY <1>1, <2>1, <2>2 DEF Inv, Named
<1> QED BY <1>1, <1>7, <1>9, <1>10, <1>11, <1>12, Frames DEF Inv

LEMMA LeaveOK ==
    ASSUME Inv, NEW k \in Conns, Leave(k)
    PROVE  Inv'
<1>0. Types /\ leaves \in Nat /\ inbox \in [Conns -> Seq(Payloads)] /\ up \in [Conns -> BOOLEAN]
      /\ \A j \in Conns : Len(inbox[j]) \in Nat /\ Len(outbox[j]) \in Nat
  BY DEF Inv, Types, Accepting
<1>1. /\ up' = [up EXCEPT ![k] = FALSE] /\ inbox' = [inbox EXCEPT ![k] = <<>>]
      /\ leaves' = leaves + 1
      /\ UNCHANGED <<clock, challengeId, current, bcast, results, conns, registered, fd, owner,
                     handler, outbox>>
  BY DEF Leave, server, accepts
<1>2. /\ inbox' \in [Conns -> Seq(Payloads)] /\ up' \in [Conns -> BOOLEAN]
      /\ leaves' \in Nat /\ leaves' # 0 /\ inbox'[k] = <<>>
      /\ \A j \in Conns \ {k} : inbox'[j] = inbox[j]
  BY <1>0, <1>1
<1>3. Types'
  BY <1>0, <1>1, <1>2 DEF Types
<1>4. Accepting'
  BY <1>1, <1>2 DEF Inv, Accepting
<1>5. SentBefore'
  BY <1>1, <1>2 DEF Inv, SentBefore
<1>6. NobodyLeft' /\ SentOnce'
  BY <1>2 DEF NobodyLeft, SentOnce
<1>7. Named'
  <2>1. SendsEver' = SendsEver /\ SendsEver \in Int
    BY <1>1, SendsEverInt DEF SendsEver
  <2>2. ASSUME NEW j \in Conns
        PROVE  Len(inbox'[j]) + Len(outbox[j]) <= SendsEver
    <3>1. Len(outbox[j]) \in Nat /\ Len(inbox[j]) \in Nat
      BY <1>0
    <3>2. Len(inbox'[j]) <= Len(inbox[j]) /\ Len(inbox'[j]) \in Nat
      <4>1. j # k => inbox'[j] = inbox[j]
        BY <1>2
      <4>2. j = k => Len(inbox'[j]) = 0
        BY <1>2
      <4> QED BY <3>1, <4>1, <4>2
    <3>3. Len(inbox[j]) + Len(outbox[j]) <= SendsEver
      BY DEF Inv, Named
    <3>4. Len(outbox[j]) <= Len(outbox[j])
      BY <3>1
    <3> QED BY <2>1, <3>1, <3>2, <3>3, <3>4, Fewer
  <2> QED BY <1>1, <2>1, <2>2 DEF Inv, Named
<1> QED BY <1>1, <1>3, <1>4, <1>5, <1>6, <1>7, Frames DEF Inv

LEMMA NextOK == Inv /\ [Next]_vars => Inv'
<1> SUFFICES ASSUME Inv, [Next]_vars PROVE Inv'
  OBVIOUS
<1>1. CASE UNCHANGED vars
  <2>1. UNCHANGED <<clock, challengeId, current, bcast, results, conns, registered, fd, owner,
                    handler, up, inbox, outbox, leaves>>
    BY <1>1 DEF vars, server, accepts, clientVars
  <2>2. Types'
    BY <2>1 DEF Inv, Types
  <2> QED BY <2>1, <2>2, Frames DEF Inv
<1>2. CASE Broadcaster
  BY <1>2, PrepareOK, PublishOK, LockOK, SendOK, WaitOK, LogOK DEF Broadcaster
<1> QED BY <1>1, <1>2, TickOK, AcceptOK, RegisterOK, HandlerOK, AnswerOK, LeaveOK DEF Next

THEOREM Invariance == Spec => []Inv
<1> QED BY InitOK, NextOK, PTL DEF Spec

(***************************************************************************)
(* Until somebody leaves, a client of hftserver2026/main.cpp is sent each  *)
(* challenge once, oldest first.  The condition is needed: an entry of     *)
(* clients outlives its connection, and once the kernel has given the      *)
(* descriptor to a later one, that client gets each challenge twice.       *)
(***************************************************************************)
THEOREM EachChallengeOnceWhileAllStay == Spec => [](leaves = 0 => EachChallengeOnce)
<1>1. Inv => (leaves = 0 => EachChallengeOnce)
  <2> SUFFICES ASSUME Inv, leaves = 0, NEW k \in Conns, NEW i \in 1 .. Window, NEW j \in 1 .. Window,
                      i < j, j <= Len(inbox[k])
               PROVE  inbox[k][i].cid < inbox[k][j].cid
    BY DEF EachChallengeOnce
  <2>1. Increasing(inbox[k]) /\ Len(inbox[k]) \in Nat
    BY DEF Inv, SentOnce, Types
  <2>2. i \in 1 .. Len(inbox[k]) /\ j \in 1 .. Len(inbox[k])
    BY <2>1, ConstantsAssumption
  <2> QED BY <2>1, <2>2 DEF Increasing
<1> QED BY Invariance, <1>1, PTL

-----------------------------------------------------------------------------
(* The log of a fair contest.                                              *)

LEMMA JudgedFields ==
    ASSUME NEW a, NEW s
    PROVE  /\ DOMAIN Judged(a, s) = DOMAIN a
           /\ \A n \in DOMAIN a : /\ Judged(a, s)[n].latency = a[n].latency
                                  /\ Judged(a, s)[n].to = a[n].to
                                  /\ Judged(a, s)[n].right <=> a[n].answer = s
BY DEF Judged

LEMMA JudgedNone ==
    ASSUME NEW s
    PROVE  Judged(NoAnswers, s) = NoAnswers
BY DEF Judged, NoAnswers

\* Only these three change what the contest sees.
LEMMA Unseen ==
    ASSUME UNCHANGED <<OpenRound, RoundAnswers, results>>
    PROVE  UNCHANGED Fair!vars
BY DEF Fair!vars, JudgedResults

LEMMA FairAtFirst == Init => Fair!Init
<1> SUFFICES ASSUME Init PROVE Fair!Init
  OBVIOUS
<1>1. OpenRound = 0 /\ RoundAnswers = NoAnswers
  BY DEF Init, OpenRound, RoundAnswers
<1>2. JudgedResults = <<>>
  BY DEF Init, JudgedResults
<1> QED BY <1>1, <1>2 DEF Fair!Init, Fair!NoAnswers, NoAnswers

LEMMA PublishOpens ==
    ASSUME Inv, Publish
    PROVE  \E c \in 1 .. MaxChallenges : Fair!Open(c)
<1>1. /\ bcast.pc = "publish" /\ current' = Published(bcast.cid, clock)
      /\ bcast'.pc = "lock" /\ bcast'.cid = bcast.cid /\ results' = results
  BY Publishing DEF Inv
<1>2. OpenRound = 0 /\ OpenRound' = bcast.cid
  BY <1>1 DEF OpenRound
<1>3. RoundAnswers = NoAnswers
  BY <1>1 DEF RoundAnswers
<1>4. RoundAnswers' = NoAnswers
  <2>1. RoundAnswers' = Judged(NoAnswers, bcast'.sum)
    BY <1>1 DEF RoundAnswers, Published
  <2> QED BY <2>1, JudgedNone
<1>5. bcast.cid \in 1 .. MaxChallenges
  BY <1>1, ConstantsAssumption DEF Inv, RoundsInOrder, Types
<1>6. \A i \in DOMAIN results : results[i].cid # bcast.cid
  BY <1>1, <1>5 DEF Inv, RoundsInOrder
<1>7. \A i \in DOMAIN JudgedResults : JudgedResults[i].cid # bcast.cid
  BY <1>6 DEF JudgedResults
<1>8. JudgedResults' = JudgedResults
  BY <1>1 DEF JudgedResults
<1>9. Fair!Open(bcast.cid)
  BY <1>2, <1>3, <1>4, <1>7, <1>8 DEF Fair!Open
<1> QED BY <1>5, <1>9

LEMMA CreditReceives ==
    ASSUME Tagged, Inv, NEW k \in Conns, Credit(k)
    PROVE  (\E n \in Names : Fair!Receive(n)) \/ UNCHANGED Fair!vars
<1> DEFINE msg == handler[k].msg
           n == handler[k].name
           latency == handler[k].now - current.start
           a == [latency |-> latency, answer |-> msg.answer, to |-> msg.to]
<1>0. UNCHANGED <<bcast, results>>
  BY DEF Credit
<1>1. /\ n \in Names /\ msg.cid = msg.to /\ msg.to \in 1 .. current.id
      /\ msg.to = current.id => handler[k].now >= current.start
  BY DEF Credit, Inv, AnswersInTime, Timely, Named
<1>2. current.id \in Nat /\ current.start \in Nat /\ handler[k].now \in Nat /\ IsChallenge(current)
  <2>1. handler[k] \in Handlers /\ IsChallenge(current) /\ current.id \in Nat /\ clock \in Nat
        /\ current.start \in 0 .. clock
    BY DEF Inv, Types
  <2> QED BY <2>1 DEF Handlers
<1>3. Associated(msg) = msg.to
  BY <1>1, <1>2 DEF Associated, NoCid
<1>4. CASE msg.to # current.id
  <2>1. current' = current
    BY <1>3, <1>4 DEF Credit
  <2> QED BY <1>0, <2>1, Unseen DEF OpenRound, RoundAnswers
<1>5. CASE msg.to = current.id /\ bcast.pc \notin {"lock", "send", "wait"}
  <2>1. UNCHANGED RoundAnswers
    BY <1>0, <1>5 DEF RoundAnswers
  <2> QED BY <1>0, <2>1, Unseen DEF OpenRound
<1>6. CASE msg.to = current.id /\ bcast.pc \in {"lock", "send", "wait"}
  <2>1. current'.answers = Answered(n, a)
    <3>1. current' = [current EXCEPT !.answers = Answered(n, a)]
      BY <1>3, <1>6 DEF Credit
    <3>2. PICK c, d, b : c = current /\ d = current' /\ b = Answered(n, a)
      OBVIOUS
    <3>3. IsChallenge(c) /\ d = [c EXCEPT !.answers = b]
      BY <1>2, <3>1, <3>2
    <3>4. d.answers = b
      BY <3>3, ChallengeFields
    <3> QED BY <3>2, <3>4
  <2>2. RoundAnswers = Judged(current.answers, bcast.sum)
    BY <1>6 DEF RoundAnswers
  <2>3. RoundAnswers' = Judged(Answered(n, a), bcast.sum)
    BY <1>0, <1>6, <2>1 DEF RoundAnswers
  <2>4. OpenRound = current.id /\ OpenRound' = OpenRound
    BY <1>0, <1>6 DEF OpenRound, Inv, RoundsInOrder, Underway
  <2>5. latency >= 0
    BY <1>1, <1>2, <1>6
  <2> HIDE DEF n, latency, msg
  <2> DEFINE old == current.answers
             new == Answered(n, a)
  <2>6. /\ DOMAIN new = DOMAIN old \union {n} /\ new[n] = a
        /\ \A m \in DOMAIN old \ {n} : new[m] = old[m]
    BY DEF Answered
  <2>7. a.latency = latency /\ a.to = msg.to
    OBVIOUS
  <2> HIDE DEF old, new, a
  <2>8. /\ DOMAIN Judged(new, bcast.sum) = DOMAIN Judged(old, bcast.sum) \union {n}
        /\ Judged(new, bcast.sum)[n].latency = latency /\ Judged(new, bcast.sum)[n].to = msg.to
    BY <2>6, <2>7 DEF Judged
  <2>9. \A m \in DOMAIN Judged(old, bcast.sum) \ {n} :
            Judged(new, bcast.sum)[m] = Judged(old, bcast.sum)[m]
    BY <2>6 DEF Judged
  <2>10. RoundAnswers = Judged(old, bcast.sum) /\ RoundAnswers' = Judged(new, bcast.sum)
    BY <2>2, <2>3 DEF old, new, a
  <2>11. JudgedResults' = JudgedResults
    BY <1>0 DEF JudgedResults
  <2>12. OpenRound # 0 /\ msg.to = OpenRound
    BY <1>1, <1>6, <2>4
  <2>13. Fair!Receive(n)
    BY <2>4, <2>5, <2>8, <2>9, <2>10, <2>11, <2>12 DEF Fair!Receive
  <2> QED BY <1>1, <2>13 DEF n
<1> QED BY <1>4, <1>5, <1>6

LEMMA SameWinners ==
    ASSUME NEW a, NEW s
    PROVE  Winners(a, s) = {n \in DOMAIN Judged(a, s) :
                               /\ Judged(a, s)[n].right
                               /\ \A m \in DOMAIN Judged(a, s) : Judged(a, s)[m].right =>
                                     Judged(a, s)[n].latency <= Judged(a, s)[m].latency}
BY JudgedFields DEF Winners

LEMMA LogCloses ==
    ASSUME Inv, Log
    PROVE  Fair!Close
<1>0. /\ bcast.pc = "log" /\ bcast'.pc = "prepare" /\ IsList(results)
      /\ LET won == Winners(bcast.snapshot, bcast.sum)
         IN  \E w \in IF won = {} THEN {<<>>} ELSE won : results' = Append(results, LogEntry(w))
  BY Logging DEF Inv, Types
<1> DEFINE judged == Judged(bcast.snapshot, bcast.sum)
<1>1. /\ OpenRound = bcast.cid /\ OpenRound # 0 /\ OpenRound' = 0
      /\ RoundAnswers = judged /\ RoundAnswers' = NoAnswers
  BY <1>0 DEF OpenRound, RoundAnswers, Inv, RoundsInOrder, Types
<1>2. Fair!Winners = Winners(bcast.snapshot, bcast.sum)
  BY <1>1, SameWinners DEF Fair!Winners
<1>3. PICK w \in IF Fair!Winners = {} THEN {<<>>} ELSE Fair!Winners :
          results' = Append(results, LogEntry(w))
  BY <1>0, <1>2
<1> DEFINE entry == [cid |-> OpenRound, winner |-> w, players |-> RoundAnswers]
<1>4. /\ LogEntry(w).cid = OpenRound /\ LogEntry(w).winner = w
      /\ Judged(LogEntry(w).players, LogEntry(w).sum) = RoundAnswers
  BY <1>1 DEF LogEntry
<1>5. JudgedResults' = Append(JudgedResults, entry)
  <2> DEFINE J(e) == [cid |-> e.cid, winner |-> e.winner, players |-> Judged(e.players, e.sum)]
  <2>1. J(LogEntry(w)) = entry
    BY <1>4
  <2>2. /\ JudgedResults = [i \in DOMAIN results |-> J(results[i])]
        /\ JudgedResults' = [i \in DOMAIN results' |-> J(results'[i])]
    BY DEF JudgedResults
  <2> HIDE DEF J, entry
  <2>3. \A s, e : IsList(s) => [i \in DOMAIN Append(s, e) |-> J(Append(s, e)[i])] =
                                 Append([i \in DOMAIN s |-> J(s[i])], J(e))
    <3> SUFFICES ASSUME NEW s, IsList(s), NEW e
                 PROVE  [i \in DOMAIN Append(s, e) |-> J(Append(s, e)[i])] =
                            Append([i \in DOMAIN s |-> J(s[i])], J(e))
      OBVIOUS
    <3> DEFINE n == Len(s)
               t == Append(s, e)
               u == [i \in DOMAIN s |-> J(s[i])]
               v == Append(u, J(e))
    <3>1. n \in Nat /\ DOMAIN s = 1 .. n
      BY ListFacts
    <3>2. DOMAIN t = 1 .. n + 1 /\ t[n + 1] = e /\ \A i \in 1 .. n : t[i] = s[i]
      BY ListAppended, ListFacts
    <3>3. IsList(u) /\ Len(u) = n
      BY <3>1 DEF IsList
    <3>4. /\ IsList(v) /\ Len(v) = n + 1 /\ v[n + 1] = J(e)
          /\ \A i \in 1 .. n : v[i] = u[i]
      BY <3>3, ListAppended
    <3>5. DOMAIN v = 1 .. n + 1 /\ v = [i \in 1 .. n + 1 |-> v[i]]
      BY <3>4 DEF IsList
    <3>6. \A i \in 1 .. n : u[i] = J(s[i])
      BY <3>1
    <3> HIDE DEF n, t, u, v
    <3>7. \A i \in 1 .. n + 1 : v[i] = J(t[i])
      BY <3>1, <3>2, <3>4, <3>6
    <3>8. [i \in DOMAIN t |-> J(t[i])] = v
      BY <3>2, <3>5, <3>7
    <3> QED BY <3>8 DEF t, u, v
  <2> QED BY <1>0, <1>3, <2>1, <2>2, <2>3
<1> QED BY <1>1, <1>3, <1>5 DEF Fair!Close, Fair!NoAnswers, NoAnswers

LEMMA FairStep ==
    ASSUME Tagged, Inv, [Next]_vars
    PROVE  [Fair!Next]_(Fair!vars)
<1>0. Types
  BY DEF Inv
<1>1. CASE UNCHANGED <<current, bcast, results>>
  BY <1>1, Unseen DEF OpenRound, RoundAnswers
<1>2. ASSUME NEW s \in Checksums, Prepare(s) PROVE UNCHANGED Fair!vars
  BY <1>0, <1>2, Preparing, Unseen DEF OpenRound, RoundAnswers
<1>3. CASE Publish
  BY <1>3, PublishOpens DEF Fair!Next
<1>4. CASE Lock \/ Send \/ Unlock \/ Snapshot
  <2>1. /\ bcast.pc \in {"lock", "send", "wait"} /\ bcast'.pc \in {"send", "wait", "log"}
        /\ bcast'.pc = "log" => bcast'.snapshot = current.answers
        /\ bcast'.cid = bcast.cid /\ bcast'.sum = bcast.sum /\ UNCHANGED <<current, results>>
    BY <1>0, <1>4, Locking, Sending, Waiting
  <2>2. UNCHANGED <<OpenRound, RoundAnswers>>
    BY <2>1 DEF OpenRound, RoundAnswers
  <2> QED BY <2>1, <2>2, Unseen
<1>5. CASE Log
  BY <1>5, LogCloses DEF Fair!Next
<1>6. ASSUME NEW k \in Conns, Handler(k) PROVE [Fair!Next]_(Fair!vars)
  <2>1. CASE Credit(k)
    BY <2>1, CreditReceives DEF Fair!Next
  <2>2. CASE ~Credit(k)
    <3>1. UNCHANGED <<current, bcast, results>>
      BY <1>6, <2>2 DEF Handler, RecvName, RecvAnswer, Disconnected, Close, server
    <3> QED BY <1>1, <3>1
  <2> QED BY <2>1, <2>2
<1>7. CASE Tick \/ (\E k \in Conns, f \in Fds : Accept(k, f)) \/ Register
           \/ (\E k \in Conns, a \in Checksums : Answer(k, a)) \/ (\E k \in Conns : Leave(k))
  <2>1. UNCHANGED <<current, bcast, results>>
    BY <1>7 DEF Tick, Accept, Register, Answer, Leave, server
  <2> QED BY <1>1, <2>1
<1>8. CASE UNCHANGED vars
  BY <1>1, <1>8 DEF vars, server
<1> QED BY <1>2, <1>3, <1>4, <1>5, <1>6, <1>7, <1>8 DEF Next, Broadcaster

(***************************************************************************)
(* With tagged answers the results file of hftserver2026/main.cpp is the   *)
(* log of a fair contest, however handlers, broadcaster, departures and    *)
(* reused descriptors interleave: every entry has the answers that were    *)
(* computed for its challenge and credited before its window closed, and   *)
(* names the fastest right one.                                            *)
(***************************************************************************)
THEOREM ResultsAreAFairContest ==
    ASSUME Tagged
    PROVE  Spec => IsFairContest
<1>1. Init => Fair!Init
  BY FairAtFirst
<1>2. Inv /\ [Next]_vars => [Fair!Next]_(Fair!vars)
  BY FairStep
<1> QED BY <1>1, <1>2, Invariance, PTL DEF Spec, IsFairContest, Fair!Spec

====
