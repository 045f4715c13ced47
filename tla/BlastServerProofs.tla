-------------------------- MODULE BlastServerProofs --------------------------
(***************************************************************************)
(* The delivery of the blast server, for any number of connections and     *)
(* challenges: each sender hands over what was pushed, once and in order.  *)
(*                                                                         *)
(* NothingLostOrRepeated is not inductive: a pop would lose the payload    *)
(* already in hand.  The invariant adds that a sender has one in hand only *)
(* between a pop and the end of its send, that a sender is started once,   *)
(* and that the broadcaster's loop runs over the clients there were when   *)
(* the round began.                                                        *)
(***************************************************************************)
EXTENDS BlastServer, TLAPS

LastPushed(e) == IF challengeId \in Challenges /\ next > e THEN challengeId ELSE challengeId - 1

\* q continues s and ends with last.
Continues(q, s, last) ==
    /\ \A i \in 1 .. Len(q) : q[i] = last - Len(q) + i
    /\ s # 0 => s = last - Len(q)

Waiting(m, box) == (IF m = 0 THEN <<>> ELSE <<m>>) \o box

SenderSteps == {"none", "loop", "awake", "falling", "asleep", "sending", "draining", "ended"}
HandlerSteps == {"none", "name", "serving", "notifying", "closing", "returned"}

BlastTypes ==
    /\ accepted \in 0 .. MaxConns
    /\ next \in 0 .. accepted + 1
    /\ challengeId \in 1 .. MaxChallenges + 1
    /\ sender \in [Conns -> SenderSteps] /\ handler \in [Conns -> HandlerSteps]
    /\ outbox \in [Conns -> Seq(Challenges)]
    /\ msg \in [Conns -> 0 .. MaxChallenges]
    /\ sent \in [Conns -> 0 .. MaxChallenges]

InHandWhileSending ==
    \A e \in Conns : sender[e] # "sending" => msg[e] = 0

StartedOnce ==
    \A e \in Conns : handler[e] \in {"none", "name"} => sender[e] = "none"

\* Before its connection is accepted a client has no sender and no payload.
Untouched ==
    \A e \in Conns : e > accepted =>
        /\ handler[e] = "none"
        /\ outbox[e] = <<>> /\ msg[e] = 0 /\ sent[e] = 0

Delivering ==
    \A e \in Clients : Continues(Waiting(msg[e], outbox[e]), sent[e], LastPushed(e))

Inv == BlastTypes /\ InHandWhileSending /\ StartedOnce /\ Untouched /\ Delivering

-----------------------------------------------------------------------------
(* Runs of consecutive payloads.                                           *)

LEMMA WiderSeq ==
    ASSUME NEW S, NEW T, S \subseteq T, NEW q \in Seq(S)
    PROVE  q \in Seq(T)
OBVIOUS

LEMMA ContinuesWhenPushed ==
    ASSUME NEW q \in Seq(Nat), NEW s \in Nat, NEW last \in Nat, Continues(q, s, last)
    PROVE  Continues(Append(q, last + 1), s, last + 1)
<1> DEFINE p == Append(q, last + 1)
<1>1. Len(p) = Len(q) + 1 /\ p[Len(q) + 1] = last + 1 /\ Len(q) \in Nat
      /\ \A i \in 1 .. Len(q) : p[i] = q[i]
  OBVIOUS
<1> HIDE DEF p
<1>2. \A i \in 1 .. Len(p) : p[i] = last + 1 - Len(p) + i
  BY <1>1 DEF Continues
<1>3. s # 0 => s = last + 1 - Len(p)
  BY <1>1 DEF Continues
<1> QED BY <1>2, <1>3 DEF Continues, p

LEMMA ContinuesWhenSent ==
    ASSUME NEW m \in Nat \ {0}, NEW box \in Seq(Nat), NEW s \in Nat, NEW last \in Nat,
           Continues(Waiting(m, box), s, last)
    PROVE  Continues(Waiting(0, box), m, last)
<1> DEFINE q == <<m>> \o box
<1>1. Waiting(m, box) = q
  BY DEF Waiting
<1>2. Len(q) = Len(box) + 1 /\ q[1] = m /\ Len(box) \in Nat
      /\ \A i \in 1 .. Len(box) : q[i + 1] = box[i]
  OBVIOUS
<1>3. Waiting(0, box) = box
  BY DEF Waiting
<1> HIDE DEF q
<1>4. \A i \in 1 .. Len(q) : q[i] = last - Len(q) + i
  BY <1>1 DEF Continues
<1>5. m = last - Len(box)
  <2>1. 1 \in 1 .. Len(q)
    BY <1>2
  <2>2. q[1] = last - Len(q) + 1
    BY <2>1, <1>4
  <2>3. q[1] = m /\ Len(q) = Len(box) + 1 /\ Len(box) \in Nat
    BY <1>2
  <2> HIDE <1>2, <1>4
  <2> QED BY <2>2, <2>3
<1>6. ASSUME NEW i \in 1 .. Len(box) PROVE box[i] = last - Len(box) + i
  <2>1. i + 1 \in 1 .. Len(q)
    BY <1>2
  <2>2. q[i + 1] = last - Len(q) + (i + 1)
    BY <2>1, <1>4
  <2> QED BY <2>2, <1>2
<1> QED BY <1>3, <1>5, <1>6 DEF Continues

\* What a pop takes from the outbox it puts in hand.
LEMMA WaitingWhenPopped ==
    ASSUME NEW box \in Seq(Nat \ {0}), box # <<>>
    PROVE  Waiting(Head(box), Tail(box)) = Waiting(0, box)
<1>1. Head(box) # 0 /\ <<Head(box)>> \o Tail(box) = box
  OBVIOUS
<1> QED BY <1>1 DEF Waiting

LEMMA WaitingWhenPushed ==
    ASSUME NEW m \in Nat, NEW box \in Seq(Nat), NEW c \in Nat
    PROVE  /\ Waiting(m, Append(box, c)) = Append(Waiting(m, box), c)
           /\ Waiting(m, box) \in Seq(Nat)
<1>1. <<m>> \o Append(box, c) = Append(<<m>> \o box, c)
  OBVIOUS
<1> QED BY <1>1 DEF Waiting

-----------------------------------------------------------------------------
(* The invariant.                                                          *)

LEMMA InitOK == Init => Inv
<1> SUFFICES ASSUME Init PROVE Inv
  OBVIOUS
<1> USE ConstantsAssumption DEF Init, Conns, Clients, Challenges
<1>1. BlastTypes
  <2>1. outbox \in [Conns -> Seq(Challenges)]
    OBVIOUS
  <2> QED BY <2>1 DEF BlastTypes, SenderSteps, HandlerSteps
<1>2. InHandWhileSending /\ StartedOnce /\ Untouched
  BY DEF InHandWhileSending, StartedOnce, Untouched
<1>3. Delivering
  BY DEF Delivering
<1> QED BY <1>1, <1>2, <1>3 DEF Inv

\* Steps that leave every queue, every hand and the round alone.
LEMMA DeliveringStays ==
    ASSUME Delivering, UNCHANGED <<accepted, challengeId, next, outbox, msg, sent>>
    PROVE  Delivering'
BY DEF Delivering, LastPushed, Clients, Challenges

LEMMA ThreadsOK ==
    ASSUME Inv, NEW e \in Conns,
           RecvName(e) \/ Handler(e) \/ Loop(e) \/ FallAsleep(e) \/ Read(e) \/ Leave(e)
    PROVE  Inv'
<1> USE DEF Inv
<1>1. UNCHANGED <<accepted, challengeId, next, outbox, msg, sent>>
  BY DEF RecvName, Handler, NoName, StopRunning, NotifyAll, Close, Loop, FallAsleep, Read, Leave
<1>0. /\ sender \in [Conns -> SenderSteps] /\ handler \in [Conns -> HandlerSteps]
      /\ handler[e] \in {"none", "name"} => sender[e] = "none"
  BY DEF BlastTypes, StartedOnce
<1>2. /\ \A c \in Conns : /\ sender'[c] = "sending" <=> sender[c] = "sending"
                          /\ handler'[c] \in {"none", "name"} =>
                                 handler'[c] = handler[c] /\ sender'[c] = sender[c]
                          /\ handler[c] = "none" => handler'[c] = "none"
      /\ sender' \in [Conns -> SenderSteps] /\ handler' \in [Conns -> HandlerSteps]
  <2> HIDE DEF Inv
  <2> USE <1>0 DEF SenderSteps, HandlerSteps
  <2>1. CASE RecvName(e)
    BY <2>1 DEF RecvName
  <2>2. CASE NoName(e)
    BY <2>2 DEF NoName
  <2>3. CASE StopRunning(e)
    BY <2>3 DEF StopRunning
  <2>4. CASE NotifyAll(e)
    BY <2>4 DEF NotifyAll, Notified
  <2>5. CASE Close(e)
    BY <2>5 DEF Close
  <2>6. CASE Loop(e)
    BY <2>6 DEF Loop
  <2>7. CASE FallAsleep(e)
    BY <2>7 DEF FallAsleep
  <2>8. CASE Read(e) \/ Leave(e)
    BY <2>8 DEF Read, Leave
  <2> QED BY <2>1, <2>2, <2>3, <2>4, <2>5, <2>6, <2>7, <2>8 DEF Handler
<1>3. BlastTypes'
  BY <1>1, <1>2 DEF BlastTypes
<1>4. InHandWhileSending'
  BY <1>1, <1>2 DEF InHandWhileSending
<1>5. StartedOnce'
  BY <1>2 DEF StartedOnce
<1>6. Untouched'
  BY <1>1, <1>2 DEF Untouched
<1> QED BY <1>1, <1>3, <1>4, <1>5, <1>6, DeliveringStays

\* A sender that takes a payload, or finds none.
LEMMA TakesOK ==
    ASSUME Inv, NEW e \in Conns, TestPredicate(e) \/ Drain(e)
    PROVE  Inv'
<1> USE DEF Inv
<1>1. sender[e] \in {"awake", "draining"} /\ msg[e] = 0 /\ handler[e] \notin {"none", "name"}
  BY DEF TestPredicate, Drain, InHandWhileSending, StartedOnce
<1>2. UNCHANGED <<accepted, handler, sent, challengeId, next>>
  BY DEF TestPredicate, Drain
<1>3. e \in Clients
  BY <1>1 DEF Untouched, Conns, Clients, BlastTypes
<1>4. CASE Pop(e)
  <2>0. Challenges \subseteq Nat \ {0} /\ Challenges \subseteq 0 .. MaxChallenges
    BY ConstantsAssumption DEF Challenges
  <2>1. outbox[e] \in Seq(Nat \ {0}) /\ outbox[e] \in Seq(Challenges) /\ outbox[e] # <<>>
    <3>1. outbox[e] \in Seq(Challenges) /\ outbox[e] # <<>>
      BY <1>4 DEF Pop, BlastTypes
    <3> QED BY <3>1, <2>0, WiderSeq
  <2>2. Head(outbox[e]) \in Challenges /\ Tail(outbox[e]) \in Seq(Challenges)
    BY <2>1
  <2>3. BlastTypes'
    <3>1. outbox' \in [Conns -> Seq(Challenges)] /\ msg' \in [Conns -> 0 .. MaxChallenges]
      BY <1>4, <2>0, <2>2 DEF BlastTypes, Pop
    <3>2. sender' \in [Conns -> SenderSteps]
      BY <1>4 DEF BlastTypes, Pop, SenderSteps
    <3> QED BY <1>2, <3>1, <3>2 DEF BlastTypes
  <2>4. /\ msg'[e] = Head(outbox[e]) /\ outbox'[e] = Tail(outbox[e])
        /\ \A c \in Conns \ {e} : msg'[c] = msg[c] /\ outbox'[c] = outbox[c]
                                  /\ sender'[c] = sender[c]
        /\ sender'[e] = "sending"
    BY <1>4 DEF Pop, BlastTypes
  <2>5. InHandWhileSending'
    BY <2>4 DEF InHandWhileSending
  <2>6. StartedOnce'
    BY <1>1, <1>2, <2>4 DEF StartedOnce
  <2>7. Untouched'
    BY <1>1, <1>2, <2>4 DEF Untouched
  <2>8. \A c \in Clients : Waiting(msg'[c], outbox'[c]) = Waiting(msg[c], outbox[c])
    <3>1. Waiting(Head(outbox[e]), Tail(outbox[e])) = Waiting(0, outbox[e])
      BY <2>1, WaitingWhenPopped
    <3>2. \A c \in Clients : c \in Conns
      BY ConstantsAssumption DEF Clients, Conns, BlastTypes
    <3>3. Waiting(msg'[e], outbox'[e]) = Waiting(msg[e], outbox[e])
      BY <3>1, <1>1, <2>4
    <3> QED BY <3>2, <3>3, <2>4
  <2>9. Delivering'
    BY <1>2, <2>8 DEF Delivering, LastPushed, Clients, Challenges
  <2> QED BY <2>3, <2>5, <2>6, <2>7, <2>9
<1>5. CASE ~Pop(e)
  <2>1. /\ UNCHANGED <<outbox, msg>> /\ sender' \in [Conns -> SenderSteps]
        /\ \A c \in Conns \ {e} : sender'[c] = sender[c]
    <3>1. sender \in [Conns -> SenderSteps]
      BY DEF BlastTypes
    <3>2. CASE TestPredicate(e)
      BY <1>5, <3>1, <3>2 DEF TestPredicate, SenderSteps
    <3>3. CASE Drain(e)
      BY <1>5, <3>1, <3>3 DEF Drain, SenderSteps
    <3> QED BY <3>2, <3>3
  <2>2. BlastTypes'
    BY <1>2, <2>1 DEF BlastTypes
  <2>3. InHandWhileSending'
    BY <1>1, <2>1 DEF InHandWhileSending
  <2>4. StartedOnce'
    BY <1>1, <1>2, <2>1 DEF StartedOnce
  <2>5. Untouched'
    BY <1>2, <2>1 DEF Untouched
  <2> QED BY <1>2, <2>1, <2>2, <2>3, <2>4, <2>5, DeliveringStays
<1> QED BY <1>4, <1>5

LEMMA SendOK ==
    ASSUME Inv, NEW e \in Conns, Send(e)
    PROVE  Inv'
<1> USE DEF Inv
<1>1. handler[e] \notin {"none", "name"} /\ UNCHANGED <<accepted, handler, outbox, challengeId, next>>
  BY DEF Send, StartedOnce
<1>2. /\ sent'[e] = msg[e] /\ msg'[e] = 0 /\ sender'[e] = "draining"
      /\ \A c \in Conns \ {e} : msg'[c] = msg[c] /\ sent'[c] = sent[c] /\ sender'[c] = sender[c]
  BY DEF Send, BlastTypes
<1>3. e \in Clients
  BY <1>1 DEF Untouched, Conns, Clients, BlastTypes
<1>4. BlastTypes'
  <2>1. /\ msg' = [msg EXCEPT ![e] = 0] /\ sent' = [sent EXCEPT ![e] = msg[e]]
        /\ sender' = [sender EXCEPT ![e] = "draining"]
    BY DEF Send
  <2>2. msg' \in [Conns -> 0 .. MaxChallenges] /\ sent' \in [Conns -> 0 .. MaxChallenges]
    BY <2>1, ConstantsAssumption DEF BlastTypes
  <2>3. sender' \in [Conns -> SenderSteps]
    BY <2>1 DEF BlastTypes, SenderSteps
  <2> QED BY <1>1, <2>2, <2>3 DEF BlastTypes
<1>5. InHandWhileSending'
  BY <1>2 DEF InHandWhileSending
<1>6. StartedOnce'
  BY <1>1, <1>2 DEF StartedOnce
<1>7. Untouched'
  BY <1>1, <1>2 DEF Untouched
<1>8. \A c \in Clients : LastPushed(c)' = LastPushed(c) /\ LastPushed(c) \in Nat
  BY <1>1, ConstantsAssumption DEF LastPushed, BlastTypes, Clients, Challenges
<1>9. ASSUME NEW c \in Clients
      PROVE  Continues(Waiting(msg'[c], outbox[c]), sent'[c], LastPushed(c))
  <2>1. Continues(Waiting(msg[c], outbox[c]), sent[c], LastPushed(c)) /\ c \in Conns
    BY ConstantsAssumption DEF Delivering, Clients, Conns, BlastTypes
  <2>2. CASE c # e
    BY <1>2, <2>1, <2>2
  <2>3. CASE c = e /\ msg[e] = 0
    BY <1>2, <2>1, <2>3 DEF Continues
  <2>4. CASE c = e /\ msg[e] # 0
    <3>1. msg[e] \in Nat \ {0} /\ outbox[e] \in Seq(Nat) /\ sent[e] \in Nat
      BY <2>4, ConstantsAssumption DEF BlastTypes, Challenges
    <3> QED BY <1>2, <1>8, <2>1, <2>4, <3>1, ContinuesWhenSent
  <2> QED BY <2>2, <2>3, <2>4
<1>10. Delivering'
  BY <1>1, <1>8, <1>9 DEF Delivering, Clients
<1> QED BY <1>4, <1>5, <1>6, <1>7, <1>10

LEMMA AcceptOK ==
    ASSUME Inv, Accept
    PROVE  Inv'
<1> DEFINE new == accepted + 1
<1> USE DEF Inv
<1>1. /\ accepted' = new /\ new \in Conns /\ next = 0 /\ accepted \in Nat
      /\ handler' = [handler EXCEPT ![new] = "name"]
      /\ UNCHANGED <<sender, outbox, msg, sent, challengeId, next>>
  BY ConstantsAssumption DEF Accept, BlastTypes, Conns
<1>2. handler[new] = "none" /\ outbox[new] = <<>> /\ msg[new] = 0 /\ sent[new] = 0
  BY <1>1 DEF Untouched
<1> HIDE DEF new
<1>3. /\ handler'[new] = "name" /\ handler' \in [Conns -> HandlerSteps]
      /\ \A c \in Conns \ {new} : handler'[c] = handler[c]
  BY <1>1 DEF BlastTypes, HandlerSteps
<1>4. BlastTypes'
  <2>1. new \in 0 .. MaxConns /\ next \in 0 .. new + 1
    BY <1>1, ConstantsAssumption DEF Conns
  <2> QED BY <1>1, <1>3, <2>1 DEF BlastTypes
<1>5. InHandWhileSending'
  BY <1>1 DEF InHandWhileSending
<1>6. StartedOnce'
  BY <1>1, <1>2, <1>3 DEF StartedOnce
<1>7. Untouched'
  BY <1>1, <1>3 DEF Untouched, new, Conns
<1>8. \A c \in Clients' : c \in Clients \/ c = new
  BY <1>1 DEF Clients, new
<1>9. \A c \in Conns : LastPushed(c)' = LastPushed(c)
  BY <1>1 DEF LastPushed
<1>10. Continues(Waiting(msg[new], outbox[new]), sent[new], LastPushed(new))
  <2>1. Waiting(0, <<>>) = <<>>
    BY DEF Waiting
  <2> QED BY <1>2, <2>1 DEF Continues
<1>11. \A c \in Clients : c \in Conns
  BY ConstantsAssumption DEF Clients, Conns, BlastTypes
<1>12. Delivering'
  BY <1>1, <1>8, <1>9, <1>10, <1>11 DEF Delivering
<1> QED BY <1>4, <1>5, <1>6, <1>7, <1>12

LEMMA RoundsOK ==
    ASSUME Inv, StartRound \/ EndRound
    PROVE  Inv'
<1> USE DEF Inv
<1>1. UNCHANGED <<accepted, handler, sender, outbox, msg, sent>>
  BY DEF StartRound, EndRound
<1>2. next' \in 0 .. accepted + 1 /\ challengeId' \in 1 .. MaxChallenges + 1
  BY ConstantsAssumption DEF StartRound, EndRound, BlastTypes, Challenges
<1>3. BlastTypes'
  BY <1>1, <1>2 DEF BlastTypes
<1>4. InHandWhileSending' /\ StartedOnce' /\ Untouched'
  BY <1>1 DEF InHandWhileSending, StartedOnce, Untouched
<1>5. \A c \in Clients : LastPushed(c)' = LastPushed(c)
  BY ConstantsAssumption DEF LastPushed, StartRound, EndRound, BlastTypes, Clients, Challenges
<1>6. Delivering'
  BY <1>1, <1>5 DEF Delivering, Clients
<1> QED BY <1>3, <1>4, <1>6

\* The one client whose turn it is gets the round's payload behind the others.
LEMMA PushOK ==
    ASSUME Inv, Push
    PROVE  Inv'
<1> USE DEF Inv
<1>0. /\ next \in Clients /\ next \in Conns /\ next' = next + 1 /\ next \in Nat /\ accepted \in Nat
      /\ outbox' = Queued(next) /\ sender' = Notified(next)
      /\ UNCHANGED <<accepted, handler, msg, sent, challengeId>>
  BY ConstantsAssumption DEF Push, BlastTypes, Clients, Conns
<1>1. /\ sender' \in [Conns -> SenderSteps]
      /\ \A c \in Conns : /\ sender'[c] = "sending" <=> sender[c] = "sending"
                          /\ sender'[c] = "none" <=> sender[c] = "none"
  BY <1>0 DEF Notified, BlastTypes, SenderSteps
<1>2. /\ outbox' \in [Conns -> Seq(Challenges)]
      /\ \A c \in Conns \ {next} : outbox'[c] = outbox[c]
      /\ challengeId \in Challenges => outbox'[next] = Append(outbox[next], challengeId)
      /\ challengeId \notin Challenges => outbox'[next] = outbox[next]
  <2>1. outbox \in [Conns -> Seq(Challenges)] /\ outbox[next] \in Seq(Challenges)
    BY <1>0 DEF BlastTypes
  <2>2. challengeId \in Challenges => Append(outbox[next], challengeId) \in Seq(Challenges)
    BY <2>1
  <2> QED BY <1>0, <2>1, <2>2 DEF Queued
<1>3. BlastTypes'
  <2>1. next' \in 0 .. accepted + 1
    BY <1>0 DEF Clients
  <2> QED BY <1>0, <1>1, <1>2, <2>1 DEF BlastTypes
<1>4. InHandWhileSending' /\ StartedOnce'
  BY <1>0, <1>1 DEF InHandWhileSending, StartedOnce
<1>5. Untouched'
  <2>1. \A c \in Conns : c > accepted => c # next
    BY <1>0 DEF Clients, Conns
  <2> QED BY <1>0, <1>2, <2>1 DEF Untouched
<1>6. ASSUME NEW c \in Clients
      PROVE  Continues(Waiting(msg[c], outbox'[c]), sent[c], LastPushed(c)')
  <2>1. Continues(Waiting(msg[c], outbox[c]), sent[c], LastPushed(c)) /\ c \in Conns /\ c \in Nat
    BY ConstantsAssumption DEF Delivering, Clients, Conns, BlastTypes
  <2>2. CASE c # next
    <3>1. LastPushed(c)' = LastPushed(c)
      BY <1>0, <2>1, <2>2 DEF LastPushed, Challenges
    <3> QED BY <1>2, <2>1, <2>2, <3>1
  <2>3. CASE c = next /\ challengeId \notin Challenges
    BY <1>0, <1>2, <2>1, <2>3 DEF LastPushed, Challenges
  <2>4. CASE c = next /\ challengeId \in Challenges
    <3> DEFINE last == challengeId - 1
               q == Waiting(msg[c], outbox[c])
    <3>1. LastPushed(c) = last /\ LastPushed(c)' = last + 1 /\ last \in Nat /\ last + 1 = challengeId
      BY <1>0, <2>4, ConstantsAssumption DEF LastPushed, Challenges
    <3>2. msg[c] \in Nat /\ sent[c] \in Nat /\ challengeId \in Nat
      BY <2>1, <2>4, ConstantsAssumption DEF BlastTypes, Challenges
    <3>3. outbox[c] \in Seq(Nat)
      <4>1. Challenges \subseteq Nat /\ outbox[c] \in Seq(Challenges)
        BY <2>1, ConstantsAssumption DEF BlastTypes, Challenges
      <4> QED BY <4>1, WiderSeq
    <3>4. Waiting(msg[c], outbox'[c]) = Append(q, challengeId) /\ q \in Seq(Nat)
      <4>1. outbox'[c] = Append(outbox[c], challengeId)
        BY <1>2, <2>4
      <4>2. /\ Waiting(msg[c], Append(outbox[c], challengeId)) = Append(q, challengeId)
            /\ q \in Seq(Nat)
        BY <3>2, <3>3, WaitingWhenPushed
      <4> QED BY <4>1, <4>2
    <3>5. Continues(q, sent[c], last)
      BY <2>1, <3>1
    <3> HIDE DEF q, last
    <3>6. Continues(Append(q, last + 1), sent[c], last + 1)
      BY <3>1, <3>2, <3>4, <3>5, ContinuesWhenPushed
    <3> QED BY <3>1, <3>4, <3>6
  <2> QED BY <2>2, <2>3, <2>4
<1>7. Delivering'
  BY <1>0, <1>6 DEF Delivering, Clients
<1> QED BY <1>3, <1>4, <1>5, <1>7

LEMMA NextOK == Inv /\ [Next]_vars => Inv'
<1> SUFFICES ASSUME Inv, [Next]_vars PROVE Inv'
  OBVIOUS
<1>1. CASE Accept
  BY <1>1, AcceptOK
<1>2. CASE Broadcaster
  BY <1>2, RoundsOK, PushOK DEF Broadcaster
<1>3. ASSUME NEW e \in Conns, RecvName(e) \/ Handler(e) \/ Sender(e) \/ Read(e) \/ Leave(e)
      PROVE  Inv'
  BY <1>3, ThreadsOK, TakesOK, SendOK DEF Sender
<1>4. CASE UNCHANGED vars
  BY <1>4 DEF vars, Inv, BlastTypes, InHandWhileSending, StartedOnce, Untouched, Delivering,
              LastPushed, Clients
<1> QED BY <1>1, <1>2, <1>3, <1>4 DEF Next

THEOREM Invariance == Spec => []Inv
<1> QED BY InitOK, NextOK, PTL DEF Spec

(***************************************************************************)
(* Whatever the interleaving of the broadcaster, the senders, the handlers *)
(* and the clients' comings and goings, each sender of blast_server.cpp    *)
(* hands over what was pushed for its client, once and in order.           *)
(***************************************************************************)
THEOREM EachPayloadOnceInOrder == Spec => []NothingLostOrRepeated
<1>1. Inv => NothingLostOrRepeated
  BY DEF Inv, Delivering, Continues, Waiting, LastPushed, NothingLostOrRepeated, Pending
<1> QED BY Invariance, <1>1, PTL

=============================================================================
