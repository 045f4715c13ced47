----------------------------- MODULE TickEngine -----------------------------
(***************************************************************************)
(* The tick engine of hw3: ticks arrive one at a time, each instrument in  *)
(* turn, the engine keeps a window of the latest prices of each instrument *)
(* and three signals decide whether a tick becomes an order.               *)
(*                                                                         *)
(* Prices are integers.  The code compares doubles: here an average times  *)
(* 0.98 or 1.02 is compared exactly, by cross-multiplication, so ties that *)
(* rounding may break either way are outside the model.  Latencies and the *)
(* report are left out.                                                    *)
(***************************************************************************)
EXTENDS Sequences, RunningSum

CONSTANTS
    Instruments,  \* how many instruments the feed takes in turn (10)
    Prices,       \* the prices the feed may draw
    Low, High,    \* the extremes of the price range (105 and 195)
    Window,       \* how many prices the history of an instrument keeps (10)
    Enough,       \* how many of them mean reversion asks for (5)
    MaxTicks      \* bound: the length of the feed

TickAssumption ==
    /\ Instruments \in Nat \ {0}
    /\ Prices \subseteq Nat
    /\ Low \in Int /\ High \in Int
    /\ Window \in Nat /\ Window >= 3   \* the rise takes three prices
    /\ Enough \in 1..Window
    /\ MaxTicks \in Nat

VARIABLES
    feed,     \* the ticks processed so far: instrument and price
    history,  \* price_history
    orders    \* the orders placed, each with its tick's place in the feed

vars == <<feed, history, orders>>

Total(s) == SumTo(s, Len(s))

(***************************************************************************)
(* updateHistory: append, then drop the front of a window that overflows.  *)
(***************************************************************************)
Updated(h, price) ==
    LET longer == Append(h, price)
    IN  IF Len(longer) > Window THEN Tail(longer) ELSE longer

\* The three signals, on a history that already holds the tick's price.
signal1(price) == price < Low \/ price > High

BelowAverage(h, price) == price * Len(h) < Total(h)

signal2(h, price) ==
    /\ Len(h) >= Enough
    /\ \/ 100 * price * Len(h) < 98 * Total(h)
       \/ 100 * price * Len(h) > 102 * Total(h)

signal3(h) ==
    LET n == Len(h)
    IN  /\ n >= 3
        /\ h[n - 1] > h[n - 2]
        /\ h[n] > h[n - 1]

\* The side the signals ask for; of buy and sell, buy is the one placed.
Side(h, price) ==
    LET buy  == \/ signal1(price)
                \/ signal2(h, price) /\ BelowAverage(h, price)
                \/ signal3(h)
        sell == signal2(h, price) /\ ~BelowAverage(h, price)
    IN  IF buy THEN "buy" ELSE IF sell THEN "sell" ELSE "none"

-----------------------------------------------------------------------------

Init ==
    /\ feed = <<>>
    /\ history = [i \in 0..Instruments - 1 |-> <<>>]
    /\ orders = <<>>

\* One turn of process: the history first, then the signals over it.
Tick(price) ==
    LET i == Len(feed) % Instruments
        h == Updated(history[i], price)
    IN  /\ Len(feed) < MaxTicks
        /\ feed' = Append(feed, [instrument |-> i, price |-> price])
        /\ history' = [history EXCEPT ![i] = h]
        /\ orders' = IF Side(h, price) = "none" THEN orders
                     ELSE Append(orders, [tick |-> Len(feed) + 1, side |-> Side(h, price)])

Next == \E price \in Prices : Tick(price)

Spec == Init /\ [][Next]_vars

-----------------------------------------------------------------------------

(***************************************************************************)
(* The orders stated over the feed alone, with no running window.          *)
(***************************************************************************)
PricesOf(ticks, i, n) ==
    LET own[k \in 0 .. n] ==
            IF k = 0 THEN <<>>
            ELSE IF ticks[k].instrument = i THEN Append(own[k - 1], ticks[k].price) ELSE own[k - 1]
    IN  own[n]

PricesUpTo(k) == PricesOf(feed, feed[k].instrument, k)

Latest(s) == SubSeq(s, IF Len(s) > Window THEN Len(s) - Window + 1 ELSE 1, Len(s))

Recent(k) == Latest(PricesUpTo(k))

Rising(s) == Len(s) >= 3 /\ \A j \in Len(s) - 1 .. Len(s) : s[j] > s[j - 1]

Placed(k, side) == \E n \in DOMAIN orders : orders[n] = [tick |-> k, side |-> side]

\* Over any feed, the running windows give the orders the whole feed does: a
\* tick is sold exactly when it is more than two percent above the average of
\* its instrument's latest prices, is not extreme and does not end two rises,
\* and what is neither bought nor sold is within two percent of the average
\* or too early to tell. The windows of the instruments never mix.
OrdersAsOverFeed ==
    \A k \in DOMAIN feed :
        LET s     == Recent(k)
            p     == feed[k].price
            early == Len(s) < Enough
            high  == ~early /\ 100 * p * Len(s) > 102 * Total(s)
            low   == ~early /\ 100 * p * Len(s) < 98 * Total(s)
            urged == p \notin Low..High \/ Rising(PricesUpTo(k))
        IN  /\ Placed(k, "buy") <=> urged \/ low
            /\ Placed(k, "sell") <=> high /\ ~urged

=============================================================================
