---- MODULE Comparisons ----
(***************************************************************************)
(* The parts that have a plain counterpart: books that keep an index or a  *)
(* second copy of what a simpler book finds by looking, and answers that   *)
(* are computed in one pass while their data arrives.  Each stands by      *)
(* itself, over variables and constants of its own.                        *)
(***************************************************************************)
EXTENDS Integers

CONSTANTS
    Orders, VectorPrices,              \* of the vector book of phase4
    Few, MapPrices, MapQuantities,     \* of the indexed book of hw5 and phase5's baseline
    Keys, MapValues, Absent, Hash, MinCapacity, \* of the hash table
    Size, SumMod, TraceMod,            \* of the matrices, and the two challenges' moduli
    Traded, TickPrices, Low, High,     \* of hw3's feed and engine
    Window, Enough, MaxTicks

VARIABLES
    sides, deadOrders,                    \* FlatOrderBook
    byId, index,                          \* IndexedBook
    orderLevels, orderLookup,             \* OrderBook
    table, entries,                       \* RobinHood
    matrixA, matrixB, colA, sumB, checksum, \* Checksum
    parsedA, parsedB,                     \* TraceAnswer
    feed, history, placed                 \* TickEngine

Flat == INSTANCE FlatOrderBook WITH
    Ids <- Orders, Prices <- VectorPrices, levels <- sides, dead <- deadOrders
Indexed == INSTANCE IndexedBook WITH
    Ids <- Few, Prices <- MapPrices, Quantities <- MapQuantities, levels <- index
Base == INSTANCE OrderBook WITH Ids <- Few, Prices <- MapPrices, Quantities <- MapQuantities
Robin == INSTANCE RobinHood WITH size <- entries, Values <- MapValues, Null <- Absent
Sums == INSTANCE Checksum WITH N <- Size, Mod <- SumMod, a <- matrixA, b <- matrixB, s <- sumB
Traces == INSTANCE TraceAnswer WITH N <- Size, Mod <- TraceMod, a <- parsedA, b <- parsedB
Ticks == INSTANCE TickEngine WITH
    Instruments <- Traded, Prices <- TickPrices, orders <- placed

ASSUME ComparisonAssumption ==
    /\ Flat!PricesAssumption /\ Indexed!ParameterAssumption
    /\ Robin!ParameterAssumption
    /\ Sums!ParameterAssumption /\ Traces!ParameterAssumption
    /\ Ticks!TickAssumption

\* The books, each under its own calls.
BooksSpec == Flat!Spec /\ Indexed!Spec /\ Base!Spec

\* The answers, each over its own data.
OnePassSpec == Sums!Spec /\ Traces!Spec /\ Ticks!Spec

----------------------------------------------------------------------------
(***************************************************************************)
(* Each book does what the plain one it stands for does: the vector book   *)
(* of phase4 (see FlatOrderBook), the indexed book of hw5 (IndexedBook),   *)
(* and the two copies of an order in the baseline book of phase5.  The     *)
(* alternative UNCHANGED in the two steps is allowed by what follows it,   *)
(* and only spares its evaluation where another part took the step.        *)
(***************************************************************************)
BooksAgree ==
    /\ Flat!MapBook!Init /\ Indexed!Flat!Init
    /\ [][UNCHANGED <<sides, deadOrders>> \/ Flat!StepsAsMapBook]_<<sides, deadOrders>>
    /\ [][UNCHANGED <<byId, index>> \/ Indexed!StepsAsFlatBook]_<<byId, index>>
    /\ [](Flat!PruneFindsBest /\ Indexed!BestAsScanned /\ Base!CopiesAgree)

(***************************************************************************)
(* RobinHoodMap of hw5/part1 begins empty and does what a map would, over  *)
(* every sequence of inserts, finds and erases (see RobinHood).            *)
(***************************************************************************)
IsAMap ==
    /\ Robin!Answers(table) = [k \in Keys |-> Absent]
    /\ [][UNCHANGED <<table, entries>> \/ Robin!StepsAsMap]_<<table, entries>>
    /\ [](Robin!SizeIsCount /\ Robin!RoomIsLeft)

(***************************************************************************)
(* What is computed in one pass while the data arrives is what the whole   *)
(* data gives: the student client's checksum, the low-latency client's     *)
(* trace and the orders of hw3's tick engine.                              *)
(***************************************************************************)
OnePassAgrees == Sums!AnswersAgree /\ Traces!ClientsAgree /\ Ticks!OrdersAsOverFeed
====
