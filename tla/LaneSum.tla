---- MODULE LaneSum ----
(***************************************************************************)
(* The vector loop of trace_AB_T, for one of its lanes: a lane holds a     *)
(* 32-bit integer in each of two accumulators, every round adds to each of *)
(* them the sum of two products, and only after the loop, when the two     *)
(* have been added, the lanes are widened to 64 bits.                      *)
(***************************************************************************)
EXTENDS Integers

CONSTANTS Rounds,    \* of the loop: 512 with AVX2, 256 with AVX-512
          Mod,       \* values of the matrices are below it
          HalfRange  \* a lane holds the integers from -HalfRange: 2^31

(***************************************************************************)
(* The room the comment on trace_AB_T counts on, for both accumulators.    *)
(***************************************************************************)
ASSUME LaneAssumption == Rounds \in Nat /\ Mod \in Nat \ {0} /\ HalfRange \in Nat

ASSUME HeadroomAssumption == 2 * Rounds * (2 * ((Mod - 1) * (Mod - 1))) < HalfRange

VARIABLES
    round,       \* rounds done; Rounds + 1 after the loop
    acc0, acc1,  \* the accumulators
    acc,         \* their sum
    exact        \* what the products of the lane sum up to

laneVars == <<round, acc0, acc1, acc, exact>>

\* Fault: the loop is given values that have not been reduced.
PairSumsUnreduced == {x * y + z * w : x, y, z, w \in 0 .. Mod}

\* What madd_epi16 makes of two values of A and the two of B at their places.
PairSums == {x * y + z * w : x, y, z, w \in 0 .. Mod - 1}

\* Addition in a lane.
Plus(x, y) ==
    IF x + y >= HalfRange THEN x + y - 2 * HalfRange
    ELSE IF x + y < -HalfRange THEN x + y + 2 * HalfRange
    ELSE x + y

LaneInit == round = 0 /\ acc0 = 0 /\ acc1 = 0 /\ acc = 0 /\ exact = 0

Accumulate(p, q) ==
    /\ round < Rounds
    /\ round' = round + 1
    /\ acc0' = Plus(acc0, p)
    /\ acc1' = Plus(acc1, q)
    /\ exact' = exact + p + q
    /\ UNCHANGED acc

Merge ==
    /\ round = Rounds
    /\ round' = Rounds + 1
    /\ acc' = Plus(acc0, acc1)
    /\ UNCHANGED <<acc0, acc1, exact>>

LaneNext == (\E p, q \in PairSums : Accumulate(p, q)) \/ Merge

LaneSpec == LaneInit /\ [][LaneNext]_laneVars

----------------------------------------------------------------------------
(***************************************************************************)
(* A lane never wraps around, also not when the accumulators are added:    *)
(* what is widened is the sum of all its products.                         *)
(***************************************************************************)
LaneIsExact == round = Rounds + 1 => acc = exact
====
