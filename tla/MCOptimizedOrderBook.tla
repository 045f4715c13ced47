------------------------ MODULE MCOptimizedOrderBook ------------------------
(* The instance TLC checks: order ids are interchangeable. *)
EXTENDS OptimizedOrderBook, TLC

IdSymmetry == Permutations(Ids)
=============================================================================
