---- MODULE MCParts ----
(***************************************************************************)
(* The sequential parts side by side: a behaviour is one of them, named by *)
(* subject, from its start on, and the others stay as they begin.  None of *)
(* them knows of another, so one run checks all their sequences of calls.  *)
(***************************************************************************)
EXTENDS BinaryHeap, SharedHandle, UniqueHandle, MemoryPool, LaneSum, WorkerCpu, Comparisons, TLC

CONSTANTS k1, k2, k3, k4, k5, k6  \* keys of the hash table

VARIABLE subject

(***************************************************************************)
(* Six keys in a table of eight slots, with homes in the last two, so that *)
(* chains wrap around; an insert into a table of six makes it grow.  k4    *)
(* and k6 have the same hash.                                              *)
(***************************************************************************)
Hashes == (k1 :> 6) @@ (k2 :> 14) @@ (k3 :> 7) @@ (k4 :> 23) @@ (k5 :> 15) @@ (k6 :> 23)

----------------------------------------------------------------------------
Parts == {"heap", "shared handles", "pool", "lane", "hash table", "flat levels", "index",
          "baseline", "unique handles", "checksum", "trace", "worker cpu", "ticks"}

Init ==
    /\ subject \in Parts
    /\ HeapInit /\ HandleInit /\ UniqueInit /\ PoolInit /\ LaneInit
    /\ Robin!Init /\ Flat!Init /\ Indexed!Init /\ Base!Init
    /\ Sums!Init /\ Traces!Init /\ Ticks!Init
    /\ IF subject = "worker cpu" THEN CpuInit
       ELSE topology = <<>> /\ main_cpu = 0 /\ picked = Pending

\* A part is still while another one is looked at.
Still(part, its) == IF subject = part THEN TRUE ELSE UNCHANGED its

OthersStill ==
    /\ UNCHANGED subject
    /\ Still("heap", heapVars)
    /\ Still("shared handles", handleVars)
    /\ Still("pool", poolVars)
    /\ Still("lane", laneVars)
    /\ Still("hash table", <<table, entries>>)
    /\ Still("flat levels", <<sides, deadOrders>>)
    /\ Still("index", <<byId, index>>)
    /\ Still("baseline", <<orderLevels, orderLookup>>)
    /\ Still("unique handles", uniqueVars)
    /\ Still("checksum", <<matrixA, matrixB, colA, sumB, checksum>>)
    /\ Still("trace", <<parsedA, parsedB>>)
    /\ Still("worker cpu", cpuVars)
    /\ Still("ticks", <<feed, history, placed>>)

Next ==
    /\ \/ subject = "heap" /\ HeapNext
       \/ subject = "shared handles" /\ HandleNext
       \/ subject = "pool" /\ PoolNext
       \/ subject = "lane" /\ LaneNext
       \/ subject = "hash table" /\ Robin!Next
       \/ subject = "flat levels" /\ Flat!Next
       \/ subject = "index" /\ Indexed!Next
       \/ subject = "baseline" /\ Base!Next
       \/ subject = "unique handles" /\ UniqueNext
       \/ subject = "checksum" /\ Sums!Next
       \/ subject = "trace" /\ Traces!Next
       \/ subject = "worker cpu" /\ PickWorkerCpu
       \/ subject = "ticks" /\ Ticks!Next
    /\ OthersStill

Spec == Init /\ [][Next]_<<subject, heapVars, handleVars, uniqueVars, poolVars, laneVars, Robin!vars,
                           Flat!vars, Indexed!vars, Base!vars, Sums!vars,
                           Traces!vars, cpuVars, Ticks!vars>>

====
