-------------------------- MODULE WorkerHandshake --------------------------
(***************************************************************************)
(* The two threads of the low-latency client hft/src/client.cpp.  main     *)
(* receives a challenge into recvbuf, publishes in worker_p where matrix B *)
(* starts, raises work_state to 1 and parses A itself; the worker spins    *)
(* on work_state, parses B and stores 2; main waits for 2, resets to 0,    *)
(* computes the trace from A and B and sends the answer.  Shutdown wakes   *)
(* the worker by the same flag.  Without a usable second CPU main parses   *)
(* both matrices (the serial fallback).                                    *)
(*                                                                         *)
(* worker_p, recvbuf, A and B are plain memory; only work_state and        *)
(* worker_exit are atomic.  So the model keeps, per thread, the plain      *)
(* objects whose accesses by the other thread happen before it (seen), and *)
(* what an acquire load of the value now in work_state would add to that   *)
(* (released).  An access of an object that is not in seen is a data race. *)
(* A relaxed store releases nothing.                                       *)
(***************************************************************************)
EXTENDS Integers

CONSTANTS
    MaxChallenges,  \* bound: payloads the server sends
    Rows            \* bound: steps in which a matrix is parsed (N in the code)

ASSUME ConstantsAssumption == MaxChallenges \in Nat /\ Rows \in Nat \ {0}

VARIABLES
    useWorker,   \* g_use_worker, decided once from the CPU topology
    work_state,
    worker_exit,
    worker_p,    \* the challenge whose B it points at, NullPtr before the first
    recvbuf,     \* the challenge in the buffer, Torn when half overwritten
    A, B,        \* per row: the challenge the numbers come from
    received,    \* payloads received so far
    answers,     \* per challenge: what the answer sent for it was computed from
    mpc, mrow,   \* main: next statement, row being parsed
    wpc, wrow,   \* worker: next statement, row being parsed
    wp,          \* worker's local copy of worker_p
    seen, released, raced

shared == <<work_state, worker_exit, worker_p, recvbuf, A, B>>
ghost == <<seen, released, raced>>
vars == <<useWorker, shared, received, answers, mpc, mrow, wpc, wrow, wp, ghost>>

NullPtr == 0
Torn == -1
Threads == {"main", "worker"}
Objects == {"worker_p", "recvbuf", "B"}
Challenges == 1 .. MaxChallenges
RowIds == 1 .. Rows
Contents == {Torn, NullPtr} \union Challenges

-----------------------------------------------------------------------------
(* The memory model. *)

Other(t) == IF t = "main" THEN "worker" ELSE "main"

\* Thread t reads or writes the plain objects X: the other thread is no longer
\* ordered after all of t's accesses, and no earlier release covers this one.
Access(t, X) ==
    /\ raced' = raced \union (X \ seen[t])
    /\ seen' = [seen EXCEPT ![Other(t)] = @ \ X]
    /\ released' = released \ X

\* Fault: memory_order_relaxed.
RelaxedStore(t) == released' = {} /\ UNCHANGED <<seen, raced>>

ReleaseStore(t) == released' = seen[t] /\ UNCHANGED <<seen, raced>>

Relaxed == released' = {} /\ UNCHANGED <<seen, raced>>

AcquireLoad(t) == seen' = [seen EXCEPT ![t] = @ \union released] /\ UNCHANGED <<released, raced>>

-----------------------------------------------------------------------------
(* What the code tests and stores. *)

NextRow(r) == IF r < Rows THEN r + 1 ELSE 1

\* while (work_state.load(acquire) != 1)
SignalledUnlessParsed == work_state # 2

Signalled == work_state = 1

\* while (work_state.load(acquire) != 2)
ParsedUnlessIdle == work_state # 0

Parsed == work_state = 2

\* work_state.store(2, release)
HandedBackAsIdle == 0

HandedBack == 2

\* if (worker_exit.load(relaxed)) return
ExitWhenSignalled == worker_exit /\ work_state = 1

ExitSeen == worker_exit

-----------------------------------------------------------------------------
(* main *)

WorkerUnchanged == UNCHANGED <<wpc, wrow, wp>>

Init ==
    /\ useWorker \in BOOLEAN
    /\ work_state = 0
    /\ worker_exit = FALSE
    /\ worker_p = NullPtr
    /\ recvbuf = NullPtr
    /\ A = [r \in RowIds |-> NullPtr]
    /\ B = [r \in RowIds |-> NullPtr]
    /\ received = 0
    /\ answers = [c \in Challenges |-> {}]
    /\ mpc = "connect" /\ mrow = 1
    /\ wpc = (IF useWorker THEN "poll" ELSE "none")
    /\ wrow = 1 /\ wp = NullPtr
    /\ seen = [t \in Threads |-> Objects]   \* std::thread's constructor
    /\ released = {}
    /\ raced = {}

Connect ==
    /\ mpc = "connect"
    /\ mpc' = "recv"
    /\ UNCHANGED <<useWorker, shared, received, answers, mrow, ghost>> /\ WorkerUnchanged

\* return 1 from main: the destructor of the static worker_thread calls
\* std::terminate when the thread was started and never joined.
ConnectFails ==
    /\ mpc = "connect"
    /\ mpc' = IF useWorker THEN "terminate" ELSE "done"
    /\ UNCHANGED <<useWorker, shared, received, answers, mrow, ghost>> /\ WorkerUnchanged

\* recv_payload_busy returns a whole challenge.
RecvPayload ==
    /\ mpc = "recv"
    /\ received < MaxChallenges
    /\ received' = received + 1
    /\ recvbuf' = received + 1
    /\ Access("main", {"recvbuf"})
    /\ mrow' = 1
    /\ mpc' = IF useWorker THEN "publish" ELSE "parseA"
    /\ UNCHANGED <<useWorker, work_state, worker_exit, worker_p, A, B, answers>>
    /\ WorkerUnchanged

\* recv_payload_busy returns 0 or -1, perhaps with part of a payload read.
RecvEnds ==
    /\ mpc = "recv"
    /\ \/ recvbuf' = recvbuf /\ UNCHANGED ghost
       \/ recvbuf' = Torn /\ Access("main", {"recvbuf"})
    /\ mpc' = IF useWorker THEN "setExit" ELSE "done"
    /\ UNCHANGED <<useWorker, work_state, worker_exit, worker_p, A, B, received, answers, mrow>>
    /\ WorkerUnchanged

Publish ==
    /\ mpc = "publish"
    /\ worker_p' = recvbuf
    /\ Access("main", {"worker_p"})
    /\ mpc' = "signal"
    /\ UNCHANGED <<useWorker, work_state, worker_exit, recvbuf, A, B, received, answers, mrow>>
    /\ WorkerUnchanged

Signal ==
    /\ mpc = "signal"
    /\ work_state' = 1
    /\ ReleaseStore("main")
    /\ mpc' = "parseA"
    /\ UNCHANGED <<useWorker, worker_exit, worker_p, recvbuf, A, B, received, answers, mrow>>
    /\ WorkerUnchanged

\* A's part of recvbuf and A itself are main's own; the worker only reads
\* recvbuf behind worker_p, so no shared object is accessed here.
ParseA ==
    /\ mpc = "parseA"
    /\ A' = [A EXCEPT ![mrow] = recvbuf]
    /\ mrow' = NextRow(mrow)
    /\ mpc' = IF mrow < Rows THEN "parseA" ELSE IF useWorker THEN "await" ELSE "parseB"
    /\ UNCHANGED <<useWorker, work_state, worker_exit, worker_p, recvbuf, B, received, answers, ghost>>
    /\ WorkerUnchanged

\* The serial fallback parses B on the main thread.
ParseBSerially ==
    /\ mpc = "parseB"
    /\ B' = [B EXCEPT ![mrow] = recvbuf]
    /\ Access("main", {"B", "recvbuf"})
    /\ mrow' = NextRow(mrow)
    /\ mpc' = IF mrow < Rows THEN "parseB" ELSE "trace"
    /\ UNCHANGED <<useWorker, work_state, worker_exit, worker_p, recvbuf, A, received, answers>>
    /\ WorkerUnchanged

Await ==
    /\ mpc = "await"
    /\ Parsed
    /\ AcquireLoad("main")
    /\ mpc' = "reset"
    /\ UNCHANGED <<useWorker, shared, received, answers, mrow>> /\ WorkerUnchanged

Reset ==
    /\ mpc = "reset"
    /\ work_state' = 0
    /\ Relaxed
    /\ mpc' = "trace"
    /\ UNCHANGED <<useWorker, worker_exit, worker_p, recvbuf, A, B, received, answers, mrow>>
    /\ WorkerUnchanged

\* trace_AB_T reads all of A and B; the answer is sent.
TraceAndSend ==
    /\ mpc = "trace"
    /\ answers' = [answers EXCEPT ![received] = {A[r] : r \in RowIds} \union {B[r] : r \in RowIds}]
    /\ Access("main", {"B"})
    /\ mpc' = "recv"
    /\ UNCHANGED <<useWorker, shared, received, mrow>> /\ WorkerUnchanged

\* Both stores are release stores, so the second one alone orders main's past.
SetExit ==
    /\ mpc = "setExit"
    /\ worker_exit' = TRUE
    /\ mpc' = "wake"
    /\ UNCHANGED <<useWorker, work_state, worker_p, recvbuf, A, B, received, answers, mrow, ghost>>
    /\ WorkerUnchanged

Wake ==
    /\ mpc = "wake"
    /\ work_state' = 1
    /\ ReleaseStore("main")
    /\ mpc' = "join"
    /\ UNCHANGED <<useWorker, worker_exit, worker_p, recvbuf, A, B, received, answers, mrow>>
    /\ WorkerUnchanged

Join ==
    /\ mpc = "join"
    /\ wpc = "exited"
    /\ mpc' = "done"
    /\ UNCHANGED <<useWorker, shared, received, answers, mrow, ghost>> /\ WorkerUnchanged

Main ==
    \/ Connect \/ ConnectFails \/ RecvPayload \/ RecvEnds
    \/ Publish \/ Signal \/ ParseA \/ ParseBSerially \/ Await \/ Reset \/ TraceAndSend
    \/ SetExit \/ Wake \/ Join

-----------------------------------------------------------------------------
(* worker_fn *)

MainUnchanged == UNCHANGED <<useWorker, received, answers, mpc, mrow>>

\* One load of work_state in the spin loop.
Poll ==
    /\ wpc = "poll"
    /\ AcquireLoad("worker")
    /\ wpc' = IF Signalled THEN "loadP" ELSE "checkExit"
    /\ UNCHANGED <<shared, wrow, wp>> /\ MainUnchanged

CheckExit ==
    /\ wpc = "checkExit"
    /\ wpc' = IF ExitSeen THEN "exited" ELSE "poll"
    /\ UNCHANGED <<shared, wrow, wp, ghost>> /\ MainUnchanged

\* Reading through a null pointer is where the program's behaviour ends.
LoadP ==
    /\ wpc = "loadP"
    /\ wp' = worker_p
    /\ Access("worker", {"worker_p"})
    /\ wrow' = 1
    /\ wpc' = IF worker_p = NullPtr THEN "crash" ELSE "parseB"
    /\ UNCHANGED shared /\ MainUnchanged

ParseB ==
    /\ wpc = "parseB"
    /\ B' = [B EXCEPT ![wrow] = IF recvbuf = wp THEN wp ELSE Torn]
    /\ Access("worker", {"B", "recvbuf"})
    /\ wrow' = NextRow(wrow)
    /\ wpc' = IF wrow < Rows THEN "parseB" ELSE "finish"
    /\ UNCHANGED <<work_state, worker_exit, worker_p, recvbuf, A, wp>> /\ MainUnchanged

Finish ==
    /\ wpc = "finish"
    /\ work_state' = HandedBack
    /\ ReleaseStore("worker")
    /\ wpc' = "poll"
    /\ UNCHANGED <<worker_exit, worker_p, recvbuf, A, B, wrow, wp>> /\ MainUnchanged

Worker == Poll \/ CheckExit \/ LoadP \/ ParseB \/ Finish

\* The process is gone.
Stopped == mpc \in {"done", "terminate"} \/ wpc = "crash"

Terminated == Stopped /\ UNCHANGED vars

Next == (~Stopped /\ (Main \/ Worker)) \/ Terminated

\* Both threads keep being scheduled: they run on different cores.  Nothing is
\* promised about the server (RecvPayload) beyond its connection.
Served == ~Stopped /\ ~(mpc = "recv") /\ Main
WorkerRuns == ~Stopped /\ Worker

Spec == Init /\ [][Next]_vars
FairSpec == Spec /\ WF_vars(Served) /\ WF_vars(WorkerRuns)

-----------------------------------------------------------------------------
(* Properties *)

TypeOK ==
    /\ useWorker \in BOOLEAN
    /\ work_state \in {0, 1, 2}
    /\ worker_exit \in BOOLEAN
    /\ worker_p \in {NullPtr} \union Challenges
    /\ recvbuf \in Contents
    /\ A \in [RowIds -> Contents]
    /\ B \in [RowIds -> Contents]
    /\ received \in 0 .. MaxChallenges
    /\ answers \in [Challenges -> SUBSET Contents]
    /\ mpc \in {"connect", "recv", "publish", "signal", "parseA", "parseB", "await",
                "reset", "trace", "setExit", "wake", "join", "done", "terminate"}
    /\ mrow \in RowIds
    /\ wpc \in {"none", "poll", "checkExit", "loadP", "parseB", "finish", "exited", "crash"}
    /\ wrow \in RowIds
    /\ wp \in {NullPtr} \union Challenges
    /\ seen \in [Threads -> SUBSET Objects]
    /\ released \in SUBSET Objects
    /\ raced \in SUBSET Objects

\* No data race on worker_p, recvbuf or B in any interleaving, the shutdown
\* and the stray parse it may cause included: every pair of conflicting
\* accesses is ordered by the release stores of 1 and 2 and the loads that see them.
NoDataRace == raced = {}

\* Every answer sent is computed from the A and the B of the challenge it
\* answers, never from a matrix of an earlier one or a half-parsed one.
AnswersOwnChallenge ==
    \A c \in Challenges :
        answers[c] # {} => answers[c] = {c} /\ c <= received

\* While main serves, the worker only ever parses the payload main is waiting
\* for; a parse of an old pointer, or of none, happens only once worker_exit
\* is set, and of none only when no payload was ever received.
ParsesOnlyWhatIsAwaited ==
    /\ wpc \in {"parseB", "finish"} /\ ~worker_exit
         => mpc \in {"parseA", "await"} /\ wp = received /\ recvbuf = received
    /\ wpc = "crash" => worker_exit /\ received = 0

\* Each payload received is answered: neither thread waits for the other for
\* ever, whatever the worker sees of the resets.
EveryPayloadAnswered ==
    \A c \in Challenges : (received = c /\ mpc \in {"publish", "parseA"}) ~> (answers[c] # {})

\* Once a payload was received, shutdown always gets the worker to exit: a
\* wake-up seen as work costs one stray parse, not the join.
ShutdownCompletes == (mpc = "setExit" /\ received > 0) ~> (mpc = "done")

=============================================================================
