---- MODULE WorkerCpu ----
(***************************************************************************)
(* pick_worker_cpu of the low-latency client: where the thread that parses *)
(* B is to run.  The topology files of sysfs are read as the scan goes; a  *)
(* CPU that is offline or hidden has none.                                 *)
(***************************************************************************)
EXTENDS Integers, FiniteSetsExt

CONSTANTS CpuNumbers,  \* the CPUs there may be: an interval from 0
          Sockets,     \* physical_package_id
          Cores        \* core_id, which counts within a socket

ASSUME CpuAssumption ==
    /\ CpuNumbers \subseteq Nat /\ IsFiniteSet(CpuNumbers)
    /\ Sockets \subseteq Nat /\ Cores \subseteq Nat

Unread == -1
NoCpu == -1
Pending == -2

VARIABLES topology,  \* the socket and core of every online CPU
          main_cpu,  \* the CPU main runs on
          picked     \* g_worker_cpu

cpuVars == <<topology, main_cpu, picked>>

Online == DOMAIN topology

\* _SC_NPROCESSORS_ONLN
n_cpus == Cardinality(Online)

CpuInit ==
    /\ topology \in UNION {[on -> [socket : Sockets, core : Cores]] : on \in SUBSET CpuNumbers \ {{}}}
    /\ main_cpu \in Online
    /\ picked = Pending

ReadSocket(cpu) == IF cpu \in Online THEN topology[cpu].socket ELSE Unread

ReadCore(cpu) == IF cpu \in Online THEN topology[cpu].core ELSE Unread

\* Numbers wrap around at the count of CPUs.
At(offset) == (main_cpu + offset) % n_cpus

\* Fault: the core is not asked for.
SuitsBySocket(cpu, require_same_socket, require_diff_core) ==
    /\ require_same_socket => ReadSocket(cpu) = ReadSocket(main_cpu)
    /\ ReadSocket(cpu) >= 0

Suits(cpu, require_same_socket, require_diff_core) ==
    /\ require_same_socket => ReadSocket(cpu) = ReadSocket(main_cpu)
    /\ require_diff_core => ReadCore(cpu) # ReadCore(main_cpu)
    /\ ReadSocket(cpu) >= 0

\* The first CPU after main's that suits.
TryPick(require_same_socket, require_diff_core) ==
    LET suited == {k \in 1 .. n_cpus - 1 : Suits(At(k), require_same_socket, require_diff_core)}
    IN  IF suited = {} THEN NoCpu ELSE At(Min(suited))

Choice ==
    LET tries == <<TryPick(TRUE, TRUE), TryPick(FALSE, TRUE), TryPick(FALSE, FALSE)>>
        found == {i \in 1 .. 3 : tries[i] # NoCpu}
    IN  IF found = {} THEN NoCpu ELSE tries[Min(found)]

PickWorkerCpu ==
    /\ picked = Pending
    /\ picked' = Choice
    /\ UNCHANGED <<topology, main_cpu>>

CpuSpec == CpuInit /\ [][PickWorkerCpu]_cpuVars

----------------------------------------------------------------------------
\* The online CPUs are the numbers that the scan goes through.
NoHoles == Online = 0 .. n_cpus - 1

Neighbours == {c \in Online \ {main_cpu} : /\ topology[c].socket = topology[main_cpu].socket
                                           /\ topology[c].core # topology[main_cpu].core}

Distance(c) == IF c > main_cpu THEN c - main_cpu ELSE c - main_cpu + n_cpus

(***************************************************************************)
(* The worker is never put onto the CPU on which main was found, where two *)
(* spinning threads of real-time priority would wait for each other; the   *)
(* client parses alone on a host with one CPU only; and a core of main's   *)
(* own socket is taken when there is one, of several the one that comes    *)
(* first after main's, past the last CPU and on from 0.                    *)
(***************************************************************************)
WorkerIsWellPlaced ==
    picked # Pending =>
        /\ picked # main_cpu
        /\ NoHoles /\ n_cpus > 1 => picked \in Online
        /\ NoHoles /\ Neighbours # {} =>
              picked \in Neighbours /\ \A c \in Neighbours : Distance(picked) <= Distance(c)
====
