# Specifications of the FINM 327 trading code

TLA+ models of this repository's stateful parts, TLC configurations that check
them on small instances, and proofs checked by TLAPS for every value of the
constants. Every definition is translated from the source; `PROJECT.json` maps
each one to its lines, each property to a fault in the code it catches
(`mutants`), and lists the hazards the properties are aimed at.

## The system

The repository holds one course's programs. They share no library; what
connects them is the protocol of the matrix challenge (servers and clients over
TCP), the results file, and three generations of order books.

| part | state | operations | what is hard |
|---|---|---|---|
| **phase4 engine** (`phase4/include`) | shared `Order` objects, `active_` map of the order manager, two price-to-deque maps (or vectors), trade buffer | place, submit (match, then post), cancel, reap | cancelled orders stay in the book and are pruned lazily; counters, states, tape and book are updated one after another |
| **low-latency client** (`hft/src/client.cpp`, `trace.hpp`) | receive buffer, matrices A and B, `worker_p`, atomics `work_state` and `worker_exit` | pick a CPU, receive, hand B to the worker, parse A, wait, trace, send; shutdown | lock-free handshake of two threads over plain memory; wake-up for shutdown is the signal for work; framing by counting newlines |
| **reference server** (`hftprojectstudent/hftserver2026`) | `clients`, `currentChallenge`, `challengeId`, results file | accept, register, broadcast, answer, snapshot, log | three kinds of threads, two mutexes, timestamps taken outside the lock, descriptors reused, blocking sends |
| mock server (`hft/src/server.cpp`) | the same without answer validation | the same | every answer goes to the current challenge |
| blast server (`hftprojectstudent/tools/blast_server.cpp`) | the same, plus an outbox, a condition variable and a sender thread per client | the same, bursts | lost wake-up at disconnect, unbounded outboxes, challenges that never become current |
| other clients (`hftclient2026`, `client_naive.cpp`) | a byte buffer | frame, parse, answer | framing when several challenges arrive at once |
| dashboards (`HFTDashboard`) | a copy of the results file | poll | reads while the server rewrites |
| price server and client (`phase2`) | price timestamps, prices already hit, last three prices | broadcast, hit | two clients hit one price; messages without separators |
| feed strategy (`phase3`) | bid and ask levels, own orders | feed events, place, fill | executions are external, late or duplicated |
| phase5 books | baseline: two maps; optimized: pool, intrusive lists, level iterators | add, modify, delete | the optimized book must behave like the baseline; pool exhaustion |
| tick engine (`hw3`) | ten prices per instrument | tick | three signals of which buy wins over sell |
| hw5 containers | Robin Hood table, binary heap, indexed order book | insert, find, erase, push, pop, cancel | backward shift and rehash, probe distances, a hole sifted through a tree |
| session3 handles | pointer, control block with a count | copy, move, assign, destroy | count equals owners, one deletion |
| hw1, hw2, hw4, benchmarks, `json.hpp` | - | numeric loops, compile-time code, measurement, vendored code | see "Not modelled" |

### What makes each part correct

- phase4: no live order is lost or rests twice, a returned submit leaves no
  crossed book, every trade respects price-time priority and the maker's price,
  state and fill agree, the tape conserves the fills, dead orders stay dead; the
  vector book does what the map book does; the pool loses no slot.
- client: no data race, every answer computed from its own challenge, no stray
  parse while serving, each payload answered, shutdown completes; the worker gets
  a CPU of its own; the trace is exact and the one the server computes.
- servers: the log is that of a fair contest (`Contest`): an answer that names its
  challenge counts for that one or for none, and the fastest right one wins (in the mock
  server, which compares none, the one read first); each
  client is sent each challenge once, each round completes, senders end.
- clients: whatever recv returns, each challenge is answered once, in order, from
  its own bytes (`AnswerStream`).
- results file: nothing is forgotten while the server lives; what a reader can
  parse is the history.
- price server: one credit per price, every readable order decided; orders follow
  real momentum while clients keep up.
- phase5: the pooled book is the baseline book to its callers, lists are in
  order of arrival, a slot is free or in use and never both.
- containers and handles: a map, a priority queue, the same book with and without
  an index, one deletion per trade.

## Modules

| module | models | role |
|---|---|---|
| `MatchingEngine` | phase4 order manager, map book, matcher, tape | component |
| `RunningSum` | sums over a sequence, as they are or reduced at every step | operators |
| `PriceTimeBook`, `FlatOrderBook` | phase4's two books as the matcher's template sees them | what a book promises; the vector book that implements it |
| `MemoryPool` | phase4's pool | component |
| `WorkerHandshake` | `hft/src/client.cpp`, both threads | component |
| `ChallengeStream`, `AnswerStream` | the byte stream from server to client; what a client promises | shared; abstract specification |
| `LowLatencyClient`, `RetainingClient`, `MCClients` | framing and parsing in `client.cpp`, `client_naive.cpp`, `hftclient2026` | components that implement `AnswerStream`; their instances |
| `TraceAnswer`, `LaneSum`, `Checksum`, `WorkerCpu` | `trace.hpp`, its vector loop, the student's checksum, `pick_worker_cpu` | algorithms |
| `Contest` | what the log of a challenge server promises | abstract specification |
| `ChallengeServer`, `MCChallengeServer`, `MCServerLeave` | `hftserver2026/main.cpp` | component, implements `Contest`; instances |
| `BlastServer`, `BlastRounds` | delivery, and rounds with bursts, in `blast_server.cpp` | components; the second implements `Contest` |
| `MockServer`, `ResultsFile`, `PriceServer`, `Strategy`, `MCServices` | `hft/src/server.cpp`; `results.json` between server and dashboards; phase2; phase3 | components; instances |
| `OrderBook`, `OptimizedOrderBook`, `MCOptimizedOrderBook` | phase5's baseline and pooled book | the second implements the first; instance |
| `FlatBook`, `IndexedBook` | hw5 part 4's two books | the second implements the first |
| `PriorityQueue`, `BinaryHeap` | hw5 part 2 | the second implements the first |
| `RobinHood` | hw5 part 1 | component |
| `SharedHandle`, `UniqueHandle` | session3 parts 4 and 3 | components |
| `TickEngine` | hw3 | component |
| `Comparisons` | - | the parts that have a plain counterpart (books, the hash table, and answers computed in one pass), side by side, with `BooksAgree`, `IsAMap` and `OnePassAgrees` |
| `MCParts` | - | instances of the sequential parts |
| `MatchingEngineProofs`, `ChallengeServerProofs`, `BlastServerProofs` | - | theorems about the component they are named after |
| `OrderBookProofs` | - | theorems about `OptimizedOrderBook`, and about `FlatOrderBook`, `IndexedBook` and `OrderBook` as `Comparisons` puts them |
| `ClientProofs` | - | theorems about `RetainingClient` and `LowLatencyClient` |
| `PartsProofs` | - | theorems about `SharedHandle`, `UniqueHandle`, `MemoryPool`, `BinaryHeap`, `LaneSum`, `WorkerHandshake`, `WorkerCpu`, and about `RobinHood`, `TraceAnswer`, `Checksum` and `TickEngine` as `Comparisons` puts them |
| `ServiceProofs` | - | theorems about `ResultsFile`, `PriceServer`, `Strategy`, `MockServer`, `BlastRounds` |
| `NumberFacts` | - | lemmas: the least and the greatest of a finite set of integers, induction up to a number (`Climb`), quotients and remainders, sums over a sequence taken by rows, by columns, or reduced at every step |

`MCParts` and `MCServices` put programs that know nothing of each other side by
side: the variable `subject` names one of them, drawn in the initial state, which
then runs from its start to the bound while the variables of the others keep
their initial values. So the states of the run are the union, not the product, of
those of its parts, and every property speaks of one of them. `MCClients` does
the same with the three clients over common variables: `client` names the program
that runs. Components whose theorems state the properties of a run are extended by
its module, so that the theorem and the run speak of the same definition; of the
rest, `Comparisons` holds the instances that a theorem speaks of together, and is
extended by `MCParts` as well. An assumption on
the environment that some properties need and others do not (`prompt` of
`PriceServer`, `paced` of `MockServer`) is a variable drawn in the initial state
that never changes, and the properties that need it say so.

### MatchingEngine

`order` is the set of `Order` objects both the manager and the book point to,
so the aliasing of the `shared_ptr`s is kept: the book (`levels`, `queue`) only
holds ids. `levels[s]` is the key set of a side's `std::map` and `queue[s][p]`
the deque of key `p`; that a key has a non-empty deque is a property
(`NoEmptyLevel`), not a feature of the encoding. `submit` is unrolled: `Fill`
is one iteration of its loop with the prune before it and the pop after it,
`ReturnFilled` and `Post` are its two ways out. `Cancel` and `Reap` are the
manager's operations between submits. Placing and submitting is one action
because every caller submits an order in the statement after it places it
(`submit` itself does not ask whether the order is still live).
`Prices` replace doubles, which are only compared. The symbol, the tick
sequence number and the latency of a trade are left out.

`FlatOrderBook` is the other book of the template parameter. Orders die in one
step (`Die`: filled by the matcher or cancelled by the manager) and stay in the
vector until a prune. `BooksAgree` maps its vector to the queues of
`PriceTimeBook` step by step, and checks that a prune leaves a live order of the
best price in front. `MemoryPool` keeps the link in the slot's storage, where an
object overwrites it.

### WorkerHandshake

One action per statement that touches shared memory. Matrices are parsed in
`Rows` steps, each row remembers the challenge its numbers came from, and a
pointer into the receive buffer is the challenge that was there when it was
stored. Data races are made visible with a happens-before ghost: `seen[t]` is
the set of plain objects all of whose accesses by the other thread are ordered
before thread `t`; an access removes its object from the other thread's set, a
release store makes the writer's set available to the acquire load that reads
it, a relaxed store makes nothing available. An access outside `seen[t]` is
recorded in `raced`. `receive` may fail at any point, also half way into the
buffer (`Torn`). `ConnectFails` with a running worker ends in `std::terminate`,
because the static `std::thread` is joinable when `main` returns.

### The clients

`ChallengeStream` keeps the text of a challenge as classes of bytes (digit,
blank, newline): a number is known by its number of digits, which is what decides
where a parser goes next. `client` is the program, and `Challenges` gives the
challenges each may be sent. `wire` is what was sent and not received, and recv
returns any part of it that fits in the buffer (`Bufcap` bytes in `hftclient2026`,
`Cap` in `client`). `RetainingClient` has the scan for four newlines, the answer, the
memmove and the full buffer, and a server that sends whenever it likes.
`LowLatencyClient` has recv until a fourth newline has come, the fixed parser with its
two ways to B and the token parser of the reference client (`Naive`); there the
server waits for an answer before it sends again (`PacedServer`), which those two
clients need. `TraceAnswer` parses A and B in any interleaving of main and worker;
`Checksum` reads A and then B value by value; `LaneSum` is one lane of the AVX2 loop.
`WorkerCpu` draws any topology of `sysfs` (offline CPUs included) and runs the three
tries of `pick_worker_cpu`.

### ChallengeServer and Contest

A step is what a thread does under one lock or one system call. `Credit` is the
critical section of `handleClient`, and takes the timestamp that `RecvAnswer`
read before it; `Publish` and `Snapshot` are the broadcaster's two sections of
`challengeMutex`; `Lock`, `Send` (one per entry of `clients`) and `Unlock` hold
`clientsMutex`, so `Register` (the `push_back`) waits for them. A `ClientInfo`
is never removed, so `fd` keeps every descriptor number for good while `owner`
says which connection, if any, the kernel has behind the number; `Accept` takes
the lowest free one. `send` blocks while the buffers of a live connection are
full (`Window` payloads). `recv` returns any number of complete messages that
have come, of which the parse keeps the first; what comes behind the name
becomes part of the name. Answers in both documented formats are modelled
(`Tagged`). External, and only constrained by what the server relies on: what
clients answer and when they leave, the clock, the kernel's descriptor
allocation. Not modelled: a message cut in the middle (each is one `send` of a
few bytes), malformed answers (they are skipped and change nothing), an empty
team name, SIGPIPE. The ghost `fastest` is the least latency of a right answer
accepted for the current challenge.

`Contest` has a log, the challenge that is open and the answers it has got.
`IsFairContest` maps the server to it: a challenge is open from its publication
to its log, answers of other challenges never enter, the last answer of a name
is the one that counts, and the entry names the fastest right one. That an answer
counts for the challenge it was given to is claimed of the names in `Tagging`: here
all of them, and in the blast server those whose clients put the id in front.

### BlastServer and BlastRounds

`handler`, `sender` and `next` are the program counters of the handlers, the
sender threads and the broadcaster's loop over `clients`. The only thread that
keeps a `qMutex` over several steps is a sender between the test of its
predicate and its sleep (`falling`), so the mutexes need no variables: `Push`
waits for `falling` to end, `NotifyAll` does not, because `handleClient`
clears `running` and notifies without the mutex. That is how a wake-up can be
lost. `send` may block, and goes to whatever connection has the number of the
descriptor now. Queued payloads are bounded by `MaxChallenges`; later rounds
still go over the clients and notify, because the code's broadcaster never stops,
and it is their notification that ends the sleep of a sender that missed its own.
Spurious wakings are left out; nothing relies on them.

`BlastRounds` has the other half: ids, the current challenge, the copy of the
answers, the log, and bursts whose challenges never become current; delivery is a
queue per client there. A message is the id it carries. The clients in
`TaggingClients` answer "id answer", as the project's README asks; the others send the
answer alone (`Bare`), which `handleClient` takes for one to whatever challenge is
current when it has the mutex (`Counts`). `ReadAs` is what `sscanf` makes of messages
that were read together. So late bare answers, and those to a burst, count for the
round under way; `IsFairContest` claims of them that they enter the open round only
and are judged like the others there, not that they were given to it. Names it shares with the programs that `MCServices` puts
beside it are qualified (`BlastClients`, `handling`, `SendAnswer`).

### MockServer, ResultsFile, PriceServer, Strategy

`MockServer` takes what its first recv returns for the client's name and every later
message for an answer to the current challenge. Messages carry no separator, so any
number of them may be read together: answers as one number, answers behind the name as
part of it. A name is therefore the client and the answers that were read with it
(`behind`, `Registered`), and such a garbled name is logged and can win. Answers are
compared with nothing in this server; the model keeps of an answer which challenge it
was computed for, and nothing of whether it is right. `infos` holds the socket of every
`ClientInfo` ever made, since none is removed, and a socket number is free again once
its connection is closed. Where `paced` holds, what was sent for a challenge is read,
and what was read is credited, before the challenge is logged; it says nothing of what
is read together. `heard` is a ghost of when an answer was first read as an answer.
`FirstReadWins` has two conditions: `paced`, and `NoneReused` (no two entries have one
socket number), because a client that gets a number that was used before is sent each
challenge twice, answers it twice, and its second latency replaces the first.
`ResultsFile` keeps the text of
`results.json` as its brackets and one unit per entry, so that a proper prefix is
not a document; the server reads, truncates and writes it in pieces and may be
killed and restarted between any two; dashboards read in pieces. In `PriceServer`
`prompt` says that clients and handlers react within the pause between two prices;
without it messages run together (`RunOn`). `Strategy` is one step per feed
event; executions name any order ever placed and any size.

### OrderBook and OptimizedOrderBook

`OrderBook` has the baseline's two maps with an order by value in each.
`OptimizedOrderBook` has the pool (free list as a stack, slots whose object is
`Destroyed` after `release`), nodes linked by slot numbers, levels with head
and tail, and the lookup with the level each entry caches. Its operations are
functions of a record of these members, in the order of the statements, so that
`modifyOrder` is delete and add as in the code. The refinement mapping reads
the baseline's lookup off the lookup and the baseline's levels off the nodes
in use, so the two maps do not agree by construction. The ghost `arrivals` is
the order in which orders reached a level. `lookup_`'s level iterator is the
level's key: `std::map` iterators stay valid, and a key erased and added again
would be seen as a list that disagrees with `arrivals`.
Preconditions taken from every caller (benchmark, demo, tests): an id is added
only while the book does not hold it, and the pool has a slot for every order
held at once.

### hw3, hw5, session3

`TickEngine` compares averages by cross-multiplication of integers, so ties that
rounding may break are outside it; `OrdersAsOverFeed` restates the orders over
the feed with no window. `RobinHood`'s hash function is a constant, and its loops are
functions of the number of rounds, which go once around the table at most: that they
need not go on is part of what is checked, since an entry still carried on would be
lost. `rehash` calls `insert`, which could call `rehash`; that it never does is the
last conjunct of `RoomIsLeft`. `IsAMap` says that every step changes what `find` answers
as it would change a map, and that `size()` counts.
`BinaryHeap` carries value and hole one level per step. `IndexedBook` is mapped
to `FlatBook` order by order. In `SharedHandle` a trade and its control block are
one thing, since they are made and deleted together.

## Runs

Deadlock is checked where a component never has to stop (`MatchingEngine`,
`BlastServer`, `OptimizedOrderBook`) or has explicit end states
(`WorkerHandshake`); the other configurations stop at their bounds and say `CHECK_DEADLOCK FALSE`.

| run | instance | checks |
|---|---|---|
| `matching_engine` | 4 orders, quantities 1-2, 2 prices | `LiveOrdersRest`, `NeverCrossed`, `StateMatchesFill`, `TapeConservesFills`, `PriceTimePriority`, `DeadIsFinal` |
| `worker_handshake` | 3 challenges, 3 rows, with and without worker | `NoDataRace`, `AnswersOwnChallenge`, `ParsesOnlyWhatIsAwaited`, `EveryPayloadAnswered`, `ShutdownCompletes`, no deadlock |
| `server_steady` | 2 clients, 2 challenges, 3 instants, right and wrong answers | `EachChallengeOnce`, refinement of `Contest` (`IsFairContest`) |
| `server_leave` | 2 connections, one may leave, 1 payload of buffer | `RoundCompletes` |
| `optimized_book` | 4 ids, 3 prices, 2 quantities, 3 slots | `PoolPartition`, `ListsInArrivalOrder`, refinement of `OrderBook` (`ImplementsBaseline`) |
| `blast` | 2 connections, 2 challenges, 1 payload of buffer, one client that reads | `NothingLostOrRepeated`, `RoundsEnd`, `SendersEnd`, `Delivered` |
| `clients` | 3 challenges of 2x2-value text, ids of 1 to 4 digits, values of 1 to 3 | `NoReadPastEnd`, `AnswersEachInOrder` (refinement of `AnswerStream`), `AllAnswered` |
| `parts` | see below | `IsPriorityQueue`, `IsAMap`, `BooksAgree`, `NoSlotLost`, `LiveIffOwned`, `OneOwner`, `LaneIsExact`, `OnePassAgrees`, `WorkerIsWellPlaced` |
| `services` | see below | `OrdersAreDecided`, `MomentumIsReal`, `FileKeepsResults`, `FirstReadWins`, `CreditsAreAnswers`, `QuotesEachGoodPriceOnce`, `IsFairContest` |
| `server_one_team` | 2 connections of one name | `FastestCorrectWins` fails |
| `server_stalled` | no fairness of the clients | `RoundCompletes` fails |
| `client_long_ids` | an id of 4 digits | `AnswersEachInOrder` fails for `client.cpp` |

Why the bounds are enough. Four orders allow a taker to consume several makers
at two prices with a cancelled order between or before them, to be left
partially filled, to rest, and to be hit again. Three challenges let the worker
miss a reset and see each value of `work_state` from each of its states; three
rows let it be overtaken inside a matrix. Two challenges and three clock values
are the least that can confuse a late answer with an early one, and two
connections the least that can compete for a win or reuse a descriptor. Three
slots let a list have a first, a middle and a last node and the pool be full,
with a fourth id for a slot to be used again by another order; three prices let
levels come and go beside each other. The student's buffer (`Bufcap` of 23) holds
any one challenge but not a backlog of three, so that it fills and recv leaves bytes
behind; the other's (`Cap` of 40) is above the longest challenge, as in the code.

`parts`: a heap of six pushes has three levels and a last parent with one child;
four handles and three trades give every shape of sharing and hand-over; a pool
of four slots; six keys with homes in the last two of eight slots, so that chains
wrap around and the seventh place makes the table grow; four orders at three
prices for the vector book, three at two for the indexed and the baseline book;
all pairs of two-by-two matrices modulo 4 and 3; four CPUs on two sockets; seven
ticks of two instruments with a window of three, which overflows; a lane with
just enough room.

`services`: four prices of three values (three are the least that have a
momentum, the fourth shifts the window), two connections of which one may be
replaced where clients are prompt; three rounds and two crashes of the file, so
that a crash can follow a loss; two clients and two challenges of the mock server,
with three connections where it is paced, so that a client can come back to a
socket number used before, and clocks of three and two values; up to four orders of
the trader at four prices; two clients of the blast server, of which one puts ids in front, three challenges, which
are a round, a burst and a round after it, and two instants, which tell a fast answer
from a slow one. It is the largest run, with 3.1 million states.

Fairness. `WorkerHandshake`: both threads are weakly fair, because they run on
two different cores (the client starts a worker only if it finds one) and
neither blocks; `main` is not required to receive anything, and a payload may
never come. `ChallengeServer`: the broadcaster is weakly fair; `server_leave`
adds that a client that stays connected goes on reading, and `server_stalled`
shows what happens without it. `BlastServer`: all threads of the server are
weakly fair (they wait only for mutexes held for a few statements, for a
notification or for `send`), and the clients in `Readers` go on reading. The one
that reads in `blast` is the later one, because the sender of a client that has
gone may be in a send to a descriptor number that the later one has now: if that
client does not read, the sender waits for ever. `MCClients`: each client is one
thread that waits for recv only, which returns when bytes have come.

## Where code and documents disagree

Three runs expect a violation and stand for a finding in `PROJECT.json`.

- `server_one_team`: answers are kept per team name, so a second connection
  with the same name (both clients default to `group8`) overwrites the fastest
  right answer, although the fastest correct response is to win.
- `server_stalled`: the "best-effort" send blocks with `clientsMutex` held.
- `client_long_ids`: from challenge 1000 on the fixed parser of `client.cpp` is
  one byte off and parses B from A's text.

The models show more of them; each is reproduced by changing the constants or the
instance named here.

- `hftserver2026/main.cpp:213`: a bare integer (what `hft/src/client.cpp` sends)
  counts for the challenge that is current when the handler gets the mutex, while
  line 215 says "Only accept answers for the active challenge id"
  (`MCServerSteady.cfg` with `Tagged = FALSE`, `IsFairContest`).
- `hftserver2026/main.cpp:231`: a `ClientInfo` outlives its connection; the next
  one with that descriptor number is sent every challenge twice
  (`MCServerSteady.cfg` with `MaxLeaves = 1`, `EachChallengeOnce`).
- `hft/src/client.cpp:215`: bytes behind the fourth newline are dropped, so two
  challenges in one recv lose the second or misalign the stream
  (`LowLatencyNext` with the `Server` of `RetainingClient` in place of `PacedServer`,
  `AnswersEachInOrder`).
- `hftserver2026/main.cpp:144`: `results.json` is truncated before it is
  rewritten. A dashboard, which is to read "the entire history"
  (`hftdashboard.py:57`), may get an empty or cut file, and a server killed in
  between costs all earlier results, which are to "accumulate"
  (`hftprojectstudent/README.md:239`). `FileKeepsResults` is what remains true:
  what parses is the history, and a cut file lasts until the next log.
- `phase2/hft_client.cpp:29`: of prices that arrive in one recv only the last
  parts are kept, so an order may follow no momentum of the last three prices
  sent, as `phase2/strategy.md:3` has it (`MomentumIsReal` without its condition
  `prompt`).
- `hft/src/server.cpp:117`: answers are not compared with the trace, an answer
  that is late beats those of the next challenge, and a client that came back is
  sent challenges twice, although the "fastest correct response wins"
  (`hft/README.md:8`). The first holds of every state, since nothing in the program
  depends on the answer's value; for the others check `FirstReadWins` without `paced`
  or without `NoneReused`.
- `hft/src/server.cpp:94`: a name and an answer, or two answers, that one recv returns
  are one name or one number, and the answers behind the first are lost
  (`FirstReadWins` claims nothing of them).
- `tools/blast_server.cpp:221`: an answer without an id counts for the round under
  way, be it late or given to a challenge of a burst, and possibly with a negative
  latency. `hftprojectstudent/README.md:66` asks for "challenge_id answer"; the server
  takes the other form without a check (`IsFairContest` with `Tagging <- Names` in
  `BlastRounds`' instance of `Contest`).
- `hft/src/client.cpp:169`: the second try compares core numbers without their
  socket, so the worker may get the other hardware thread of main's own core,
  while lines 154-155 promise "any different-physical-core CPU" first.

## Proofs

All theorems hold for every value of the constants that satisfies the module's
assumption. Each follows from an inductive invariant. The theorems that state a
property of a run, which shows it on a small instance, are listed with it in
`PROJECT.json`.

`MatchingEngineProofs`. `IInv` is the conjunction of the type invariant, `Placed`
(what is in a deque carries that side and price), `StateMatchesFill`, `Indexed`
(ids in the book were handed out) and `Taker` (the order inside `submit` is live
with something remaining or filled, and not in the book). `StateMatchesFill` alone
is not inductive: that a fill of the smaller remaining quantity keeps both orders
within bounds needs the two parties to be different orders (`Taker`) and both
live; that the maker is live needs the pruned deque to start at a live order,
which is `FirstLive` and the lemma of `NumberFacts`. From it follow
the types (`TypeCorrect`), `StatesMatchFills`, and the action properties `DeadStaysDead`
and `TradesFit`: every trade is for at least one unit, for no more than either party
had left, and for all that one of them had left;
`LevelsNeverEmpty` needs the same lemma, since pruning a level that has a live
order leaves a non-empty deque. `BookInv` stands on `IInv` and adds `Sorted` (ids
ascend in every deque), `Resting` (each live order but the taker is in its deque)
and `NeverCrossed`. They are proved together because they need each other: that
`Post` leaves no crossed book needs that the best level the matcher saw was the
best that has a live order, which is `Resting` with `NoEmptyLevel`; that an order
rests once is `Sorted`. `TrimmedKeeps` is the lemma they share: a prune takes dead
orders only, from the front. `PriorityIsKept` is the action property about every
fill (`MakerIsFirst`: with ids ascending the live front is the oldest).
`TapeConserves`: what the tape prints for an order is what was filled of it. The
sum is over a sequence of any length; `NumberFacts` gives what the proof needs of
it without induction, from the least place at which it would fail. The invariant
(`TapeInv`) adds that nothing is printed for ids not handed out yet.

`ChallengeServerProofs`. `Inv` has the types; what the accept loop keeps of
connections and descriptors (`Accepting`, and `NobodyLeft` as long as that is so);
`RoundsInOrder` (what is drawn, published and logged follows the ids); `SentBefore`
and `SentOnce` for what clients are sent; `AnswersInTime` for what they send, down
to a timestamp never being earlier than the start of the challenge it answers; and
`Named`. `EachChallengeOnceWhileAllStay` has the condition `leaves = 0`, and
`ResultsAreAFairContest`, the refinement of `Contest`, the condition `Tagged`.
Neither is a convenience: without them the code breaks the property, as the
section above says, and both hold in the runs. The refinement lets clients leave,
messages wait and descriptors be reused. Its abstract step is `Accept` for a
`Credit` of the open challenge and a stutter for any other, `Log` for the
broadcaster's append.

`BlastServerProofs`. What a client has been sent, what its sender holds and what
its outbox holds are consecutive ids that end with the last one the broadcaster
pushed for it (`Delivering`). The program counters enter only through
`InHandWhileSending`, `StartedOnce` and `Untouched`, so `EachPayloadOnceInOrder`
holds however `qMutex`, the condition variable and lost wake-ups interleave.

`OrderBookProofs`. `BookOK(b, ar)` ties the linked structure `b` to
`ar`, the order of arrival at each price: every slot is free or some order's
(`Pooled`), the lists hold the orders of the lookup once each (`Listed`), and the
links and ends of a level are those of its arrivals (`Linked`). An add and a
delete are each shown to keep it (`Joined` and `Struck` are the arrivals after),
a modify is a delete and an add or changes one quantity. From it follow
`SlotsArePartitioned`, `ListsKeepTimePriority` and, step by step, the refinement
`PooledBookIsTheBaseline`. `BooksAreEqual` is about the other books, each with an
invariant of its own. In phase4's vector book a side's levels are apart, best first,
and none is empty (`VectorInv`): so the level before which an order is inserted is
the place its price has in the map, and a prune that stops at the first live order
has passed every level without one. In the baseline book the level of a price holds
exactly the orders that the lookup puts there, with the same fields (`Agreed`). In
hw5's indexed book a level holds the orders of its side and price, each once
(`IndexInv`), so that the first level is the best price a look at all orders finds.

`ClientProofs` goes from the bytes up. Where the newlines and the values of a text are
follows from the widths of its numbers, which a running sum adds up (`Offset`). What
follows is what each parser reads: the fixed one at the places it computes, the token
parser between blanks, the student's scan up to the fourth newline; for `client` this
needs ids of at most three digits (`IdsAreShort`), the first 999 rounds, and
`client_long_ids` shows the code going wrong after them. Then the stream: the bytes in
the buffer and on the wire are the texts of the challenges not answered yet, cut at
some places (`Cuts`), the first from the start of the buffer (`Streaming`). TLC checks
what follows from that invariant, not the invariant itself, since the cuts are an
existential over functions. `RetainingImplements` and `LowLatencyImplements` are the
refinements of `AnswerStream`, for matrices of any size and wherever recv cuts;
`RetainingNeverOverflows` needs only that any one challenge fits in the buffer, since
the client answers what is complete before it receives again; `LowLatencyReadsInside`
is `NoReadPastEnd`.

`PartsProofs` has the other sequential parts and the client's two threads.

- `RaceFree`, `AnswersAreOwn`, `NoStrayParseWhileServing`: the invariant relates the
  program counters of the two threads, the value of `work_state`, and who has what
  in `seen` and `released`: while `work_state` is 0 or 2 all objects belong to
  `main` or are in what the store of 2 released, and while it is 1 they are the
  worker's or in what the store of 1 released.
- `OwnershipIsSound`: each count is the number of handles that point to the block,
  and the block lives while it is positive (`Counted`). Every operation is one or
  two of three changes, each a lemma: a handle lets go (`Release`), an empty handle
  comes to share a block (`Share`), two handles exchange (`Move`); what pointing
  one handle elsewhere does to the number of owners is `PointElsewhere`, from the
  library's facts on cardinality. Self-assignment is included. `OneOwnerEach` is
  the same question of the handle that does not count.
- `PoolIsSound`: the free list is a witness, a sequence of slots that visits each
  free one once in the order of the links (`Visits`). An acquire drops its first
  element, a release puts one in front.
- `HeapIsPriorityQueue`, the refinement of `PriorityQueue`: the invariant
  (`HeapInv`) is order everywhere but at the hole, order between the hole's
  neighbours, and no order in two places; without the second, moving a child into
  the hole could not be shown to keep order above it. A round of a sift exchanges
  two places of the tree that the value is thought to be in. `RootIsBest`: the
  first order that came before the root would come before its parent.
- `TraceLanesAreExact`: each round adds at most twice the square of the largest
  value, so no lane wraps under `HeadroomAssumption`; `Avx2HasHeadroom` is that
  the code's numbers (512 rounds, modulus 997, 32 bits) meet it.
- `WorkerPlaced` needs no induction, since `pick_worker_cpu` is called once, but the
  arithmetic of its scan: the places behind main's CPU, counted modulo the number of
  CPUs, are each other CPU once (`PlacesBehind`), and never main's own, wherever the
  numbers of offline CPUs are (`ScannedIs`).
- `TableIsAMap`, for any hash function and any keys, also if all have one hash. The
  invariant (`InOrder`): each entry is as many places from home as its `dib` says
  (`AtHome`), no entry is more than one place further from home than the one before it
  (`Near`), and no key is there twice. `Near` is what lets a search stop early: from
  its home to its slot an entry passes none that is nearer to its own home
  (`WayFromHome`). During an insert the entry carried on would keep `Near` where the
  loop is (`FitsAt`), and the table with it has the entries of before and the new one
  (`Carries`); during an erase the table is in order but for a hole whose neighbours
  may differ by two (`HoleAt`). All loops end since a slot is free (`RoomLeft`: fewer
  keys than slots), and the count and the load (`Bears`) carry that from one operation
  to the next, through a rehash as well (`Copied`).
- `AnswersInOnePass`, for matrices of any size, any moduli and any feed. While the
  student client reads A, `colA` holds the sums of its columns over the cells read so
  far; while it reads B, `checksum` is the sum over the complete rows of row sum times
  column sum, and `sumB` that of the next row so far (`SumsInv`). At the end the double
  sum over the product is taken in the other order (`SumsSwap`), and that the server
  reduces every product, every entry and every partial sum while the client reduces
  once is `SumOfRemainders` and `ReducedSumIs`. The traces are equal term by term, row
  by row (`SumOfRows`). An instrument's window is the latest of the prices the feed
  gave it, and the orders are those this window asked for (`TicksOK`); a price added to
  the window is the window of the prices with it (`UpdatedIs`), and the window sees the
  two rises the whole feed has because it keeps at least three prices (`Window >= 3`;
  the code keeps ten).

`ServiceProofs` has the servers beside the reference server, and the trader.

- `ResultsAreKept`. `FileInv`: while it is written the file begins the document
  (`BeingWritten`); between rounds it is absent, well formed, or cut off by a crash
  with nothing read from it (`LeftInOrder`); before any crash it is the document of
  the history (`NothingForgotten`), and every character a reader has is where some
  list between the one it opened and the latest has it (`TextOf`), so that what
  parses is such a list.
- `OrdersDecided` holds without any condition: an id is stamped before the price
  is sent, and the handler takes an order and decides it by itself. `MomentumHolds`
  needs `prompt`: then a client's history notes the prices without a gap, perhaps
  some twice (`Notes`), and lacks at most the last, which is in its inbox or is to
  be sent (`UpToDate`).
- `QuotesOnce` needs only that active orders have ids below `next_id_`
  (`TraderInv`); what is hard is that the two placements of a market update look at
  each other's orders.
- `CreditsAccounted` counts: the logged challenges a client is credited with, the
  current one, and the answer in its handler's hand are never more than the answers
  read from it, under whatever names. `FirstReadIsLogged` has the conditions of its
  property and no other: the one answer of a client to the current challenge is in one
  place at a time (`OnePlace`: to be sent, at the client, on its way, in the handler's
  hand or in the table; one that became part of the name is in none), a round ends with none on its way (`Over`),
  and an entry of the log holds each answer with its time since one common instant
  (`Faithful`), so that the least latency is the first read.
- `RoundsAreAFairContest`: `RoundsInv` is the argument of `ChallengeServerProofs` for a
  server that gives out ids which no round ever opens. `RoundsInOrder` places the
  current challenge, the broadcaster's id and the ids of the log in every state of a
  round and of a burst; `IdsInFront` says that a client in `TaggingClients` never sends
  or has read from it a message without its id; and `AnswersInTime` bounds what clients
  hold by the last id that was queued (`LastQueued`), so that an answer with the id of
  the current challenge was stamped after its start. `Publish` is mapped to the opening
  of a challenge, and the credit of an answer to its acceptance where the ids agree or
  there is none.

### Only model-checked

- Liveness (`EveryPayloadAnswered`, `ShutdownCompletes`, `RoundCompletes`,
  `RoundsEnd`, `SendersEnd`, `Delivered`, `AllAnswered`): it needs fairness and
  `ENABLED`, which the prover does not reason about.
- That an operator computes what it should for every argument, where that needs
  induction over a structure: the prover has no such rule for operators as parameters.
  For one sequence at a time `Climb` replaces it: a set of numbers that holds 0 and,
  with each number below a bound, the next, holds all of them. All results about sums,
  texts and feeds above stand on it.

## Not modelled

- `hft/src/json.hpp` is vendored third-party code and more than four fifths of
  the repository's lines; how the servers use it (a document parses or does not)
  is in `ResultsFile`. With it counted, a map of every other line would stay
  below a fifth of the implementation.
- Benchmarks, timers, tests and plots (`hft/bench`, `phase4/test`,
  `phase5/src`, `hw2/benchmark.cpp`, scripts): they measure or check and have no
  behaviour of their own. `phase4/src/MarketData.cpp` draws pseudo-random ticks,
  which the engine's model replaces by every possible order.
- hw1, hw2, hw5 part 3: sums and products of doubles, with no state between calls;
  rounding is outside TLA+'s integers. hw4 runs in the compiler, and its buffer is
  filled and read once by one thread.
- `client_concurrent.cpp` is a template that answers `0 0`.
- What the operating system decides: real-time scheduling and governors, socket
  options, SIGPIPE at a send to a connection that was reset (hazard without a
  property), and spurious wakings.

## What is left to do

Every property of the passing runs but the liveness properties is also stated by a
theorem, three of them under a condition named above (`leaves = 0`, `Tagged`,
`IdsAreShort`). Liveness stays with TLC. Hazards without a property, and
what the property of a hazard leaves out, are in `PROJECT.json` with the reason.
