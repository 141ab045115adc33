# TLA+ models of the Secure ROS 2 Telemetry Gateway

The gateway receives sealed telemetry packets on a ROS topic, verifies and decrypts
them, parses the JSON inside, queues the records, and lets a worker thread store them
in SQLite and publish them on typed topics. This directory models its concurrent core:
the queues, the storage engine with the SQLite connection under it, the node, the
executable, and the logger and configuration singletons beside them. TLC checks small
instances; TLAPS proves every safety invariant that a passing run checks, and the
refinements of the queue and of the storage engine, for every instance.

## Inventory

| Component | State | Operations | What makes it correct |
| --- | --- | --- | --- |
| `utils::ConcurrentQueue` (`utils/concurrent_queue.hpp`) | queue, mutex, two condition variables, shutdown flag | `push`, `pop`, `pop_for`, `shutdown`, destructor | every item exactly once and in order; no lost wake-up; shutdown unblocks everyone |
| `storage::StorageEngine` (`storage_engine.cpp`) | connection, prepared statement, mutex, once flag, two atomics, the database file | `init`, `insert_telemetry`, `insert_batch`, `query_telemetry`, `purge_older_than`, `close` | "true" means durable, "false" means not stored, batches are atomic, no call hangs, no handle is used after `close` |
| `secure_telemetry_gateway_node` (`main.cpp`, systemd unit) | main thread, workers | init, spawn, insert, join, destroy; restart | it ends, never uses a closed engine, and a restart keeps acknowledged rows |
| `ros::GatewayNode` (`gateway_node.cpp`) | `running_`, queue, worker thread, publishers | constructor, subscription callback, worker loop, destructor | only genuine packets go through, once, in order; queued records are handled; shutdown completes |
| `containers::ConcurrentQueue` (`containers/concurrent_queue.hpp`) | queue, mutex | `push`, two `pop`s, none of them blocking | bounded FIFO |
| `security::SecurityEngine` (`security_engine.cpp`) | token buckets (declared, never used) | `encrypt_aes_gcm`, `decrypt_aes_gcm`, `check_rate_limit`, random bytes | opens exactly what was sealed under the key |
| `ingestion::TelemetryIngestionEngine` | none | `parse_and_validate`, `process_payload` (no caller) | classification of records; which exceptions escape |
| `models::TelemetryData` and its row | numbers in three types | JSON to `uint64_t` and `double`, to a signed column, to decimals | numbers that fit arrive unchanged |
| `utils::Logger` (`logger.cpp`) | a static `shared_ptr`, spdlog's registry | `init`, `get_logger` (lazy), `flush`, `LOG_` macros | no thread uses a destroyed logger |
| `utils::ConfigManager` (`config_manager.cpp`) | mutex, YAML tree, flag | `load_file`, `get`, `is_loaded` | readers see the last load and nothing older; calls return |
| Mock publisher | a counter | seal a sample and log it | its samples are packets the node accepts |
| `telemetry::TelemetryPacket` | plain data | two helpers, no user in the repository | not modelled |
| Python client | none | send UDP datagrams | not modelled |
| React dashboard | React state and timers | simulation, not connected to the gateway | not modelled |
| Benchmark | none | times `insert_telemetry` | not modelled |

How they interact: `main.cpp` owns a `StorageEngine` and shares it with its workers.
`GatewayNode` owns a `StorageEngine`, a `SecurityEngine`, a parser and a
`containers::ConcurrentQueue`; the executor's thread runs the callback (decrypt, parse,
push), the worker thread pops, calls `insert_telemetry` and publishes, and the
destructor sets `running_`, joins the worker and closes the engine. Every component logs
through the one `Logger`; `ConfigManager::load_file` does so while it holds its mutex. The
executable that CMake builds from `main.cpp` does not construct a `GatewayNode`.

What is hard here, each at its line under "hazards" in `PROJECT.json`: notifications
sent after the unlock, deadlines racing items, barging threads and shutdown racing
waiters in the blocking queue; `is_initialized_` tested outside the mutex, `call_once`
beside `db_mutex_`, SQLite calls failing half-way and the process dying between two of
them; the destructor racing the worker; a full queue; arguments of one type in two
orders; numbers at the edges of their types; an unsynchronised lazy initialization; a
reload that fails.

## Modules

| Module | Models | Uses |
| --- | --- | --- |
| `BoundedFifo` | what a bounded queue promises (abstract specification) | |
| `UtilsConcurrentQueue` | `utils::ConcurrentQueue`, thread by thread | `BoundedFifo` by `INSTANCE` |
| `UtilsConcurrentQueueProofs` | theorems and proofs about it | `UtilsConcurrentQueue` |
| `DurableStore` | what a store of rows promises (abstract specification) | |
| `StorageEngine` | the engine, the SQLite transaction and file, crashes | `DurableStore` by `INSTANCE` |
| `GatewayMain` | `main.cpp` and systemd around the engine | `StorageEngine` |
| `SecurityEngine`, `ContainersQueue` | sealing and opening; the node's queue, as operators | |
| `TelemetryRecord` | the conversions of a record's numbers, and its row | |
| `TelemetryIngestion` | `parse_and_validate`, `process_payload` | `TelemetryRecord`, `ContainersQueue` |
| `GatewayNode` | the node, with all of the above | `StorageEngine`, `SecurityEngine`, `TelemetryIngestion` |
| `MockPublisher` | the publisher's samples, as operators | `SecurityEngine`, `TelemetryIngestion` |
| `Logger` | `utils::Logger`, thread by thread | |
| `ConfigManager` | `utils::ConfigManager`, and both singletons together | `Logger` |
| `StorageEngineProofs` | theorems about the engine, and the step lemmas the next two use | `StorageEngine` |
| `GatewayMainProofs`, `GatewayNodeProofs` | theorems about the executable and about the node | `StorageEngineProofs` |
| `ConfigManagerProofs` | theorems about configuration and logger | `ConfigManager` |
| `MC...` | values of the constants for TLC | |

"map" in `PROJECT.json` gives the source lines of every definition. Definitions whose
comment begins with "Mutant" are deliberately wrong variants of the definition that
follows; no specification uses them, they show that each property can fail.

### UtilsConcurrentQueue
`queue_`, `mutex_` and `shutdown_requested_` are the members of the class; `pc` says where
each thread is, and the wait sets of `cv_not_full_` and `cv_not_empty_` are the threads
whose `pc` is in the corresponding wait. Each action is a stretch of code between two
points where another thread can interfere: the lock, the predicate (false: release and
wait, atomically), the change of the queue, the unlock, the notification. The last two
are separate because the code unlocks before it notifies. `pop` moves the front item
out before it removes the slot; the model has both steps, and the slot holds
`NoItem` in between. A condition variable may wake a thread for no reason
(`SpuriousWakeup`), and a notified thread competes for the mutex with everyone else.
`pop` and `pop_for` differ only in `timer`. `accepted` and `delivered` are history.

### StorageEngine
Threads call the operations; a call stops at `call_once`, at the load of
`is_initialized_`, at `db_mutex_`, and between SQLite calls. SQLite is external: a
connection has an explicit transaction or not (`inTxn`), its rows (`pending`) and the file
(`committed`). `Faults` names the SQLite calls that may fail; a failing `COMMIT` or step may
leave the transaction open or roll it back, as SQLite documents. `Crash` empties
everything but the file. A row is the number of the call that carries it and its place
in the batch, so `acked` and `nacked` (what calls returned) can be compared with the
file; `astray` holds the insertions acknowledged inside a transaction that an earlier
`COMMIT` left open. What is bound to the columns is `RowOf` of `TelemetryRecord`.

### GatewayMain
`main()` with its workers as callers of the engine; `Restart` and `Killed` are systemd's
`Restart=always` over the same file.

### GatewayNode
Two threads: the executor's (constructor, callback, destructor) and the worker.
`ok` is `rclcpp::ok()`. Callback and queue operations are single actions: the callback
touches nothing shared but the queue, whose operations hold their mutex from entry to
return. The storage engine is not simplified: both threads drive the actions of
`StorageEngine`. A shutdown during the constructor makes rclcpp throw where it should make
the node, the subscription or a publisher (`CtorThrows`); `~GatewayNode` does not run then,
only `~StorageEngine` does. A shutdown behind the last of them finds the worker started.
AES-GCM is symbolic: a ciphertext stands for key, IV and plaintext, a
tag for key, IV and ciphertext.

Every insertion records the row it binds (`inserts`), and `refused` the packets for which
`process_payload`, which does the same as the end of the callback's function and looks at
the result of `push`, would have reported `QUEUE_FULL`.

A packet that is refused and one whose parsing throws differ only in `verdict`; a failing
`init` or `insert_telemetry` is logged and ignored. `FailuresAreContained` says what that
means: nothing of such a packet is kept, an insertion has its row exactly when it was
answered true, and its record goes to its topic in either case.

`DecryptOrder` chooses between the two parameter orders of `decrypt_aes_gcm`. The header
declares (ciphertext, tag, key, iv), and the node passes its arguments in that order;
the source file defines (ciphertext, key, iv, tag). All are byte vectors, so the
program links, and **the code at this commit behaves as `"defined"`**: run
`node_as_built` shows that a genuine packet is refused (the 32-byte key arrives as the
IV and fails the length check; so it is for every packet). The passing runs of the node
use `"declared"`: they are about the rest of the pipeline, which the code as built does
not reach (`NodeAsBuiltTakesNothing`). No passing run claims that genuine packets are accepted.

### TelemetryRecord and TelemetryIngestion
A number of a packet is its exact value, in units of which `One` make 1. `get<uint64_t>` takes
integers that fit 64 bits, signed or not, modulo 2^64; other numbers were read as doubles
and are truncated, and outside the range of `uint64_t` the C++ conversion is undefined: the
model chooses among wrapping, saturating and the sign bit, which is what processors do.
A text need not be an object: `contains` is false of an array or a scalar, while the loop
over `items()` still visits its elements, so that `[2]` is accepted as a generic record of
`"unknown_robot"`. `double`, `single` and `to_string` round to the nearest representable number. Widths are
parameters; the instance has 5-bit words, 3 significant bits in a double and 2 in a float,
so that every edge is a small number.

### Logger and ConfigManager
`logger_instance_` is two words, the pointer and the owner (control block), and an assignment
writes them one after the other: `AssignPtr`, `ReadOwner`, `WriteOwner`, `Release`. `refs`
counts the owners of each logger; a logger without owner is destroyed. `get_logger()` returns
a reference, so a caller (`Deref` to `CallReturns`) owns nothing. When the sinks cannot be
made `init` returns with a null pointer and the macro dereferences it: every thread is
`"dead"`. `init` itself calls the new logger three times, for pattern, level and flush level,
and each of the calls reads the pointer anew (`Following`). An explicit `init` may use another
name than the lazy one, and then the registry keeps both loggers. It is modelled only
while no other thread has been started: nothing in the repository calls it, and beside
other threads it would be one more writer in the race that `logger_race` shows.
`StartThreads` has the guard that both owners of threads satisfy: `main.cpp` through
`storage.init()` (each of its paths logs) and the node's constructor log before they start
a thread.

`ConfigManager` composes the two: `load_file` takes `mutex_`, reads the file, and logs by the
steps of `Logger` before it clears the flag or releases the mutex. A document maps paths to
nodes; `navigate_path` gives a null node when it looks up a key in what is not a map, and an
undefined one when the last key is missing. `lastLoad` and `answer` are history.

## Runs

| Run | Instance | Result |
| --- | --- | --- |
| `queue_safety` | 2 producers, 2 consumers, 1 closer, capacity 2, 4 pushes | passes: items go through exactly once and in order, no wake-up is lost, shutdown reaches the waiters, and the queue implements `BoundedFifo` |
| `queue_live` | 1 producer, 2 consumers, 1 closer, capacity 1, 2 pushes | passes: shutdown unblocks all, `pop_for` returns, waiters are served |
| `storage_faults` | a writer and a thread for init, query, purge and close, batches of 0 to 2, 4 calls, every fault, 1 crash | passes: handles and flag agree, refused rows are never stored, batches are atomic, only rows inserted into a left-open transaction are lost, the engine implements `DurableStore` (with that exception), every call returns |
| `main_runs` | main and 3 workers, 2 starts, 1 kill, failing open and insert | passes: no null statement, acknowledged rows stay, the engine implements `DurableStore` without exception, a run ends |
| `node_safety` | 16 kinds of packet (3 samples of the publisher, 3 with numbers at the edges, 5 odd or invalid texts, 5 forged), 3 arrivals, capacity 3, no faults | passes: only genuine packets, once and in order, stored with the same reading before published, and numbers that fit arrive in the row |
| `node_live` | 4 kinds of packet (two valid, one refused, one that throws), 3 arrivals, capacity 2, failing open and insert | passes: no null statement, only a full queue drops, failures are contained, queued records are handled, shutdown completes |
| `services` | 2 threads, the second started after the first has logged; 3 documents and unreadable files, 3 paths, 2 types, 1 explicit `init`, sinks that may fail | passes: no destroyed logger is used, answers come from the last load, calls return |
| `storage_left_open` | 1 thread, `commit_left_open` | violation: after a `COMMIT` that fails with the transaction open, `insert_batch` does not roll back; a later `insert_telemetry` returns true and its row is lost |
| `storage_close_race` | a writer and a closer | violation: `close()` between the test of `is_initialized_` and the lock; SQLite is handed a null statement |
| `node_as_built` | `DecryptOrder = "defined"` | violation: a genuine packet is refused |
| `node_full` | capacity 1 | violation: a packet for which the callback reported true is dropped when the queue is full |
| `logger_race` | 2 threads that run from the beginning | violation: both initialize the logger; one uses a logger that the other destroyed |

Why the bounds are enough for what they are meant to show:

- Queue: a lost wake-up needs two waiters and two notifications on one side; a capacity
  of 2 makes "full" differ from "not empty", and 4 pushes fill the queue twice. The
  results that matter most are proved for every bound. Liveness is checked with the
  capacity 1, where every push and pop can block.
- Storage: the races need two threads and one call each; four calls allow an
  initialization, a failure, a close and an insertion after it; a batch of two rows can
  fail in the middle. One crash separates two incarnations of the process; what a second
  one could meet is again a file and an empty memory.
- Main: the source starts 4 workers, the instance has 3: enough for one that inserts, one
  that waits for the mutex and one that has not begun while main joins. The workers are
  alike and `NoNullStatement` involves one of them and main.
- Node: three arrivals fill a queue of 2 while the worker holds one record more. The packets
  of `node_live` are the smallest of their kinds: it is about queue, worker and shutdown.
- Numbers: each edge (the ends of the signed range, the first number past it, the first
  integer that is no double, a fraction, the first past `uint64_t`) is a packet.
- Services: the race needs two threads that assign; a lazy initialization and an explicit
  one give two loggers, of which the registry keeps the first. Documents, paths and types
  cover a hit, a wrong type, a missing key, a key below a scalar and an empty file.

No run uses symmetry. `CHECK_DEADLOCK FALSE` is set where the bounds on calls,
pushes or starts end the behaviours, in the services where the process may die, and because a consumer may rightly wait for ever on
a queue into which nobody pushes.

## Fairness

- A thread that can run does (weak fairness of its steps): the operating system.
- A thread that competes for a mutex again and again gets it (strong fairness of the
  locking steps). `std::mutex` does not promise it; it is the usual assumption on the
  scheduler, and liveness under barging would fail without it.
- The deadline of `pop_for` is absolute (`wait_for` with a predicate), so a thread that keeps
  going back to its wait finds it passed (strong fairness of `PopTimeout`).
- `spin` returns after `rclcpp::shutdown()`.
- Nobody is obliged to call an operation, to send a packet, to shut down or to crash, no
  SQLite call is obliged to fail, and no spurious wake-up is promised.

## Proofs

Thirty-six results are listed under "theorems" in `PROJECT.json`. Together they state every
safety invariant that a passing run checks, for any number of threads, calls, restarts and
packets, any capacity, batch size and set of documents and, unless a theorem has a
hypothesis, any choice of failing SQLite calls.

### The blocking queue (`UtilsConcurrentQueueProofs`)

From `QueueAssumption` alone (finitely many threads, `NoThread` is none of them, capacity
and number of pushes are naturals): `TypeCorrect`, `ExactlyOnce`, `ShutdownNotifies`,
`ConsumersAreWoken`, `ProducersAreWoken` and `Refinement`, over
`IInv == TypeOK /\ MutexInv /\ ItemInv /\ TestedInv /\ ExactlyOnceInOrder` (`Invariance`).

`ExactlyOnceInOrder` is not inductive. Between the move out of the front slot and the
removal of the slot it holds only because nobody else touches the queue: `MutexInv` (the
thread in a critical section is the holder of the mutex). The removal needs a non-empty
queue, and the capacity bound of the refinement needs the tested predicate to hold still
at the insertion: `TestedInv`. That an insertion adds a real item needs `ItemInv`. Each
part has its step lemma, with one case per action; three lemmas on sequences carry the
order argument (`MoveHead`, `AppendToSecond`, `TailOfMoved`). `ShutdownReachesWaiters` is
inductive relative to `TypeOK`. `FifoStep` maps insertion to `Accept`, the move to
`Deliver`, `ShutdownSet` to `Close` and everything else to stuttering.

The two no-lost-wakeup invariants compare the length of the queue with numbers of threads.
Three lemmas on cardinalities (`CountGrows`, `CountGains`, `CountLoses`) say what a step of
one thread does to such a number; with `TestedInv` both invariants are then inductive: an
insertion leaves a notifier behind, a consumer that leaves takes an item or finds none, and
a notification puts a waiter on its way in the notifier's place.

### The storage engine (`StorageEngineProofs`)

Everything rests on `RowsInv`: the types, `MutexInv`, which operation a thread is in
(`OpInv`), every call has a number of its own and no answer while it runs (`CallInv`), a
batch has its rows in hand or in the open transaction, where nobody else's are (`LeftInv`),
and only rows of acknowledged calls are in the file (`StoredInv`). `RefusedNeverStored` and
`BatchAllOrNothing` speak of the file only and follow from it; they are not inductive
because a later COMMIT could write what an earlier, refused call had left in the
transaction, which `LeftInv` and `StoredInv` exclude. `HandleInv` extends `HandlesAgree` to
the inside of `init_internal`, where flag and handles differ.

`AcknowledgedIsDurable` and `NoNullStatementWithoutClose` have a hypothesis each: no COMMIT
leaves its transaction open, and nobody may call `close`. The runs `storage_left_open` and
`storage_close_race` show that neither can be dropped, so that together they say what the
only cause of each fault is.

`EngineIsStore` is the refinement of `DurableStore`: the file grows only by all the rows of
one call, in the step that answers the call with true, each call is answered at most once
and nothing leaves the file. An answer and the change of the file are one step of the model
because nobody can tell whether a process that died between them had returned. The
exception, `Misplace`, is the insertion into a transaction left open; without such
transactions (`EngineIsSoundStore`), and in the executable and the node whatever fails
(`ProgramIsSoundStore`, `NodeIsSoundStore`), there is none. `EngineStores` says what each step
does to file and answers, `InsertsOne` that `insert_telemetry` carries a single row.

The step lemmas are about `Step`, the engine's steps and the death of the process at any
moment and any number of times, and not about the engine's own bounded `Next`. That is what
lets `GatewayMainProofs` and `GatewayNodeProofs` reuse them: both show that each of their
steps is a `Step` or leaves the engine alone.

### The executable (`GatewayMainProofs`)

`ProgramNeverBindsNull` and `ProgramKeepsAcknowledged` need neither hypothesis. `MainInv`
says why: workers are in the engine only while `main` is in `join`, `close` runs only in the
destructor after it, and no call is a batch.

### The node (`GatewayNodeProofs`)

`NodeUsesEngine` is a refinement: every behaviour of the node is one of `StorageEngine`.
`StageInv` says which of the two threads may be in the engine at which stage of the node's
life; with the engine's lemmas it gives `NodeNeverBindsNull` and `NodeKeepsAcknowledged`.
`HandledInOrder` becomes inductive with `OrderInv`: what is stored is older than what is in
hand, what is in hand older than what is queued, and so across the step that moves a record
from one to the other. `SourceInv` and `VerdictInv` tie every record, row, message and
verdict to the packet it is numbered by; authenticity and the numbers of the rows follow
from what decryption, parser and conversions do with one packet. `PublishedRecordIsStored`
needs `OpenInv` (the engine stays open from the constructor to the destructor) and
`AnswerInv` (every insertion but the running one was acknowledged), and assumes that the
SQLite calls of `init` and `insert_telemetry` succeed; with failures the property is false,
since the node ignores the result.

`NodeContainsFailures` says what does hold then, for every choice of failing calls. It
needs `AnsweredInv` (every insertion but the running one was answered, with true or false:
`InsertAnswers`) and `SentInv` (every insertion but the running one is on its topic, has none,
or met a shutdown). The engine's invariants turn an answer into a row or its absence, and
`VerdictInv` and `SourceInv` say that whatever is queued, stored or published belongs to a
packet that was answered true.

`NodeAsBuiltTakesNothing` is about the parameter order of the source file, which is what is
built: no packet is ever queued, stored or published.

Assumptions beyond the types of the constants: `PacketAssumption` (GCM: nobody has a tag
under the key for a ciphertext that was not sealed with it; the numbers of a text are whole
multiples of the unit) and `FormatAssumption` (a double holds the integers of up to its
mantissa exactly). `NodePublishesStored` has the hypothesis
`\A x \in Int : SpacingFacts(x)`: rounding to a float does not step into a denser range of
floats. It is a fact about powers of two, of which the provers know nothing; TLC checks
both assumptions on the instance and `SpacingFacts` for -200 .. 200. The proof also
corrected the bound of `PublishedIsStored`: it is the spacing of floats at the published
value, which the spacing at the stored one can undercut.

### Configuration and logger (`ConfigManagerProofs`)

`AnswersFromLastLoad` follows from the mutual exclusion of loads (`LoadInv`) and from the
agreement of tree, flag and last load while the mutex is free (`CurrentInv`), and from
`DocumentsAssumption`: what the YAML parser builds is a tree. `NoDestroyedLogger` holds
under `StarterAlone` (only the thread that starts the others runs before it has logged;
`logger_race` shows that it cannot be dropped). `AloneInv` says that whoever is inside `init`
is alone; `SharesInv` follows the shares of each logger through the two words of
`logger_instance_`; `CountInv` numbers the loggers.

### Model-checked only

Every liveness property (`ShutdownUnblocks`, `PopForReturns`, `WaitersServed`, `CallsReturn`,
`RunEnds`, `QueuedIsHandled`, `ShutdownCompletes`, `ConfigCallsReturn`): fairness and `ENABLED`
are out of the prover's reach. `FormatAssumption` and `SpacingFacts`, because they need
induction over powers of two.

## Read from the code, without a run

- `query_telemetry` takes the lock and returns an empty vector (`storage_engine.cpp:194`);
  `test_storage_engine.cpp:39` expects one row. `purge_older_than` does nothing.
- `check_rate_limit` returns true; the token buckets of the header are unused.
- `main.cpp` inserts its rows and returns, and never constructs a `GatewayNode`; the
  integration test waits for a node of that name (`test_gateway_integration.launch.py:61`).
- The mock publisher seals a sample and does not publish it; the Python client sends to
  a UDP port that nothing reads. `config_manager.cpp` is not in the CMake build.
- Nothing calls `insert_batch`; the repository's README speaks of batched commits and of
  a lock-free ring buffer, the code has single inserts and a mutex.
- `close()` does not renew `init_flag_`: an insertion after it is refused although no SQLite
  call failed (`storage_engine.cpp:18`); the header says "Auto-initializes if needed."
- From 2^63 on an identifier is stored as a negative number and sorts before the others.
- A failed reload makes `get` return defaults while `root_node_` still holds the last good
  tree; readers cannot reach it (`AnswersFromLastLoad`).
- The result of `RAND_bytes` is not looked at (`security_engine.cpp:11`).
- Records queued when the node stops are destroyed with the queue.

## Not modelled

Destruction of a queue under threads that are still inside it (nothing in the repository
does it); power failures (`synchronous=NORMAL` can lose the last commits then); failing
OpenSSL calls; quoting and layout of `payload_json`; the timer of the mock publisher, which
sends nothing; the Python client, whose port nobody reads; `TelemetryPacket`, which nobody
uses; the dashboard, a simulation that nothing of the gateway feeds; the benchmark. The log
calls of storage engine and node are not steps of their models: the logger's own model
covers them. The reasons are in "components" and "hazards" of `PROJECT.json`.

## Plan

1. Done: the blocking queue with its abstract specification and proofs; the storage
   engine; `main.cpp` over it; the node over engine, decryption, parser, records and queue;
   the publisher's samples; the logger and the configuration.
2. Done: the proofs above.
3. Open: nothing of what the passing runs check as an invariant is left without a theorem;
   what could be added is a refinement of the node's pipeline to a FIFO from packets to
   rows.
