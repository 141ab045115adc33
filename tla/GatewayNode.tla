---------------------------- MODULE GatewayNode ----------------------------
(***************************************************************************)
(* ros::GatewayNode: the executor's thread constructs the node, runs its   *)
(* subscription callback and destroys it; the worker thread takes records  *)
(* from telemetry_queue_, stores and publishes them; rclcpp's context can  *)
(* be shut down at any moment.  Storage is the engine of StorageEngine,    *)
(* called step by step from both threads; decryption, parsing and the      *)
(* queue are the operators of the modules extended below.  A packet is     *)
(* known by its place in the order of arrival.                             *)
(***************************************************************************)
EXTENDS StorageEngine, SecurityEngine, TelemetryIngestion

CONSTANTS Executor, Worker,   \* the node's two threads
          Packets,            \* what may arrive on ~/telemetry_raw
          MaxPackets          \* bound on the arrivals in a behaviour

\* A packet is the JSON envelope: well formed or not, and the fields taken
\* from it.
ASSUME NodeAssumption ==
    /\ Executor # Worker /\ Threads = {Executor, Worker}
    /\ MaxPackets \in Nat
    /\ \A p \in Packets : p.envelope \in BOOLEAN

VARIABLES nodePc,            \* where the executor's thread is
          workerPc,          \* where worker_thread_loop is
          ok,                \* rclcpp::ok()
          running_,
          telemetry_queue_,  \* of [id, data]
          data,              \* the record the worker is handling, in a sequence
          received,          \* history: packets in order of arrival
          verdict,           \* history: what became of each callback
          refused,           \* history: packets that found the queue full
          inserts,           \* history: [id, call, row] of each insert_telemetry
          published          \* history: [id, topic, frame_id, value] sent

arrivals == <<received, verdict, refused>>
departures == <<inserts, published>>
trace == <<arrivals, departures>>
nodeVars == <<nodePc, workerPc, ok, running_, telemetry_queue_, data, trace>>
allVars == <<vars, nodeVars>>

PRE_SHARED_KEY == Bytes(32, "psk")

TextOf(p) == p.ciphertext.val[3]

\* What GCM promises and the parser delivers: nobody has a tag under the key for a
\* ciphertext that was not sealed with it, and the numbers of a text are whole multiples of the unit.
ASSUME PacketAssumption ==
    \A p \in Packets :
        /\ p.tag = Bytes(p.tag.len, p.tag.val)
        /\ p.tag.val = TagOf(PRE_SHARED_KEY, p.iv, p.ciphertext) =>
               /\ p.ciphertext.val[1] = PRE_SHARED_KEY.val
               /\ p.ciphertext.val[2] = p.iv.val
        /\ \A key \in DOMAIN TextOf(p).member :
               Kind(TextOf(p), key) = "number" => TextOf(p).member[key][2] \in Int

NodeInit == /\ Init
            /\ nodePc = "construct"
            /\ workerPc = "none"
            /\ ok = TRUE
            /\ running_ = FALSE
            /\ telemetry_queue_ = <<>>
            /\ data = <<>>
            /\ received = <<>> /\ verdict = <<>> /\ refused = {}
            /\ inserts = <<>> /\ published = <<>>
-----------------------------------------------------------------------------
(* The constructor *)

\* init_subsystems calls storage_engine_->init().
CtorInit ==
    /\ nodePc = "construct"
    /\ Call(Executor, "init", 0)
    /\ nodePc' = "initializing"
    /\ UNCHANGED <<workerPc, ok, running_, telemetry_queue_, data, trace>>

\* A failed init() is only logged; subscription, publishers and worker follow.
CtorStart ==
    /\ nodePc = "initializing" /\ pc[Executor] = "idle"
    /\ nodePc' = "spin"
    /\ running_' = TRUE
    /\ workerPc' = "check"
    /\ UNCHANGED <<vars, ok, telemetry_queue_, data, trace>>

\* After a shutdown rclcpp makes neither node, subscription nor publisher: it throws,
\* unless the shutdown came behind the last of them.  The constructor gives up and
\* ~GatewayNode never runs, but ~StorageEngine does.
CtorThrows ==
    /\ ~ok
    /\ \/ nodePc = "construct" /\ UNCHANGED vars
       \/ nodePc = "initializing" /\ Call(Executor, "close", 0)
    /\ nodePc' = "gone"
    /\ UNCHANGED <<workerPc, ok, running_, telemetry_queue_, data, trace>>
-----------------------------------------------------------------------------
(* raw_telemetry_callback *)

\* The executor takes a message and enters the callback.
Take(p) ==
    /\ nodePc = "spin" /\ ok
    /\ Len(received) < MaxPackets
    /\ received' = Append(received, p)
    /\ nodePc' = "callback"
    /\ UNCHANGED <<vars, workerPc, ok, running_, telemetry_queue_, data,
                   verdict, refused, departures>>

\* The arguments in the order in which the callback's function passes them.
Opened(p) == decrypt_aes_gcm(<<p.ciphertext, p.tag, PRE_SHARED_KEY, p.iv>>)

\* What process_incoming_raw_payload can make of a packet: a status of the
\* parser, "refused" before it, or an exception, which the callback catches.
Outcomes(p) ==
    IF ~p.envelope THEN {[status |-> "exception"]}
    ELSE IF ~check_rate_limit(p.client_id, 10, 20) \/ ~Opened(p).ok
    THEN {[status |-> "refused"]}
    ELSE parse_and_validate(Opened(p).plaintext)

Verdict == [SUCCESS |-> "true", INVALID_JSON_SYNTAX |-> "false", refused |-> "false",
            exception |-> "threw"]

Records(queue) == [i \in DOMAIN queue |-> queue[i].data]

\* The packet finds the queue full: process_payload would report it.
FindsFull(p) == \E outcome \in process_payload(Opened(p).plaintext, Records(telemetry_queue_)) :
                   outcome.status = "QUEUE_FULL"

\* Mutant: a full queue gives up its oldest record.
EnqueueDisplaces(id, d) ==
    telemetry_queue_' = push(IF PushFits(telemetry_queue_) THEN telemetry_queue_
                             ELSE Tail(telemetry_queue_), [id |-> id, data |-> d])

\* telemetry_queue_.push(telemetry_data), whose result is not looked at.
Enqueue(id, d) == telemetry_queue_' = push(telemetry_queue_, [id |-> id, data |-> d])

Process ==
    LET id == Len(received)
        p == received[id]
    IN /\ nodePc = "callback"
       /\ \E outcome \in Outcomes(p) :
             /\ verdict' = Append(verdict, Verdict[outcome.status])
             /\ IF outcome.status = "SUCCESS"
                THEN /\ Enqueue(id, outcome.out_data)
                     /\ refused' = IF FindsFull(p) THEN refused \cup {id} ELSE refused
                ELSE UNCHANGED <<telemetry_queue_, refused>>
       /\ nodePc' = "spin"
       /\ UNCHANGED <<vars, workerPc, ok, running_, data, received, departures>>
-----------------------------------------------------------------------------
(* worker_thread_loop *)

\* Mutant: the loop does not look at running_ and rclcpp::ok().
WorkerCheckNothing ==
    /\ workerPc = "check"
    /\ workerPc' = "pop"
    /\ UNCHANGED <<vars, nodePc, ok, running_, telemetry_queue_, data, trace>>

\* while (running_ && rclcpp::ok())
WorkerCheck ==
    /\ workerPc = "check"
    /\ workerPc' = IF running_ /\ ok THEN "pop" ELSE "exited"
    /\ UNCHANGED <<vars, nodePc, ok, running_, telemetry_queue_, data, trace>>

WorkerPop ==
    /\ workerPc = "pop"
    /\ telemetry_queue_ # <<>>
    /\ data' = <<popped(telemetry_queue_)>>
    /\ telemetry_queue_' = pop(telemetry_queue_)
    /\ workerPc' = "insert"
    /\ UNCHANGED <<vars, nodePc, ok, running_, trace>>

\* Mutant: an empty queue ends the loop.
WorkerSleepExits ==
    /\ workerPc = "pop"
    /\ telemetry_queue_ = <<>>
    /\ workerPc' = "exited"
    /\ UNCHANGED <<vars, nodePc, ok, running_, telemetry_queue_, data, trace>>

\* Nothing to take: sleep for a millisecond and look again.
WorkerSleep ==
    /\ workerPc = "pop"
    /\ telemetry_queue_ = <<>>
    /\ workerPc' = "check"
    /\ UNCHANGED <<vars, nodePc, ok, running_, telemetry_queue_, data, trace>>

\* storage_engine_->insert_telemetry(data)
WorkerInsert ==
    /\ workerPc = "insert"
    /\ Call(Worker, "insert", 1)
    /\ inserts' = Append(inserts, [id |-> data[1].id, call |-> Len(calls) + 1,
                                    row |-> RowOf(data[1].data)])
    /\ workerPc' = "inserting"
    /\ UNCHANGED <<nodePc, ok, running_, telemetry_queue_, data, arrivals, published>>

\* The topic of each sensor type and the payload value its message carries.
Topics == [battery     |-> [topic |-> "battery", key |-> "battery"],
           temperature |-> [topic |-> "temperature", key |-> "temperature"],
           velocity    |-> [topic |-> "velocity", key |-> "velocity_x"]]

\* The message made of a record: a percentage is a float; a value that is not in
\* the record stays at the message's default.
Message(id, d) ==
    LET key == Topics[d.sensor_type].key
        reading == IF key \in DOMAIN d.payload_values THEN d.payload_values[key] ELSE 0
    IN [id |-> id, topic |-> Topics[d.sensor_type].topic, frame_id |-> d.robot_id,
        value |-> IF key = "battery" THEN single(reading) ELSE reading]

\* Mutant: a record that was not stored is not published.
WorkerPublishesStored ==
    /\ workerPc = "inserting" /\ pc[Worker] = "idle"
    /\ published' = IF data[1].data.sensor_type \in DOMAIN Topics /\ ok /\ ret[Worker] = "true"
                    THEN Append(published, Message(data[1].id, data[1].data))
                    ELSE published
    /\ data' = <<>>
    /\ workerPc' = "check"
    /\ UNCHANGED <<vars, nodePc, ok, running_, telemetry_queue_, arrivals, inserts>>

\* The insertion has returned, its result not looked at; publish_ros_messages.
\* A generic record has no topic, and publishing after shutdown does nothing.
WorkerPublish ==
    /\ workerPc = "inserting" /\ pc[Worker] = "idle"
    /\ published' = IF data[1].data.sensor_type \in DOMAIN Topics /\ ok
                    THEN Append(published, Message(data[1].id, data[1].data))
                    ELSE published
    /\ data' = <<>>
    /\ workerPc' = "check"
    /\ UNCHANGED <<vars, nodePc, ok, running_, telemetry_queue_, arrivals, inserts>>
-----------------------------------------------------------------------------
(* Shutdown and the destructor *)

\* rclcpp::shutdown(), from a signal handler or from the program.
RclcppShutdown ==
    /\ ok
    /\ ok' = FALSE
    /\ UNCHANGED <<vars, nodePc, workerPc, running_, telemetry_queue_, data, trace>>

\* spin returns, or the owner lets go of the node; ~GatewayNode begins.
DtorStop ==
    /\ nodePc = "spin"
    /\ running_' = FALSE
    /\ nodePc' = "join"
    /\ UNCHANGED <<vars, workerPc, ok, telemetry_queue_, data, trace>>

\* Mutant: the worker is not joined.
DtorDetaches ==
    /\ nodePc = "join"
    /\ Call(Executor, "close", 0)
    /\ nodePc' = "closing"
    /\ UNCHANGED <<workerPc, ok, running_, telemetry_queue_, data, trace>>

\* worker_thread_.join() returns; storage_engine_->close() is called.
DtorJoin ==
    /\ nodePc = "join"
    /\ workerPc = "exited"
    /\ Call(Executor, "close", 0)
    /\ nodePc' = "closing"
    /\ UNCHANGED <<workerPc, ok, running_, telemetry_queue_, data, trace>>

\* The members are destroyed: the queue with what it holds, and then the
\* engine, which closes itself once more.
DtorMembers ==
    /\ nodePc = "closing" /\ pc[Executor] = "idle"
    /\ telemetry_queue_' = <<>>
    /\ Call(Executor, "close", 0)
    /\ nodePc' = "gone"
    /\ UNCHANGED <<workerPc, ok, running_, data, trace>>
-----------------------------------------------------------------------------
EngineStep(t) == Engine(t) /\ UNCHANGED nodeVars

WorkerStep == WorkerCheck \/ WorkerPop \/ WorkerSleep \/ WorkerInsert \/ WorkerPublish

ExecutorStep == CtorInit \/ CtorStart \/ CtorThrows \/ Process \/ DtorJoin \/ DtorMembers

NodeNext == \/ ExecutorStep
            \/ \E p \in Packets : Take(p)
            \/ WorkerStep
            \/ RclcppShutdown
            \/ DtorStop
            \/ \E t \in Threads : EngineStep(t)

NodeSpec == NodeInit /\ [][NodeNext]_allVars

\* Both threads run when they can and get db_mutex_ in the end, and spin
\* returns after a shutdown.  Nothing need arrive and nobody need shut down.
NodeFairness ==
    /\ WF_allVars(ExecutorStep)
    /\ WF_allVars(WorkerStep)
    /\ WF_allVars(~ok /\ DtorStop)
    /\ \A t \in Threads : /\ WF_allVars(Running(t) /\ UNCHANGED nodeVars)
                          /\ SF_allVars(Locking(t) /\ UNCHANGED nodeVars)

FairNode == NodeSpec /\ NodeFairness
-----------------------------------------------------------------------------
(* Properties *)

IdsOf(s) == {s[i].id : i \in DOMAIN s}

\* Every variable of the node keeps its type.
NodeTypeOK ==
    /\ nodePc \in {"construct", "initializing", "spin", "callback", "join",
                   "closing", "gone"}
    /\ workerPc \in {"none", "check", "pop", "insert", "inserting", "exited"}
    /\ ok \in BOOLEAN /\ running_ \in BOOLEAN
    /\ received \in Seq(Packets)
    /\ verdict \in Seq({"true", "false", "threw"})
    /\ IdsOf(telemetry_queue_) \cup IdsOf(data) \cup IdsOf(inserts)
           \cup IdsOf(published) \subseteq 1 .. MaxPackets
    /\ Len(telemetry_queue_) <= max_capacity_
    /\ Len(data) <= 1
    /\ refused \subseteq DOMAIN verdict

\* The sender held the pre-shared key and nothing was changed on the way.
Genuine(p) == /\ p.envelope
              /\ p.iv.len = 12
              /\ p.ciphertext.val[1] = PRE_SHARED_KEY.val
              /\ p.ciphertext.val[2] = p.iv.val
              /\ p.tag = Bytes(16, TagOf(PRE_SHARED_KEY, p.iv, p.ciphertext))

\* Only packets sealed under the pre-shared key get as far as the queue, the
\* database or a topic, whatever else arrives between them.
OnlyAuthentic ==
    \A id \in IdsOf(telemetry_queue_) \cup IdsOf(inserts) \cup IdsOf(published) :
        Genuine(received[id])

Increasing(s) == \A i, j \in DOMAIN s : i < j => s[i].id < s[j].id

\* The record that was popped and not yet handed to the storage engine.
InHand == IF workerPc = "insert" THEN data ELSE <<>>

\* From the queue to the database and the topics every packet goes at most
\* once and in the order of arrival.
HandledInOrder == /\ Increasing(inserts \o InHand \o telemetry_queue_)
                  /\ Increasing(published)

\* The row holds the message's robot and reading, as far as its decimals and the
\* message's float go.
SameReading(message, row) ==
    LET key == Topics[row.sensor_type].key
        stored == IF key \in DOMAIN row.payload_json THEN row.payload_json[key] ELSE 0
    IN /\ message.frame_id = row.robot_id
       /\ 2 * Abs(message.value - stored) <= Micro + Spacing(message.value, SingleMantissa)

\* What is on a topic is in the database, with the same robot and reading:
\* worker, destructor and shutdown never meet so that a record is published
\* whose insertion was refused because the engine was not yet open or already
\* closed.
PublishedIsStored ==
    \A m \in DOMAIN published : \E i \in DOMAIN inserts :
        /\ inserts[i].id = published[m].id
        /\ RowsOf(inserts[i].call) \subseteq committed
        /\ SameReading(published[m], inserts[i].row)

\* A genuine packet with a valid record in it is accepted.
GenuineAccepted ==
    \A id \in DOMAIN verdict :
        /\ Genuine(received[id])
        /\ \A r \in parse_and_validate(TextOf(received[id])) : r.status = "SUCCESS"
        => verdict[id] = "true"

\* Whatever way a number takes from the packet to the row, integers that a signed
\* 64-bit column can hold arrive in it unchanged, negative ones included, and
\* payload_json keeps the integers that a double holds exactly.
RowKeepsNumbers ==
    \A i \in DOMAIN inserts :
        LET text == TextOf(received[inserts[i].id])
            member == text.member
            row == inserts[i].row
            Integral(key, range) == member[key][2] % One = 0 /\ member[key][2] \div One \in range
        IN /\ \A key \in {"sequence_id", "timestamp_ns"} :
                 contains(text, key) /\ Integral(key, -Half .. Half - 1)
                 => row[key] * One = member[key][2]
           /\ \A key \in DOMAIN row.payload_json :
                 Integral(key, -2 ^ Mantissa .. 2 ^ Mantissa)
                 => row.payload_json[key] = to_string(member[key][2])

\* As long as the node exists, a packet for which the callback reported true
\* is queued, in the worker's hands or handed to the storage engine.
NeverDrops ==
    nodePc # "gone" =>
        \A id \in DOMAIN verdict :
            verdict[id] = "true" =>
                id \in IdsOf(telemetry_queue_) \cup IdsOf(data) \cup IdsOf(inserts)

\* The queue loses an accepted packet when it is full, and only then: it drops the
\* new packet and never one that it holds, and exactly the packets for which
\* process_payload would have reported QUEUE_FULL.
OnlyFullQueueDrops ==
    nodePc # "gone" =>
        \A id \in DOMAIN verdict :
            verdict[id] = "true" =>
                (id \in refused
                 <=> id \notin IdsOf(telemetry_queue_) \cup IdsOf(data) \cup IdsOf(inserts))

\* A failure goes no further than the call it happens in.  A packet that was
\* refused, or whose parsing threw, leaves nothing in queue, database or topics.
\* An insertion that SQLite or a failed init() refuses leaves no row and keeps the
\* record from no topic; every other one that has returned has its row in the file.
FailuresAreContained ==
    /\ \A id \in IdsOf(telemetry_queue_) \cup IdsOf(data) \cup IdsOf(inserts)
                 \cup IdsOf(published) : verdict[id] = "true"
    /\ \A i \in DOMAIN inserts :
          LET stored == RowsOf(inserts[i].call)
          IN \/ workerPc = "inserting" /\ i = Len(inserts)
             \/ /\ \/ inserts[i].call \in acked /\ stored \subseteq committed
                   \/ inserts[i].call \in nacked /\ stored \cap committed = {}
                /\ \/ inserts[i].row.sensor_type \notin DOMAIN Topics
                   \/ inserts[i].id \in IdsOf(published)
                   \/ ~ok

\* What is queued is handled, unless the node is being stopped.
QueuedIsHandled ==
    \A id \in 1 .. MaxPackets :
        id \in IdsOf(telemetry_queue_) ~> id \in IdsOf(inserts) \/ ~ok \/ ~running_

\* After a shutdown the worker leaves its loop, the join returns, and the node
\* is gone with its database closed.
ShutdownCompletes == ~ok ~> nodePc = "gone" /\ pc[Executor] = "idle" /\ db_ = "null"
=============================================================================
