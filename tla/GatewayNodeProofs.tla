------------------------- MODULE GatewayNodeProofs -------------------------
(***************************************************************************)
(* Proofs about ros::GatewayNode for every set of packets, every queue     *)
(* capacity, every number of arrivals and, unless a theorem says           *)
(* otherwise, every choice of failing SQLite calls and both parameter      *)
(* orders of decrypt_aes_gcm.  What concerns the engine alone is taken     *)
(* from its step lemmas.                                                   *)
(***************************************************************************)
EXTENDS GatewayNode, StorageEngineProofs

\* The node's two threads in the engine: the worker is there only while it
\* inserts, the executor only in the constructor and, when the worker is gone,
\* in the destructor.
StageInv ==
    /\ nodePc \in {"construct", "initializing", "spin", "callback", "join", "closing", "gone"}
    /\ workerPc \in {"none", "check", "pop", "insert", "inserting", "exited"}
    /\ nodePc \in {"construct", "initializing"} => workerPc = "none"
    /\ workerPc = "none" => nodePc \in {"construct", "initializing", "gone"}
    /\ nodePc \in {"closing", "gone"} => workerPc \in {"none", "exited"}
    /\ nodePc \in {"construct", "spin", "callback", "join"} => pc[Executor] = "idle"
    /\ workerPc # "inserting" => pc[Worker] = "idle"
    /\ \A t \in Threads : pc[t] \in ClosePlaces => nodePc \in {"closing", "gone"}
    /\ NoBatch

\* The records that the callback can make of a packet.
Parsed(p) == {outcome.out_data : outcome \in {o \in Outcomes(p) : o.status = "SUCCESS"}}
AllParsed == UNION {Parsed(p) : p \in Packets}

Entry == [id : Nat, data : AllParsed]
Insertion == [id : Nat, call : Nat, row : {RowOf(d) : d \in AllParsed}]
Publication == {Message(id, d) : id \in Nat,
                                 d \in {d \in AllParsed : d.sensor_type \in DOMAIN Topics}}

\* The types of the histories and of the queue, and how their lengths belong
\* together.
SeqInv ==
    /\ ok \in BOOLEAN /\ running_ \in BOOLEAN
    /\ received \in Seq(Packets) /\ Len(received) <= MaxPackets
    /\ verdict \in Seq({"true", "false", "threw"})
    /\ Len(received) = Len(verdict) + (IF nodePc = "callback" THEN 1 ELSE 0)
    /\ telemetry_queue_ \in Seq(Entry) /\ Len(telemetry_queue_) <= max_capacity_
    /\ data \in Seq(Entry)
    /\ Len(data) = IF workerPc \in {"insert", "inserting"} THEN 1 ELSE 0
    /\ inserts \in Seq(Insertion) /\ published \in Seq(Publication)
    /\ refused \subseteq DOMAIN verdict

\* Every identifier is that of a packet whose callback has returned.
IdsInv == IdsOf(telemetry_queue_) \cup IdsOf(data) \cup IdsOf(inserts) \cup IdsOf(published)
              \subseteq DOMAIN verdict

Before(s, r) == \A x \in IdsOf(s), y \in IdsOf(r) : x < y

\* The order of arrival, from the topics to the queue.
OrderInv ==
    /\ Increasing(inserts) /\ Increasing(telemetry_queue_) /\ Increasing(published)
    /\ Before(inserts, InHand) /\ Before(inserts, telemetry_queue_)
    /\ Before(data, telemetry_queue_)
    /\ IdsOf(published) \subseteq IdsOf(inserts)
    /\ workerPc = "inserting" => Before(published, data) /\ IdsOf(data) \subseteq IdsOf(inserts)

\* What is queued, in hand, stored or published was made of the packet it is
\* named by, and the worker's record is the one of the last insertion.
QueueSource == \A i \in DOMAIN telemetry_queue_ :
    telemetry_queue_[i].data \in Parsed(received[telemetry_queue_[i].id])
HandSource == \A i \in DOMAIN data : data[i].data \in Parsed(received[data[i].id])
RowSource == \A i \in DOMAIN inserts :
    \E d \in Parsed(received[inserts[i].id]) : inserts[i].row = RowOf(d)
LastInsertion == workerPc = "inserting" =>
    /\ Len(inserts) > 0
    /\ data[1].id = inserts[Len(inserts)].id
    /\ RowOf(data[1].data) = inserts[Len(inserts)].row
TopicSource == \A m \in DOMAIN published : \E i \in DOMAIN inserts :
    \E d \in Parsed(received[inserts[i].id]) :
       /\ d.sensor_type \in DOMAIN Topics
       /\ inserts[i].row = RowOf(d)
       /\ published[m] = Message(inserts[i].id, d)
SourceInv == QueueSource /\ HandSource /\ RowSource /\ LastInsertion /\ TopicSource

\* Each verdict is that of an outcome of its packet.
VerdictInv == \A id \in DOMAIN verdict : \E outcome \in Outcomes(received[id]) :
                  verdict[id] = Verdict[outcome.status]

-----------------------------------------------------------------------------
(* The node and the engine *)

\* To the engine, every step of the node is a call that some thread may make, a
\* step of its own or nothing.
LEMMA NodeStepsEngine == [NodeNext]_allVars => [Next]_vars
<1> SUFFICES ASSUME [NodeNext]_allVars PROVE [Next]_vars
    OBVIOUS
<1>0. Executor \in Threads /\ Worker \in Threads
    BY NodeAssumption
<1> USE DEF Next, Calling, AllOps, Inserting
<1>1. CASE CtorInit \/ CtorThrows \/ DtorJoin \/ DtorMembers
    BY <1>0, <1>1 DEF CtorInit, CtorThrows, DtorJoin, DtorMembers
<1>2. CASE WorkerInsert
    BY <1>0, <1>2 DEF WorkerInsert
<1>3. CASE CtorStart \/ Process \/ DtorStop \/ RclcppShutdown
    BY <1>3 DEF CtorStart, Process, DtorStop, RclcppShutdown
<1>4. CASE WorkerCheck \/ WorkerPop \/ WorkerSleep \/ WorkerPublish
    BY <1>4 DEF WorkerCheck, WorkerPop, WorkerSleep, WorkerPublish
<1>5. CASE \E p \in Packets : Take(p)
    BY <1>5 DEF Take
<1>6. CASE \E t \in Threads : EngineStep(t)
    BY <1>6 DEF EngineStep
<1>7. CASE UNCHANGED allVars
    BY <1>7 DEF allVars
<1> QED BY <1>1, <1>2, <1>3, <1>4, <1>5, <1>6, <1>7 DEF NodeNext, ExecutorStep, WorkerStep

\* The node uses the engine as its specification allows: every behaviour of the
\* node is, to the engine, a behaviour of StorageEngine, so that whatever is
\* proved of the engine holds in the node.
THEOREM NodeUsesEngine == NodeSpec => Spec
<1>1. NodeInit => Init
    BY DEF NodeInit
<1> QED BY <1>1, NodeStepsEngine, PTL DEF NodeSpec, Spec

\* The destructor's close meets nobody behind ReadyCheck.
LEMMA NodeClosesAlone == StageInv => ClosesAlone
<1> SUFFICES ASSUME StageInv, NEW t \in Threads, pc[t] = "close", NEW u \in Threads
             PROVE  pc[u] \notin Behind
    BY DEF ClosesAlone
<1>1. pc[Worker] = "idle"
    BY DEF StageInv, ClosePlaces
<1> QED BY <1>1, NodeAssumption DEF Behind, Initialized

\* The join and the order of the destructor keep the two threads apart.
LEMMA StageStep == RowsInv /\ StageInv /\ [NodeNext]_allVars => StageInv'
<1> SUFFICES ASSUME RowsInv, StageInv, [NodeNext]_allVars
             PROVE  StageInv'
    OBVIOUS
<1>0. /\ pc \in [Threads -> Labels] /\ op \in [Threads -> AllOps \cup {"none"}]
      /\ Executor # Worker /\ Threads = {Executor, Worker}
    BY NodeAssumption DEF RowsInv, TypeOK
<1> USE DEF StageInv, NoBatch, ClosePlaces, Goto
<1>1. CASE CtorInit
    BY <1>0, <1>1 DEF CtorInit, Call
<1>2. CASE CtorStart
    BY <1>0, <1>2 DEF CtorStart, vars, caller
<1>3. CASE \E p \in Packets : Take(p)
    BY <1>0, <1>3 DEF Take, vars, caller
<1>4. CASE Process
    BY <1>0, <1>4 DEF Process, vars, caller
<1>5. CASE WorkerCheck \/ WorkerPop \/ WorkerSleep
    BY <1>0, <1>5 DEF WorkerCheck, WorkerPop, WorkerSleep, vars, caller
<1>6. CASE WorkerInsert
    BY <1>0, <1>6 DEF WorkerInsert, Call
<1>7. CASE WorkerPublish
    BY <1>0, <1>7 DEF WorkerPublish, vars, caller
<1>8. CASE RclcppShutdown \/ DtorStop
    BY <1>0, <1>8 DEF RclcppShutdown, DtorStop, vars, caller
<1>9. CASE CtorThrows \/ DtorJoin \/ DtorMembers
    BY <1>0, <1>9 DEF CtorThrows, DtorJoin, DtorMembers, Call, vars, caller
<1>10. ASSUME NEW t \in Threads, EngineStep(t)
       PROVE  StageInv'
  <2>1. pc[t] # "idle" /\ op' = op
      BY <1>10, OwnCallOnly DEF EngineStep, RowsInv, caller
  <2>2. /\ \A u \in Threads \ {t} : pc'[u] = pc[u]
        /\ pc'[t] \in ClosePlaces => pc[t] \in ClosePlaces
      BY <1>10, OnlyCallersClose DEF EngineStep, RowsInv
  <2> QED BY <1>0, <1>10, <2>1, <2>2 DEF EngineStep, nodeVars
<1>11. CASE UNCHANGED allVars
    BY <1>11 DEF allVars, nodeVars, vars, caller
<1> QED BY <1>1, <1>2, <1>3, <1>4, <1>5, <1>6, <1>7, <1>8, <1>9, <1>10, <1>11
        DEF NodeNext, ExecutorStep, WorkerStep

\* What the engine's lemmas say, and StageInv.
EngineInv == RowsInv /\ HandleInv /\ OnceInv /\ ReadyInv /\ TxnInv /\ StageInv

\* It holds throughout every behaviour of the node.
LEMMA EngineInvariant == NodeSpec => []EngineInv
<1>1. NodeInit => EngineInv
  <2>1. NodeInit => StageInv
      BY NodeAssumption DEF NodeInit, Init, StageInv, NoBatch, ClosePlaces
  <2> QED BY <2>1, InitRows, InitReady, InitTxn DEF NodeInit, EngineInv
<1>2. EngineInv /\ [NodeNext]_allVars => EngineInv'
  <2>1. [NodeNext]_allVars => [Step]_vars
      BY NodeStepsEngine, NextIsStep
  <2>2. StageInv => NoBatch
      BY DEF StageInv
  <2> QED BY <2>1, <2>2, NodeClosesAlone, StageStep, RowsStep, HandleStep, OnceStep, ReadyStep,
             TxnStep DEF EngineInv
<1> QED BY <1>1, <1>2, PTL DEF NodeSpec

\* The worker never binds to a statement that the destructor has finalized,
\* whenever the node is stopped and whatever the worker is doing then.
THEOREM NodeNeverBindsNull == NodeSpec => []NoNullStatement
<1>1. EngineInv => NoNullStatement
    BY ReadyMeansPrepared DEF EngineInv
<1> QED BY <1>1, EngineInvariant, PTL

\* Every row the worker was told is stored is in the file, and neither the
\* destructor nor a failing SQLite call takes it away again.
THEOREM NodeKeepsAcknowledged == NodeSpec => []AckedIsDurable
<1>1. EngineInv => AckedIsDurable
    BY TxnIsDurable DEF EngineInv
<1> QED BY <1>1, EngineInvariant, PTL

\* To the worker the node's engine is a durable store without exception,
\* whatever SQLite call fails and wherever the shutdown catches it.
THEOREM NodeIsSoundStore == NodeSpec => ImplementsSoundStore
<1>1. NodeInit => Durable!StoreInit
    BY InitStore DEF NodeInit
<1>2. EngineInv /\ [NodeNext]_allVars => [Durable!SoundNext]_Durable!storeVars
    BY NodeStepsEngine, NextIsStep, StoreStep DEF EngineInv
<1> QED BY <1>1, <1>2, EngineInvariant, PTL DEF NodeSpec, ImplementsSoundStore, Durable!SoundSpec
-----------------------------------------------------------------------------
(* Sequences of things that carry an identifier *)

\* The identifiers of the sequences that the node builds.
LEMMA IdsAppend ==
    ASSUME NEW S, NEW s \in Seq(S), NEW e \in S
    PROVE  IdsOf(Append(s, e)) = IdsOf(s) \cup {e.id}
<1>1. /\ DOMAIN Append(s, e) = 1 .. Len(s) + 1 /\ DOMAIN s = 1 .. Len(s)
      /\ Len(s) \in Nat /\ Append(s, e)[Len(s) + 1] = e
      /\ \A i \in 1 .. Len(s) : Append(s, e)[i] = s[i]
    BY AppendProperties, LenProperties
<1> QED BY <1>1 DEF IdsOf

LEMMA IdsShort ==
    /\ IdsOf(<<>>) = {}
    /\ \A e : IdsOf(<<e>>) = {e.id}
<1>1. ASSUME NEW e PROVE IdsOf(<<e>>) = {e.id}
  <2>1. DOMAIN <<e>> = {1} /\ <<e>>[1] = e
      OBVIOUS
  <2> QED BY <2>1, Zenon DEF IdsOf
<1> QED BY <1>1 DEF IdsOf

LEMMA IdsOne ==
    ASSUME NEW S, NEW s \in Seq(S), Len(s) = 1
    PROVE  IdsOf(s) = {s[1].id} /\ DOMAIN s = {1} /\ s[1] \in S
BY DEF IdsOf

LEMMA IdsHeadTail ==
    ASSUME NEW S, NEW s \in Seq(S), s # <<>>
    PROVE  IdsOf(s) = {Head(s).id} \cup IdsOf(Tail(s))
<1>1. /\ Len(s) \in Nat \ {0} /\ DOMAIN s = 1 .. Len(s)
      /\ DOMAIN Tail(s) = 1 .. Len(s) - 1 /\ Head(s) = s[1]
      /\ \A i \in 1 .. Len(s) - 1 : Tail(s)[i] = s[i + 1]
    BY EmptySeq, LenProperties, HeadTailProperties
<1>2. IdsOf(s) \subseteq {Head(s).id} \cup IdsOf(Tail(s))
  <2> SUFFICES ASSUME NEW i \in 1 .. Len(s)
               PROVE  s[i].id \in {Head(s).id} \cup IdsOf(Tail(s))
      BY <1>1 DEF IdsOf
  <2>1. CASE i = 1
      BY <1>1, <2>1
  <2>2. CASE i # 1
    <3>1. i - 1 \in 1 .. Len(s) - 1 /\ Tail(s)[i - 1] = s[i]
        BY <1>1, <2>2
    <3> QED BY <1>1, <3>1 DEF IdsOf
  <2> QED BY <2>1, <2>2
<1>3. {Head(s).id} \cup IdsOf(Tail(s)) \subseteq IdsOf(s)
    BY <1>1 DEF IdsOf
<1> QED BY <1>2, <1>3

\* The order survives an append of something later and the removal of the first.
LEMMA IncreasingAppend ==
    ASSUME NEW S, NEW s \in Seq(S), NEW e \in S, Increasing(s), \A x \in IdsOf(s) : x < e.id
    PROVE  Increasing(Append(s, e))
<1>1. /\ DOMAIN Append(s, e) = 1 .. Len(s) + 1 /\ DOMAIN s = 1 .. Len(s)
      /\ Len(s) \in Nat /\ Append(s, e)[Len(s) + 1] = e
      /\ \A i \in 1 .. Len(s) : Append(s, e)[i] = s[i]
    BY AppendProperties, LenProperties
<1>2. \A i \in 1 .. Len(s) : s[i].id < e.id
    BY <1>1 DEF IdsOf
<1> QED BY <1>1, <1>2 DEF Increasing

LEMMA IncreasingTail ==
    ASSUME NEW S, NEW s \in Seq(S), s # <<>>, Increasing(s)
    PROVE  Increasing(Tail(s)) /\ \A x \in IdsOf(Tail(s)) : Head(s).id < x
<1>1. /\ Len(s) \in Nat \ {0} /\ DOMAIN s = 1 .. Len(s)
      /\ DOMAIN Tail(s) = 1 .. Len(s) - 1 /\ Head(s) = s[1]
      /\ \A i \in 1 .. Len(s) - 1 : Tail(s)[i] = s[i + 1]
    BY EmptySeq, LenProperties, HeadTailProperties
<1> QED BY <1>1 DEF Increasing, IdsOf

\* Two ordered sequences, one before the other, are ordered end to end.
LEMMA IncreasingConcat ==
    ASSUME NEW S, NEW R, NEW s \in Seq(S), NEW r \in Seq(R),
           Increasing(s), Increasing(r), Before(s, r)
    PROVE  Increasing(s \o r) /\ IdsOf(s \o r) = IdsOf(s) \cup IdsOf(r)
<1>1. /\ Len(s) \in Nat /\ Len(r) \in Nat
      /\ DOMAIN s = 1 .. Len(s) /\ DOMAIN r = 1 .. Len(r)
    BY LenProperties
<1>2. s \in Seq(S \cup R) /\ r \in Seq(S \cup R)
    OBVIOUS
<1>3. /\ DOMAIN (s \o r) = 1 .. Len(s) + Len(r)
      /\ \A i \in 1 .. Len(s) + Len(r) :
             (s \o r)[i] = IF i <= Len(s) THEN s[i] ELSE r[i - Len(s)]
    BY <1>1, <1>2, ConcatProperties, LenProperties
<1>4. \A i \in 1 .. Len(s), j \in 1 .. Len(r) : s[i].id < r[j].id
    BY <1>1 DEF Before, IdsOf
<1>5. Increasing(s \o r)
    BY <1>1, <1>3, <1>4 DEF Increasing
<1>6. IdsOf(s \o r) \subseteq IdsOf(s) \cup IdsOf(r)
    BY <1>1, <1>3 DEF IdsOf
<1>7. IdsOf(s) \subseteq IdsOf(s \o r)
    BY <1>1, <1>3 DEF IdsOf
<1>8. IdsOf(r) \subseteq IdsOf(s \o r)
  <2> SUFFICES ASSUME NEW j \in 1 .. Len(r) PROVE r[j].id \in IdsOf(s \o r)
      BY <1>1 DEF IdsOf
  <2>1. (s \o r)[Len(s) + j] = r[j] /\ Len(s) + j \in 1 .. Len(s) + Len(r)
      BY <1>1, <1>3
  <2> QED BY <1>3, <2>1 DEF IdsOf
<1> QED BY <1>5, <1>6, <1>7, <1>8
-----------------------------------------------------------------------------
(* What the callback makes of a packet *)

\* The callback answers true exactly when the parser succeeded.
LEMMA OutcomeStatus ==
    ASSUME NEW p, NEW outcome \in Outcomes(p)
    PROVE  /\ outcome.status \in {"SUCCESS", "INVALID_JSON_SYNTAX", "refused", "exception"}
           /\ Verdict[outcome.status] \in {"true", "false", "threw"}
           /\ Verdict[outcome.status] = "true" <=> outcome.status = "SUCCESS"
<1>1. outcome.status \in {"SUCCESS", "INVALID_JSON_SYNTAX", "refused", "exception"}
    BY DEF Outcomes, parse_and_validate
<1> QED BY <1>1 DEF Verdict

\* A record was made of the plaintext of a packet that opened.
LEMMA ParsedIsOpened ==
    ASSUME NEW p, NEW d \in Parsed(p)
    PROVE  /\ p.envelope /\ Opened(p).ok
           /\ ~TypeError(Opened(p).plaintext)
           /\ d \in TelemetryDataOf(Opened(p).plaintext)
<1>1. PICK outcome \in Outcomes(p) : outcome.status = "SUCCESS" /\ d = outcome.out_data
    BY DEF Parsed
<1>2. p.envelope /\ Opened(p).ok /\ outcome \in parse_and_validate(Opened(p).plaintext)
    BY <1>1 DEF Outcomes
<1> QED BY <1>1, <1>2 DEF parse_and_validate

\* A callback appends one verdict, that of an outcome of its packet; it leaves the
\* queue alone, or appends the record that the outcome carries.
Item(id, d) == [id |-> id, data |-> d]

LEMMA ProcessEffect ==
    ASSUME SeqInv, Process
    PROVE  /\ nodePc = "callback" /\ Len(received) = Len(verdict) + 1
           /\ received[Len(received)] \in Packets
           /\ \E outcome \in Outcomes(received[Len(received)]) :
                /\ verdict' = Append(verdict, Verdict[outcome.status])
                /\ \/ /\ outcome.status # "SUCCESS"
                      /\ UNCHANGED <<telemetry_queue_, refused>>
                   \/ /\ outcome.status = "SUCCESS" /\ ~PushFits(telemetry_queue_)
                      /\ telemetry_queue_' = telemetry_queue_
                      /\ refused' = refused \cup {Len(received)}
                   \/ /\ outcome.status = "SUCCESS" /\ PushFits(telemetry_queue_)
                      /\ outcome.out_data \in Parsed(received[Len(received)])
                      /\ telemetry_queue_' =
                            Append(telemetry_queue_, Item(Len(received), outcome.out_data))
                      /\ refused' = refused
<1> DEFINE id == Len(received)
           p == received[id]
<1>1. nodePc = "callback" /\ id = Len(verdict) + 1 /\ id \in Nat /\ Len(verdict) \in Nat
    BY DEF SeqInv, Process
<1>2. p \in Packets
    BY <1>1 DEF SeqInv
<1>3. PICK outcome \in Outcomes(p) :
          /\ verdict' = Append(verdict, Verdict[outcome.status])
          /\ IF outcome.status = "SUCCESS"
             THEN /\ Enqueue(id, outcome.out_data)
                  /\ refused' = IF FindsFull(p) THEN refused \cup {id} ELSE refused
             ELSE UNCHANGED <<telemetry_queue_, refused>>
    BY DEF Process
<1>4. CASE outcome.status # "SUCCESS"
    BY <1>1, <1>2, <1>3, <1>4
<1>5. CASE outcome.status = "SUCCESS"
  <2>1. outcome \in parse_and_validate(Opened(p).plaintext)
      BY <1>5 DEF Outcomes
  <2>2. Len(Records(telemetry_queue_)) = Len(telemetry_queue_)
    <3>1. Len(telemetry_queue_) \in Nat /\ DOMAIN telemetry_queue_ = 1 .. Len(telemetry_queue_)
        BY DEF SeqInv
    <3> QED BY <3>1 DEF Records
  <2>3. FindsFull(p) <=> ~PushFits(telemetry_queue_)
    <3>1. ASSUME ~PushFits(telemetry_queue_) PROVE FindsFull(p)
      <4>1. [status |-> "QUEUE_FULL", queue |-> push(Records(telemetry_queue_), outcome.out_data)]
                \in process_payload(Opened(p).plaintext, Records(telemetry_queue_))
          BY <1>5, <2>1, <2>2, <3>1 DEF process_payload, PushFits
      <4> QED BY <4>1 DEF FindsFull
    <3>2. ASSUME FindsFull(p) PROVE ~PushFits(telemetry_queue_)
      <4>1. PICK r \in parse_and_validate(Opened(p).plaintext) :
                "QUEUE_FULL" = IF r.status # "SUCCESS" THEN r.status
                               ELSE IF PushFits(Records(telemetry_queue_)) THEN "SUCCESS"
                                    ELSE "QUEUE_FULL"
          BY <3>2 DEF FindsFull, process_payload
      <4>2. r.status # "QUEUE_FULL"
          BY DEF parse_and_validate
      <4> QED BY <2>2, <4>1, <4>2 DEF PushFits
    <3> QED BY <3>1, <3>2
  <2>4. outcome.out_data \in Parsed(p)
      BY <1>5 DEF Parsed
  <2> QED BY <1>1, <1>2, <1>3, <1>5, <2>3, <2>4 DEF Enqueue, push, Item
<1> QED BY <1>4, <1>5
-----------------------------------------------------------------------------
(* Types and the order of arrival *)

\* Everything the node keeps stays of its type; the queue stays within its
\* capacity.
LEMMA SeqStep == RowsInv /\ StageInv /\ SeqInv /\ [NodeNext]_allVars => SeqInv'
<1> SUFFICES ASSUME RowsInv, StageInv, SeqInv, [NodeNext]_allVars
             PROVE  SeqInv'
    OBVIOUS
<1> USE DEF trace, arrivals, departures
<1>1. CASE CtorInit \/ CtorThrows
    BY <1>1 DEF CtorInit, CtorThrows, SeqInv
<1>2. CASE CtorStart
    BY <1>2 DEF CtorStart, SeqInv, StageInv
<1>3. ASSUME NEW p \in Packets, Take(p)
      PROVE  SeqInv'
    BY <1>3, NodeAssumption DEF Take, SeqInv
<1>4. CASE Process
  <2>1. PICK outcome \in Outcomes(received[Len(received)]) :
          /\ verdict' = Append(verdict, Verdict[outcome.status])
          /\ \/ UNCHANGED <<telemetry_queue_, refused>>
             \/ telemetry_queue_' = telemetry_queue_ /\ refused' = refused \cup {Len(received)}
             \/ /\ PushFits(telemetry_queue_) /\ refused' = refused
                /\ outcome.out_data \in Parsed(received[Len(received)])
                /\ telemetry_queue_' =
                      Append(telemetry_queue_, Item(Len(received), outcome.out_data))
      BY <1>4, ProcessEffect
  <2>2. /\ Len(received) = Len(verdict) + 1 /\ Len(verdict) \in Nat
        /\ received[Len(received)] \in Packets
      BY <1>4, ProcessEffect DEF SeqInv
  <2>3. /\ verdict' \in Seq({"true", "false", "threw"}) /\ Len(verdict') = Len(verdict) + 1
        /\ DOMAIN verdict' = 1 .. Len(verdict) + 1 /\ DOMAIN verdict = 1 .. Len(verdict)
      BY <2>1, OutcomeStatus DEF SeqInv
  <2>4. telemetry_queue_' \in Seq(Entry) /\ Len(telemetry_queue_') <= max_capacity_
    <3>1. CASE telemetry_queue_' = telemetry_queue_
        BY <3>1 DEF SeqInv
    <3>2. CASE /\ PushFits(telemetry_queue_)
               /\ outcome.out_data \in Parsed(received[Len(received)])
               /\ telemetry_queue_' =
                     Append(telemetry_queue_, Item(Len(received), outcome.out_data))
      <4>1. Item(Len(received), outcome.out_data) \in Entry
          BY <2>2, <3>2 DEF Item, Entry, AllParsed
      <4> QED BY <3>2, <4>1, CapacityAssumption DEF SeqInv, PushFits
    <3> QED BY <2>1, <3>1, <3>2
  <2>5. refused' \subseteq DOMAIN verdict'
    <3>1. refused' \subseteq refused \cup {Len(received)}
        BY <2>1
    <3>2. refused \subseteq 1 .. Len(verdict)
        BY <2>3 DEF SeqInv
    <3> QED BY <2>2, <2>3, <3>1, <3>2
  <2> QED BY <1>4, <2>2, <2>3, <2>4, <2>5 DEF Process, SeqInv
<1>5. CASE WorkerCheck \/ WorkerSleep
    BY <1>5 DEF WorkerCheck, WorkerSleep, SeqInv
<1>6. CASE WorkerPop
  <2>1. /\ Head(telemetry_queue_) \in Entry /\ Tail(telemetry_queue_) \in Seq(Entry)
        /\ Len(Tail(telemetry_queue_)) <= max_capacity_
      BY <1>6, CapacityAssumption DEF WorkerPop, SeqInv
  <2> QED BY <1>6, <2>1 DEF WorkerPop, SeqInv, popped, pop
<1>7. CASE WorkerInsert
  <2>1. data[1] \in Entry
      BY <1>7, IdsOne DEF WorkerInsert, SeqInv
  <2>2. data[1].id \in Nat /\ data[1].data \in AllParsed
      BY <2>1 DEF Entry
  <2>3. Len(calls) + 1 \in Nat
      BY DEF RowsInv, TypeOK
  <2>4. [id |-> data[1].id, call |-> Len(calls) + 1, row |-> RowOf(data[1].data)] \in Insertion
      BY <2>2, <2>3 DEF Insertion
  <2> QED BY <1>7, <2>4 DEF WorkerInsert, SeqInv
<1>8. CASE WorkerPublish
  <2>1. data[1] \in Entry
      BY <1>8, IdsOne DEF WorkerPublish, SeqInv
  <2>2. data[1].id \in Nat /\ data[1].data \in AllParsed
      BY <2>1 DEF Entry
  <2>3. published' \in Seq(Publication)
    <3>1. CASE data[1].data.sensor_type \in DOMAIN Topics /\ ok
      <4>1. Message(data[1].id, data[1].data) \in Publication
          BY <2>2, <3>1 DEF Publication
      <4> QED BY <1>8, <3>1, <4>1 DEF WorkerPublish, SeqInv
    <3>2. CASE ~(data[1].data.sensor_type \in DOMAIN Topics /\ ok)
        BY <1>8, <3>2 DEF WorkerPublish, SeqInv
    <3> QED BY <3>1, <3>2
  <2> QED BY <1>8, <2>3 DEF WorkerPublish, SeqInv
<1>9. CASE RclcppShutdown \/ DtorStop \/ DtorJoin
    BY <1>9 DEF RclcppShutdown, DtorStop, DtorJoin, SeqInv
<1>10. CASE DtorMembers
    BY <1>10, CapacityAssumption DEF DtorMembers, SeqInv
<1>11. CASE (\E t \in Threads : EngineStep(t)) \/ UNCHANGED allVars
    BY <1>11 DEF EngineStep, allVars, nodeVars, SeqInv
<1> QED BY <1>1, <1>2, <1>3, <1>4, <1>5, <1>6, <1>7, <1>8, <1>9, <1>10, <1>11
        DEF NodeNext, ExecutorStep, WorkerStep

\* What the callback adds to the queue is named by its packet, the newest.
LEMMA ProcessAdds ==
    ASSUME SeqInv, Process
    PROVE  /\ DOMAIN verdict' = DOMAIN verdict \cup {Len(received)}
           /\ IdsOf(telemetry_queue_)' \subseteq IdsOf(telemetry_queue_) \cup {Len(received)}
           /\ \/ telemetry_queue_' = telemetry_queue_
              \/ \E e \in Entry : /\ telemetry_queue_' = Append(telemetry_queue_, e)
                                  /\ \A x \in DOMAIN verdict : x < e.id
<1>1. PICK outcome \in Outcomes(received[Len(received)]) :
        /\ verdict' = Append(verdict, Verdict[outcome.status])
        /\ \/ telemetry_queue_' = telemetry_queue_
           \/ /\ outcome.out_data \in Parsed(received[Len(received)])
              /\ telemetry_queue_' =
                    Append(telemetry_queue_, Item(Len(received), outcome.out_data))
    BY ProcessEffect
<1>2. /\ Len(received) = Len(verdict) + 1 /\ Len(verdict) \in Nat
      /\ received[Len(received)] \in Packets /\ DOMAIN verdict = 1 .. Len(verdict)
    BY ProcessEffect DEF SeqInv
<1>3. DOMAIN verdict' = DOMAIN verdict \cup {Len(received)}
  <2>1. Verdict[outcome.status] \in {"true", "false", "threw"}
      BY OutcomeStatus
  <2>2. DOMAIN verdict' = 1 .. Len(verdict) + 1
      BY <1>1, <2>1, AppendProperties DEF SeqInv
  <2> QED BY <1>2, <2>2
<1>4. CASE telemetry_queue_' = telemetry_queue_
    BY <1>3, <1>4 DEF IdsOf
<1>5. CASE /\ outcome.out_data \in Parsed(received[Len(received)])
           /\ telemetry_queue_' = Append(telemetry_queue_, Item(Len(received), outcome.out_data))
  <2> DEFINE e == Item(Len(received), outcome.out_data)
  <2>1. e \in Entry /\ e.id = Len(received)
      BY <1>2, <1>5 DEF Item, Entry, AllParsed
  <2>2. IdsOf(telemetry_queue_)' = IdsOf(telemetry_queue_) \cup {Len(received)}
      BY <1>5, <2>1, IdsAppend DEF SeqInv
  <2>3. \A x \in DOMAIN verdict : x < e.id
      BY <1>2, <2>1
  <2> QED BY <1>3, <1>5, <2>1, <2>2, <2>3
<1> QED BY <1>1, <1>4, <1>5

\* The insertion is named by the record in hand, which is later than all before.
LEMMA InsertAdds ==
    ASSUME RowsInv, SeqInv, OrderInv, WorkerInsert
    PROVE  /\ IdsOf(inserts)' = IdsOf(inserts) \cup IdsOf(data)
           /\ Increasing(inserts)'
<1> DEFINE e == [id |-> data[1].id, call |-> Len(calls) + 1, row |-> RowOf(data[1].data)]
<1>1. IdsOf(data) = {data[1].id} /\ data[1] \in Entry
    BY IdsOne DEF WorkerInsert, SeqInv
<1>2. e \in Insertion /\ e.id = data[1].id
  <2>1. data[1].id \in Nat /\ data[1].data \in AllParsed
      BY <1>1 DEF Entry
  <2>2. Len(calls) + 1 \in Nat
      BY DEF RowsInv, TypeOK
  <2> QED BY <2>1, <2>2 DEF Insertion
<1>3. inserts' = Append(inserts, e) /\ InHand = data
    BY DEF WorkerInsert, InHand
<1>4. \A x \in IdsOf(inserts) : x < e.id
    BY <1>1, <1>2, <1>3 DEF OrderInv, Before
<1> QED BY <1>1, <1>2, <1>3, <1>4, IdsAppend, IncreasingAppend DEF SeqInv, OrderInv

\* What is published is the record whose insertion has returned.
LEMMA PublishAdds ==
    ASSUME SeqInv, OrderInv, WorkerPublish
    PROVE  /\ IdsOf(published)' \subseteq IdsOf(published) \cup IdsOf(data)
           /\ IdsOf(data)' = {}
           /\ Increasing(published)'
<1> DEFINE e == Message(data[1].id, data[1].data)
<1>1. IdsOf(data) = {data[1].id} /\ data[1] \in Entry
    BY IdsOne DEF WorkerPublish, SeqInv
<1>2. IdsOf(data)' = {}
    BY IdsShort DEF WorkerPublish
<1>3. CASE published' = published
    BY <1>2, <1>3 DEF IdsOf, OrderInv, Increasing
<1>4. CASE data[1].data.sensor_type \in DOMAIN Topics /\ published' = Append(published, e)
  <2>1. data[1].id \in Nat /\ data[1].data \in AllParsed
      BY <1>1 DEF Entry
  <2>2. e \in Publication
      BY <1>4, <2>1 DEF Publication
  <2>3. e.id = data[1].id
      BY DEF Message
  <2>4. \A x \in IdsOf(published) : x < e.id
      BY <1>1, <2>3 DEF WorkerPublish, OrderInv, Before
  <2> QED BY <1>1, <1>2, <1>4, <2>2, <2>3, <2>4, IdsAppend, IncreasingAppend DEF SeqInv, OrderInv
<1> QED BY <1>3, <1>4 DEF WorkerPublish

\* No thread names a packet whose callback still runs.
LEMMA IdsStep ==
    RowsInv /\ SeqInv /\ OrderInv /\ IdsInv /\ [NodeNext]_allVars => IdsInv'
<1> SUFFICES ASSUME RowsInv, SeqInv, OrderInv, IdsInv, [NodeNext]_allVars
             PROVE  IdsInv'
    OBVIOUS
<1> USE DEF trace, arrivals, departures, IdsInv
<1>1. CASE CtorInit \/ CtorStart \/ CtorThrows \/ RclcppShutdown \/ DtorStop \/ DtorJoin
    BY <1>1 DEF CtorInit, CtorStart, CtorThrows, RclcppShutdown, DtorStop, DtorJoin, IdsOf
<1>2. CASE WorkerCheck \/ WorkerSleep \/ \E p \in Packets : Take(p)
    BY <1>2 DEF WorkerCheck, WorkerSleep, Take, IdsOf
<1>3. CASE Process
  <2>1. /\ DOMAIN verdict' = DOMAIN verdict \cup {Len(received)}
        /\ IdsOf(telemetry_queue_)' \subseteq IdsOf(telemetry_queue_) \cup {Len(received)}
      BY <1>3, ProcessAdds
  <2>2. UNCHANGED <<IdsOf(data), IdsOf(inserts), IdsOf(published)>>
      BY <1>3 DEF Process, IdsOf
  <2> QED BY <2>1, <2>2
<1>4. CASE WorkerPop
  <2>1. /\ IdsOf(data)' \cup IdsOf(telemetry_queue_)' = IdsOf(telemetry_queue_)
      BY <1>4, IdsHeadTail, IdsShort DEF WorkerPop, SeqInv, pop, popped
  <2>2. UNCHANGED <<verdict, IdsOf(inserts), IdsOf(published)>>
      BY <1>4 DEF WorkerPop, IdsOf
  <2> QED BY <2>1, <2>2
<1>5. CASE WorkerInsert
  <2>1. IdsOf(inserts)' = IdsOf(inserts) \cup IdsOf(data)
      BY <1>5, InsertAdds
  <2>2. UNCHANGED <<verdict, IdsOf(telemetry_queue_), IdsOf(data), IdsOf(published)>>
      BY <1>5 DEF WorkerInsert, IdsOf
  <2> QED BY <2>1, <2>2
<1>6. CASE WorkerPublish
  <2>1. IdsOf(published)' \subseteq IdsOf(published) \cup IdsOf(data) /\ IdsOf(data)' = {}
      BY <1>6, PublishAdds
  <2>2. UNCHANGED <<verdict, IdsOf(telemetry_queue_), IdsOf(inserts)>>
      BY <1>6 DEF WorkerPublish, IdsOf
  <2> QED BY <2>1, <2>2
<1>7. CASE DtorMembers
    BY <1>7, IdsShort DEF DtorMembers, IdsOf
<1>8. CASE (\E t \in Threads : EngineStep(t)) \/ UNCHANGED allVars
    BY <1>8 DEF EngineStep, allVars, nodeVars, IdsOf
<1> QED BY <1>1, <1>2, <1>3, <1>4, <1>5, <1>6, <1>7, <1>8 DEF NodeNext, ExecutorStep, WorkerStep

\* Records move from the queue to the engine and the topics one behind the other.
LEMMA OrderStep ==
    RowsInv /\ StageInv /\ SeqInv /\ IdsInv /\ OrderInv /\ [NodeNext]_allVars => OrderInv'
<1> SUFFICES ASSUME RowsInv, StageInv, SeqInv, IdsInv, OrderInv, [NodeNext]_allVars
             PROVE  OrderInv'
    OBVIOUS
<1> USE DEF trace, arrivals, departures
<1>1. ASSUME UNCHANGED <<telemetry_queue_, data, inserts, published>>,
             workerPc' = workerPc \/ {workerPc, workerPc'} \cap {"insert", "inserting"} = {}
      PROVE  OrderInv'
  <2>1. InHand' = InHand
      BY <1>1 DEF InHand
  <2>2. UNCHANGED <<IdsOf(InHand), IdsOf(data), IdsOf(telemetry_queue_), IdsOf(inserts),
                    IdsOf(published), Increasing(inserts), Increasing(published),
                    Increasing(telemetry_queue_)>>
      BY <1>1, <2>1 DEF IdsOf, Increasing
  <2> QED BY <1>1, <2>2 DEF OrderInv, Before
<1>2. CASE CtorInit \/ CtorStart \/ CtorThrows \/ RclcppShutdown \/ DtorStop \/ DtorJoin
    BY <1>1, <1>2 DEF CtorInit, CtorStart, CtorThrows, RclcppShutdown, DtorStop, DtorJoin, StageInv
<1>3. CASE WorkerCheck \/ WorkerSleep \/ \E p \in Packets : Take(p)
    BY <1>1, <1>3 DEF WorkerCheck, WorkerSleep, Take
<1>4. CASE Process
  <2>1. UNCHANGED <<data, inserts, published, workerPc>>
      BY <1>4 DEF Process
  <2>2. CASE telemetry_queue_' = telemetry_queue_
      BY <1>1, <2>1, <2>2
  <2>3. ASSUME NEW e \in Entry, telemetry_queue_' = Append(telemetry_queue_, e),
               \A x \in DOMAIN verdict : x < e.id
        PROVE  OrderInv'
    <3>1. Increasing(telemetry_queue_)'
        BY <2>3, IncreasingAppend DEF SeqInv, IdsInv, OrderInv
    <3>2. IdsOf(telemetry_queue_)' = IdsOf(telemetry_queue_) \cup {e.id}
        BY <2>3, IdsAppend DEF SeqInv
    <3>3. UNCHANGED <<IdsOf(data), IdsOf(inserts), IdsOf(published), IdsOf(InHand),
                      Increasing(inserts), Increasing(published)>>
        BY <2>1 DEF IdsOf, InHand, Increasing
    <3> QED BY <2>1, <2>3, <3>1, <3>2, <3>3 DEF OrderInv, Before, IdsInv
  <2> QED BY <1>4, <2>2, <2>3, ProcessAdds
<1>5. CASE WorkerPop
  <2> DEFINE q == telemetry_queue_
  <2>1. q \in Seq(Entry) /\ q # <<>> /\ q' = Tail(q) /\ data' = <<Head(q)>>
      BY <1>5 DEF WorkerPop, SeqInv, pop, popped
  <2>2. /\ IdsOf(q) = {Head(q).id} \cup IdsOf(q)' /\ IdsOf(data)' = {Head(q).id}
        /\ Increasing(q)' /\ \A x \in IdsOf(q)' : Head(q).id < x
      BY <2>1, IdsHeadTail, IdsShort, IncreasingTail DEF OrderInv
  <2>3. IdsOf(InHand)' = {Head(q).id} /\ workerPc' = "insert"
      BY <1>5, <2>2 DEF WorkerPop, InHand
  <2>4. UNCHANGED <<IdsOf(inserts), IdsOf(published), Increasing(inserts), Increasing(published)>>
      BY <1>5 DEF WorkerPop, IdsOf, Increasing
  <2> QED BY <2>2, <2>3, <2>4 DEF OrderInv, Before
<1>6. CASE WorkerInsert
  <2>1. IdsOf(inserts)' = IdsOf(inserts) \cup IdsOf(data) /\ Increasing(inserts)'
      BY <1>6, InsertAdds
  <2>2. IdsOf(InHand)' = {} /\ InHand = data /\ workerPc' = "inserting"
      BY <1>6, IdsShort DEF WorkerInsert, InHand
  <2>3. UNCHANGED <<IdsOf(data), IdsOf(telemetry_queue_), IdsOf(published),
                    Increasing(telemetry_queue_), Increasing(published)>>
      BY <1>6 DEF WorkerInsert, IdsOf, Increasing
  <2> QED BY <2>1, <2>2, <2>3 DEF OrderInv, Before
<1>7. CASE WorkerPublish
  <2>1. /\ IdsOf(published)' \subseteq IdsOf(published) \cup IdsOf(data)
        /\ IdsOf(data)' = {} /\ Increasing(published)'
      BY <1>7, PublishAdds
  <2>2. IdsOf(InHand)' = {} /\ workerPc' = "check"
      BY <1>7, IdsShort DEF WorkerPublish, InHand
  <2>3. UNCHANGED <<IdsOf(inserts), IdsOf(telemetry_queue_), Increasing(inserts),
                    Increasing(telemetry_queue_)>>
      BY <1>7 DEF WorkerPublish, IdsOf, Increasing
  <2>4. IdsOf(data) \subseteq IdsOf(inserts)
      BY <1>7 DEF WorkerPublish, OrderInv
  <2> QED BY <2>1, <2>2, <2>3, <2>4 DEF OrderInv, Before
<1>8. CASE DtorMembers
  <2>1. IdsOf(telemetry_queue_)' = {} /\ Increasing(telemetry_queue_)'
      BY <1>8, IdsShort DEF DtorMembers, Increasing
  <2>2. UNCHANGED <<IdsOf(data), IdsOf(inserts), IdsOf(published), IdsOf(InHand), workerPc,
                    Increasing(inserts), Increasing(published)>>
      BY <1>8 DEF DtorMembers, IdsOf, InHand, Increasing
  <2> QED BY <2>1, <2>2 DEF OrderInv, Before
<1>9. CASE (\E t \in Threads : EngineStep(t)) \/ UNCHANGED allVars
    BY <1>1, <1>9 DEF EngineStep, allVars, nodeVars
<1> QED BY <1>2, <1>3, <1>4, <1>5, <1>6, <1>7, <1>8, <1>9 DEF NodeNext, ExecutorStep, WorkerStep

\* The engine's invariant, the node's types and the order of arrival.
NodeInv == EngineInv /\ SeqInv /\ IdsInv /\ OrderInv

\* They hold together throughout every behaviour of the node.
LEMMA NodeInvariant == NodeSpec => []NodeInv
<1>1. NodeInit => SeqInv /\ IdsInv /\ OrderInv
  <2> SUFFICES ASSUME NodeInit PROVE SeqInv /\ IdsInv /\ OrderInv
      OBVIOUS
  <2>1. SeqInv
    <3>1. Len(<<>>) = 0 /\ \A S : <<>> \in Seq(S)
        OBVIOUS
    <3>2. 0 <= max_capacity_ /\ 0 <= MaxPackets
        BY NodeAssumption, CapacityAssumption
    <3>3. /\ ok \in BOOLEAN /\ running_ \in BOOLEAN /\ refused \subseteq DOMAIN verdict
          /\ received = <<>> /\ verdict = <<>> /\ telemetry_queue_ = <<>> /\ data = <<>>
          /\ inserts = <<>> /\ published = <<>> /\ nodePc = "construct" /\ workerPc = "none"
        BY DEF NodeInit
    <3> QED BY <3>1, <3>2, <3>3 DEF SeqInv
  <2>2. /\ IdsOf(telemetry_queue_) = {} /\ IdsOf(data) = {} /\ IdsOf(inserts) = {}
        /\ IdsOf(published) = {} /\ IdsOf(InHand) = {}
      BY IdsShort DEF NodeInit, InHand
  <2>3. Increasing(inserts) /\ Increasing(telemetry_queue_) /\ Increasing(published)
      BY DEF NodeInit, Increasing
  <2> QED BY <2>1, <2>2, <2>3 DEF IdsInv, OrderInv, Before
<1>2. EngineInv => RowsInv /\ StageInv
    BY DEF EngineInv
<1> QED BY <1>1, <1>2, EngineInvariant, SeqStep, IdsStep, OrderStep, PTL DEF NodeSpec, NodeInv

\* Every variable of the node keeps its type, the queue its capacity.
THEOREM NodeTypeCorrect == NodeSpec => []NodeTypeOK
<1>1. NodeInv => NodeTypeOK
  <2> SUFFICES ASSUME NodeInv PROVE NodeTypeOK
      OBVIOUS
  <2>1. /\ Len(verdict) \in Nat /\ Len(received) \in Nat /\ DOMAIN verdict = 1 .. Len(verdict)
        /\ Len(verdict) <= Len(received) /\ Len(received) <= MaxPackets
      BY DEF NodeInv, SeqInv
  <2>2. DOMAIN verdict \subseteq 1 .. MaxPackets
      BY <2>1, NodeAssumption
  <2>3. Len(data) <= 1
      BY DEF NodeInv, SeqInv
  <2> QED BY <2>2, <2>3 DEF NodeInv, EngineInv, StageInv, SeqInv, IdsInv, NodeTypeOK
<1> QED BY <1>1, NodeInvariant, PTL

\* From the queue through the database to the topics every packet goes at most
\* once and in the order of arrival, with any capacity and however the worker,
\* the callback and the shutdown interleave.
THEOREM NodeHandlesInOrder == NodeSpec => []HandledInOrder
<1>1. NodeInv => HandledInOrder
  <2> SUFFICES ASSUME NodeInv PROVE HandledInOrder
      OBVIOUS
  <2>1. /\ inserts \in Seq(Insertion) /\ data \in Seq(Entry) /\ telemetry_queue_ \in Seq(Entry)
        /\ Len(data) <= 1
      BY DEF NodeInv, SeqInv
  <2>2. InHand \in Seq(Entry) /\ Increasing(InHand)
    <3>1. InHand \in Seq(Entry) /\ Len(InHand) <= 1
        BY <2>1 DEF InHand
    <3>2. DOMAIN InHand = 1 .. Len(InHand) /\ Len(InHand) \in Nat
        BY <3>1
    <3> QED BY <3>1, <3>2 DEF Increasing
  <2>3. IdsOf(InHand) \subseteq IdsOf(data)
      BY IdsShort DEF InHand
  <2>4. /\ Increasing(inserts \o InHand)
        /\ IdsOf(inserts \o InHand) = IdsOf(inserts) \cup IdsOf(InHand)
      BY <2>1, <2>2, IncreasingConcat DEF NodeInv, OrderInv
  <2>5. inserts \o InHand \in Seq(Insertion \cup Entry)
      BY <2>1, <2>2
  <2>6. Before(inserts \o InHand, telemetry_queue_)
      BY <2>3, <2>4 DEF NodeInv, OrderInv, Before
  <2>7. Increasing(inserts \o InHand \o telemetry_queue_)
      BY <2>1, <2>4, <2>5, <2>6, IncreasingConcat DEF NodeInv, OrderInv
  <2> QED BY <2>7 DEF HandledInOrder, NodeInv, OrderInv
<1> QED BY <1>1, NodeInvariant, PTL
-----------------------------------------------------------------------------
(* What the queue drops *)

Kept == IdsOf(telemetry_queue_) \cup IdsOf(data) \cup IdsOf(inserts)

\* An accepted packet is kept or was refused by the full queue, never both, and
\* moves between queue, hand and engine without being lost.
LEMMA DropStep ==
    NodeInv /\ OnlyFullQueueDrops /\ [NodeNext]_allVars => OnlyFullQueueDrops'
<1> SUFFICES ASSUME NodeInv, OnlyFullQueueDrops, [NodeNext]_allVars
             PROVE  OnlyFullQueueDrops'
    OBVIOUS
<1> USE DEF trace, arrivals, departures, NodeInv
<1>1. ASSUME UNCHANGED <<verdict, refused>>, Kept' = Kept, nodePc = "gone" => nodePc' = "gone"
      PROVE  OnlyFullQueueDrops'
    BY <1>1 DEF OnlyFullQueueDrops, Kept
<1>2. CASE CtorInit \/ CtorStart \/ CtorThrows \/ RclcppShutdown \/ DtorStop \/ DtorJoin
    BY <1>1, <1>2 DEF CtorInit, CtorStart, CtorThrows, RclcppShutdown, DtorStop, DtorJoin, Kept, IdsOf
<1>3. CASE WorkerCheck \/ WorkerSleep \/ \E p \in Packets : Take(p)
    BY <1>1, <1>3 DEF WorkerCheck, WorkerSleep, Take, Kept, IdsOf
<1>4. CASE Process
  <2> DEFINE n == Len(received)
  <2>1. nodePc = "callback" /\ nodePc' = "spin" /\ UNCHANGED <<IdsOf(data), IdsOf(inserts)>>
      BY <1>4 DEF Process, IdsOf
  <2>2. PICK outcome \in Outcomes(received[n]) :
        /\ verdict' = Append(verdict, Verdict[outcome.status])
        /\ \/ outcome.status # "SUCCESS" /\ UNCHANGED <<telemetry_queue_, refused>>
           \/ /\ outcome.status = "SUCCESS" /\ telemetry_queue_' = telemetry_queue_
              /\ refused' = refused \cup {n}
           \/ /\ outcome.status = "SUCCESS" /\ refused' = refused
              /\ outcome.out_data \in Parsed(received[n])
              /\ telemetry_queue_' = Append(telemetry_queue_, Item(n, outcome.out_data))
      BY <1>4, ProcessEffect
  <2>3. n = Len(verdict) + 1 /\ Len(verdict) \in Nat /\ received[n] \in Packets
      BY <1>4, ProcessEffect DEF SeqInv
  <2>4. /\ verdict \in Seq({"true", "false", "threw"}) /\ DOMAIN verdict = 1 .. Len(verdict)
        /\ Verdict[outcome.status] \in {"true", "false", "threw"}
        /\ Verdict[outcome.status] = "true" <=> outcome.status = "SUCCESS"
      BY OutcomeStatus DEF SeqInv
  <2>5. /\ DOMAIN verdict' = DOMAIN verdict \cup {n} /\ n \notin DOMAIN verdict
        /\ verdict'[n] = Verdict[outcome.status]
        /\ \A id \in DOMAIN verdict : verdict'[id] = verdict[id]
    <3>1. /\ DOMAIN verdict' = 1 .. Len(verdict) + 1
          /\ verdict'[Len(verdict) + 1] = Verdict[outcome.status]
          /\ \A id \in 1 .. Len(verdict) : verdict'[id] = verdict[id]
        BY <2>2, <2>4, AppendProperties
    <3> QED BY <2>3, <2>4, <3>1
  <2>6. Kept \cup refused \subseteq DOMAIN verdict
      BY DEF SeqInv, IdsInv, Kept
  <2>7. /\ outcome.status = "SUCCESS" => (n \in refused' <=> n \notin Kept')
        /\ Kept' \ {n} = Kept /\ refused' \ {n} = refused
    <3>1. CASE telemetry_queue_' = telemetry_queue_
      <4>1. Kept' = Kept
          BY <2>1, <3>1 DEF Kept, IdsOf
      <4>2. telemetry_queue_' # Append(telemetry_queue_, Item(n, outcome.out_data))
        <5>1. Len(Append(telemetry_queue_, Item(n, outcome.out_data))) = Len(telemetry_queue_) + 1
            BY DEF SeqInv
        <5>2. Len(telemetry_queue_) \in Nat
            BY DEF SeqInv
        <5> QED BY <3>1, <5>1, <5>2
      <4> QED BY <2>2, <2>5, <2>6, <4>1, <4>2
    <3>2. CASE /\ outcome.out_data \in Parsed(received[n]) /\ refused' = refused
               /\ telemetry_queue_' = Append(telemetry_queue_, Item(n, outcome.out_data))
      <4>1. Item(n, outcome.out_data) \in Entry /\ Item(n, outcome.out_data).id = n
          BY <2>3, <3>2 DEF Item, Entry, AllParsed
      <4>2. IdsOf(telemetry_queue_)' = IdsOf(telemetry_queue_) \cup {n}
          BY <3>2, <4>1, IdsAppend DEF SeqInv
      <4>3. Kept' = Kept \cup {n}
          BY <2>1, <4>2 DEF Kept
      <4> QED BY <2>5, <2>6, <3>2, <4>3
    <3> QED BY <2>2, <3>1, <3>2
  <2> QED BY <2>1, <2>4, <2>5, <2>6, <2>7 DEF OnlyFullQueueDrops, Kept
<1>5. CASE WorkerPop
  <2>1. IdsOf(data)' \cup IdsOf(telemetry_queue_)' = IdsOf(telemetry_queue_)
      BY <1>5, IdsHeadTail, IdsShort DEF WorkerPop, SeqInv, pop, popped
  <2>2. IdsOf(data) = {} /\ UNCHANGED IdsOf(inserts)
    <3>1. data = <<>>
        BY <1>5 DEF WorkerPop, SeqInv
    <3> QED BY <1>5, <3>1, IdsShort DEF WorkerPop, IdsOf
  <2>3. Kept' = Kept
      BY <2>1, <2>2 DEF Kept
  <2> QED BY <1>1, <1>5, <2>3 DEF WorkerPop
<1>6. CASE WorkerInsert
  <2>1. IdsOf(inserts)' = IdsOf(inserts) \cup IdsOf(data)
      BY <1>6, InsertAdds DEF EngineInv
  <2>2. UNCHANGED <<IdsOf(telemetry_queue_), IdsOf(data)>>
      BY <1>6 DEF WorkerInsert, IdsOf
  <2>3. Kept' = Kept
      BY <2>1, <2>2 DEF Kept
  <2> QED BY <1>1, <1>6, <2>3 DEF WorkerInsert
<1>7. CASE WorkerPublish
  <2>1. IdsOf(data)' = {} /\ IdsOf(data) \subseteq IdsOf(inserts)
      BY <1>7, PublishAdds DEF WorkerPublish, OrderInv
  <2>2. UNCHANGED <<IdsOf(telemetry_queue_), IdsOf(inserts)>>
      BY <1>7 DEF WorkerPublish, IdsOf
  <2>3. Kept' = Kept
      BY <2>1, <2>2 DEF Kept
  <2> QED BY <1>1, <1>7, <2>3 DEF WorkerPublish
<1>8. CASE DtorMembers
    BY <1>8 DEF DtorMembers, OnlyFullQueueDrops
<1>9. CASE (\E t \in Threads : EngineStep(t)) \/ UNCHANGED allVars
    BY <1>1, <1>9 DEF EngineStep, allVars, nodeVars, Kept, IdsOf
<1> QED BY <1>2, <1>3, <1>4, <1>5, <1>6, <1>7, <1>8, <1>9 DEF NodeNext, ExecutorStep, WorkerStep

\* An accepted packet is lost only when it found the queue full, and then always;
\* no interleaving of callback, worker and shutdown loses another one before the
\* destructor destroys the queue.
THEOREM NodeDropsOnlyWhenFull == NodeSpec => []OnlyFullQueueDrops
<1>1. NodeInit => OnlyFullQueueDrops
    BY DEF NodeInit, OnlyFullQueueDrops
<1> QED BY <1>1, DropStep, NodeInvariant, PTL DEF NodeSpec
-----------------------------------------------------------------------------
(* What becomes of the packets *)

\* A packet keeps its place in the order of arrival.
LEMMA ReceivedKept ==
    ASSUME SeqInv, [NodeNext]_allVars
    PROVE  \A id \in DOMAIN verdict : received'[id] = received[id]
<1>1. DOMAIN verdict \subseteq DOMAIN received /\ received \in Seq(Packets)
    BY DEF SeqInv
<1>2. CASE received' = received
    BY <1>2
<1>3. ASSUME NEW p \in Packets, Take(p)
      PROVE  \A id \in DOMAIN verdict : received'[id] = received[id]
  <2>1. received' = Append(received, p)
      BY <1>3 DEF Take
  <2> QED BY <1>1, <2>1, AppendProperties, LenProperties
<1>4. (\A p \in Packets : ~Take(p)) => received' = received
    BY DEF NodeNext, ExecutorStep, WorkerStep, CtorInit, CtorStart, CtorThrows, Process, DtorJoin, DtorMembers,
           WorkerCheck, WorkerPop, WorkerSleep, WorkerInsert, WorkerPublish, RclcppShutdown,
           DtorStop, EngineStep, allVars, nodeVars, trace, arrivals
<1> QED BY <1>2, <1>3, <1>4

\* Only a callback gives a verdict, and takes none back.
LEMMA VerdictStep == NodeInv /\ VerdictInv /\ [NodeNext]_allVars => VerdictInv'
<1> SUFFICES ASSUME NodeInv, VerdictInv, [NodeNext]_allVars
             PROVE  VerdictInv'
    OBVIOUS
<1>0. \A id \in DOMAIN verdict : received'[id] = received[id]
    BY ReceivedKept DEF NodeInv
<1>1. CASE verdict' = verdict
    BY <1>0, <1>1 DEF VerdictInv
<1>2. CASE Process
  <2> DEFINE n == Len(received)
  <2>1. PICK outcome \in Outcomes(received[n]) :
            verdict' = Append(verdict, Verdict[outcome.status])
      BY <1>2, ProcessEffect DEF NodeInv
  <2>2. /\ n = Len(verdict) + 1 /\ received' = received
        /\ verdict \in Seq({"true", "false", "threw"})
      BY <1>2, ProcessEffect DEF NodeInv, SeqInv, Process
  <2>3. /\ DOMAIN verdict' = 1 .. Len(verdict) + 1
        /\ verdict'[Len(verdict) + 1] = Verdict[outcome.status]
        /\ \A id \in 1 .. Len(verdict) : verdict'[id] = verdict[id]
        /\ DOMAIN verdict = 1 .. Len(verdict) /\ Len(verdict) \in Nat
    <3>1. Verdict[outcome.status] \in {"true", "false", "threw"}
        BY OutcomeStatus
    <3> QED BY <2>1, <2>2, <3>1, AppendProperties, LenProperties
  <2>4. ASSUME NEW id \in DOMAIN verdict'
        PROVE  \E o \in Outcomes(received'[id]) : verdict'[id] = Verdict[o.status]
    <3>1. CASE id = Len(verdict) + 1
        BY <2>1, <2>2, <2>3, <3>1
    <3>2. CASE id \in 1 .. Len(verdict)
        BY <2>2, <2>3, <3>2 DEF VerdictInv
    <3> QED BY <2>3, <2>4, <3>1, <3>2
  <2> QED BY <2>4 DEF VerdictInv
<1>3. ~Process => verdict' = verdict
    BY DEF NodeNext, ExecutorStep, WorkerStep, CtorInit, CtorStart, CtorThrows, Take, DtorJoin, DtorMembers,
           WorkerCheck, WorkerPop, WorkerSleep, WorkerInsert, WorkerPublish, RclcppShutdown,
           DtorStop, EngineStep, allVars, nodeVars, trace, arrivals
<1> QED BY <1>1, <1>2, <1>3

\* Nothing changes a record between the packet and the row or the topic.
LEMMA SourceStep == NodeInv /\ SourceInv /\ [NodeNext]_allVars => SourceInv'
<1> SUFFICES ASSUME NodeInv, SourceInv, [NodeNext]_allVars
             PROVE  SourceInv'
    OBVIOUS
<1> USE DEF trace, arrivals, departures, SourceInv
<1>0. \A id \in IdsOf(telemetry_queue_) \cup IdsOf(data) \cup IdsOf(inserts) :
          received'[id] = received[id]
    BY ReceivedKept DEF NodeInv, IdsInv
<1>1. ASSUME UNCHANGED telemetry_queue_ PROVE QueueSource'
    BY <1>0, <1>1 DEF QueueSource, IdsOf
<1>2. ASSUME UNCHANGED data PROVE HandSource'
    BY <1>0, <1>2 DEF HandSource, IdsOf
<1>3. ASSUME UNCHANGED inserts PROVE RowSource'
    BY <1>0, <1>3 DEF RowSource, IdsOf
<1>4. ASSUME UNCHANGED <<data, inserts>>, workerPc' = "inserting" => workerPc = "inserting"
      PROVE  LastInsertion'
    BY <1>4 DEF LastInsertion
<1>5. ASSUME UNCHANGED <<published, inserts>> PROVE TopicSource'
    BY <1>0, <1>5 DEF TopicSource, IdsOf
<1>6. ASSUME UNCHANGED <<telemetry_queue_, data, inserts, published>>,
             workerPc' = "inserting" => workerPc = "inserting"
      PROVE  SourceInv'
    BY <1>1, <1>2, <1>3, <1>4, <1>5, <1>6
<1>7. CASE CtorInit \/ CtorStart \/ CtorThrows \/ RclcppShutdown \/ DtorStop \/ DtorJoin
    BY <1>6, <1>7 DEF CtorInit, CtorStart, CtorThrows, RclcppShutdown, DtorStop, DtorJoin
<1>8. CASE WorkerCheck \/ WorkerSleep \/ \E p \in Packets : Take(p)
    BY <1>6, <1>8 DEF WorkerCheck, WorkerSleep, Take
<1>9. CASE Process
  <2>1. UNCHANGED <<received, data, inserts, published, workerPc>>
      BY <1>9 DEF Process
  <2>2. QueueSource'
    <3>1. CASE telemetry_queue_' = telemetry_queue_
        BY <1>1, <3>1
    <3>2. ASSUME NEW d \in Parsed(received[Len(received)]),
                 telemetry_queue_' = Append(telemetry_queue_, Item(Len(received), d))
          PROVE  QueueSource'
      <4>1. Item(Len(received), d) \in Entry
          BY <1>9, ProcessEffect DEF NodeInv, SeqInv, Item, Entry, AllParsed
      <4>2. /\ DOMAIN telemetry_queue_' = 1 .. Len(telemetry_queue_) + 1
            /\ telemetry_queue_'[Len(telemetry_queue_) + 1] = Item(Len(received), d)
            /\ \A i \in 1 .. Len(telemetry_queue_) : telemetry_queue_'[i] = telemetry_queue_[i]
            /\ DOMAIN telemetry_queue_ = 1 .. Len(telemetry_queue_)
            /\ Len(telemetry_queue_) \in Nat
          BY <3>2, <4>1, AppendProperties, LenProperties DEF NodeInv, SeqInv
      <4> QED BY <2>1, <4>2 DEF QueueSource, Item
    <3> QED BY <1>9, <3>1, <3>2, ProcessEffect DEF NodeInv
  <2> QED BY <1>2, <1>3, <1>4, <1>5, <2>1, <2>2
<1>10. CASE WorkerPop
  <2> DEFINE q == telemetry_queue_
  <2>1. /\ q \in Seq(Entry) /\ q # <<>> /\ q' = Tail(q) /\ data' = <<Head(q)>>
        /\ received' = received /\ UNCHANGED <<inserts, published>> /\ workerPc' = "insert"
      BY <1>10 DEF WorkerPop, NodeInv, SeqInv, pop, popped
  <2>2. /\ Len(q) \in Nat \ {0} /\ DOMAIN q = 1 .. Len(q)
        /\ DOMAIN Tail(q) = 1 .. Len(q) - 1 /\ Head(q) = q[1]
        /\ \A i \in 1 .. Len(q) - 1 : Tail(q)[i] = q[i + 1]
      BY <2>1, EmptySeq, LenProperties, HeadTailProperties
  <2>3. QueueSource'
      BY <2>1, <2>2 DEF QueueSource
  <2>4. HandSource'
    <3>1. DOMAIN data' = {1} /\ data'[1] = q[1]
        BY <2>1, <2>2
    <3>2. q[1].data \in Parsed(received[q[1].id])
        BY <2>2 DEF QueueSource
    <3> QED BY <2>1, <3>1, <3>2 DEF HandSource
  <2> QED BY <1>3, <1>5, <2>1, <2>3, <2>4 DEF LastInsertion
<1>11. CASE WorkerInsert
  <2> DEFINE e == [id |-> data[1].id, call |-> Len(calls) + 1, row |-> RowOf(data[1].data)]
  <2>1. /\ UNCHANGED <<received, telemetry_queue_, data, published>>
        /\ inserts' = Append(inserts, e) /\ data[1] \in Entry /\ DOMAIN data = {1}
      BY <1>11, IdsOne DEF WorkerInsert, NodeInv, SeqInv
  <2>2. e \in Insertion
    <3>1. data[1].id \in Nat /\ data[1].data \in AllParsed
        BY <2>1 DEF Entry
    <3>2. Len(calls) + 1 \in Nat
        BY DEF NodeInv, EngineInv, RowsInv, TypeOK
    <3> QED BY <3>1, <3>2 DEF Insertion
  <2>3. /\ DOMAIN inserts' = 1 .. Len(inserts) + 1 /\ Len(inserts') = Len(inserts) + 1
        /\ inserts'[Len(inserts) + 1] = e
        /\ \A i \in 1 .. Len(inserts) : inserts'[i] = inserts[i]
        /\ DOMAIN inserts = 1 .. Len(inserts) /\ Len(inserts) \in Nat
      BY <2>1, <2>2, AppendProperties, LenProperties DEF NodeInv, SeqInv
  <2>4. RowSource'
    <3>1. data[1].data \in Parsed(received[e.id]) /\ e.row = RowOf(data[1].data)
        BY <2>1 DEF HandSource
    <3>2. ASSUME NEW i \in DOMAIN inserts'
          PROVE  \E d \in Parsed(received'[inserts'[i].id]) : inserts'[i].row = RowOf(d)
      <4>1. CASE i = Len(inserts) + 1
          BY <2>1, <2>3, <3>1, <4>1
      <4>2. CASE i \in 1 .. Len(inserts)
          BY <2>1, <2>3, <4>2 DEF RowSource
      <4> QED BY <2>3, <3>2, <4>1, <4>2
    <3> QED BY <3>2 DEF RowSource
  <2>5. LastInsertion'
      BY <2>1, <2>3 DEF LastInsertion
  <2>6. TopicSource'
    <3>1. DOMAIN inserts \subseteq DOMAIN inserts' /\ \A i \in DOMAIN inserts : inserts'[i] = inserts[i]
        BY <2>3
    <3> QED BY <2>1, <3>1 DEF TopicSource
  <2> QED BY <1>1, <1>2, <2>1, <2>4, <2>5, <2>6
<1>12. CASE WorkerPublish
  <2>1. /\ UNCHANGED <<received, telemetry_queue_, inserts>> /\ data' = <<>>
        /\ workerPc = "inserting" /\ workerPc' = "check"
      BY <1>12 DEF WorkerPublish
  <2>2. TopicSource'
    <3>1. CASE published' = published
        BY <1>5, <2>1, <3>1
    <3>2. CASE /\ data[1].data.sensor_type \in DOMAIN Topics
               /\ published' = Append(published, Message(data[1].id, data[1].data))
      <4> DEFINE d == data[1].data
                 e == Message(data[1].id, d)
                 k == Len(inserts)
      <4>1. /\ data[1] \in Entry /\ DOMAIN data = {1}
            /\ k \in DOMAIN inserts
        <5>1. Len(data) = 1 /\ data \in Seq(Entry) /\ inserts \in Seq(Insertion) /\ k > 0
            BY <2>1 DEF NodeInv, SeqInv, LastInsertion
        <5>2. k \in Nat /\ DOMAIN inserts = 1 .. k
            BY <5>1, LenProperties
        <5> QED BY <5>1, <5>2, IdsOne
      <4>2. d \in Parsed(received[inserts[k].id]) /\ inserts[k].row = RowOf(d)
            /\ e = Message(inserts[k].id, d)
          BY <2>1, <4>1 DEF HandSource, LastInsertion
      <4>3. e \in Publication
        <5>1. data[1].id \in Nat /\ d \in AllParsed
            BY <4>1 DEF Entry
        <5> QED BY <3>2, <5>1 DEF Publication
      <4>4. /\ DOMAIN published' = 1 .. Len(published) + 1
            /\ published'[Len(published) + 1] = e
            /\ \A m \in 1 .. Len(published) : published'[m] = published[m]
            /\ DOMAIN published = 1 .. Len(published) /\ Len(published) \in Nat
          BY <3>2, <4>3, AppendProperties, LenProperties DEF NodeInv, SeqInv
      <4> HIDE DEF e, d
      <4>5. ASSUME NEW m \in DOMAIN published'
            PROVE  \E i \in DOMAIN inserts' : \E c \in Parsed(received'[inserts'[i].id]) :
                      /\ c.sensor_type \in DOMAIN Topics
                      /\ inserts'[i].row = RowOf(c)
                      /\ published'[m] = Message(inserts'[i].id, c)
        <5>1. CASE m = Len(published) + 1
          <6>1. d.sensor_type \in DOMAIN Topics
              BY <3>2 DEF d
          <6> QED BY <2>1, <4>1, <4>2, <4>4, <5>1, <6>1
        <5>2. CASE m \in 1 .. Len(published)
            BY <2>1, <4>4, <5>2 DEF TopicSource
        <5> QED BY <4>4, <4>5, <5>1, <5>2
      <4> QED BY <4>5 DEF TopicSource
    <3> QED BY <1>12, <3>1, <3>2 DEF WorkerPublish
  <2> QED BY <1>1, <1>3, <2>1, <2>2 DEF HandSource, LastInsertion
<1>13. CASE DtorMembers
  <2>1. /\ UNCHANGED <<data, inserts, published, workerPc>> /\ telemetry_queue_' = <<>>
      BY <1>13 DEF DtorMembers
  <2> QED BY <1>2, <1>3, <1>4, <1>5, <2>1 DEF QueueSource
<1>14. CASE (\E t \in Threads : EngineStep(t)) \/ UNCHANGED allVars
    BY <1>6, <1>14 DEF EngineStep, allVars, nodeVars
<1> QED BY <1>7, <1>8, <1>9, <1>10, <1>11, <1>12, <1>13, <1>14
        DEF NodeNext, ExecutorStep, WorkerStep

\* Both hold throughout every behaviour of the node.
LEMMA SourceInvariant == NodeSpec => [](VerdictInv /\ SourceInv)
<1>1. NodeInit => VerdictInv /\ SourceInv
    BY DEF NodeInit, VerdictInv, SourceInv, QueueSource, HandSource, RowSource, LastInsertion,
           TopicSource
<1> QED BY <1>1, VerdictStep, SourceStep, NodeInvariant, PTL DEF NodeSpec
-----------------------------------------------------------------------------
(* Authenticity *)

\* With the declared order a packet opens for exactly its own tag.
LEMMA OpenedDeclared ==
    ASSUME DecryptOrder = "declared", NEW p
    PROVE  Opened(p) = IF /\ p.iv.len = 12 /\ p.tag.len = 16
                          /\ p.tag.val = TagOf(PRE_SHARED_KEY, p.iv, p.ciphertext)
                       THEN [ok |-> TRUE, plaintext |-> TextOf(p)] ELSE [ok |-> FALSE]
<1> DEFINE args == <<p.ciphertext, p.tag, PRE_SHARED_KEY, p.iv>>
           formals == <<"ciphertext", "tag", "key", "iv">>
<1>1. Formals[DecryptOrder] = formals
    BY DEF Formals
<1>2. DOMAIN formals = 1 .. 4
    OBVIOUS
<1>3. {formals[i] : i \in DOMAIN formals} = {"ciphertext", "tag", "key", "iv"}
  <2>1. \A i \in 1 .. 4 : i = 1 \/ i = 2 \/ i = 3 \/ i = 4
      OBVIOUS
  <2> QED BY <1>2, <2>1
<1>4. /\ (CHOOSE i \in DOMAIN formals : formals[i] = "ciphertext") = 1
      /\ (CHOOSE i \in DOMAIN formals : formals[i] = "tag") = 2
      /\ (CHOOSE i \in DOMAIN formals : formals[i] = "key") = 3
      /\ (CHOOSE i \in DOMAIN formals : formals[i] = "iv") = 4
    BY <1>2
<1>5. /\ Bound(args).ciphertext = p.ciphertext /\ Bound(args).tag = p.tag
      /\ Bound(args).key = PRE_SHARED_KEY /\ Bound(args).iv = p.iv
    BY <1>1, <1>3, <1>4 DEF Bound
<1>6. PRE_SHARED_KEY.len = 32
    BY DEF PRE_SHARED_KEY, Bytes
<1> QED BY <1>5, <1>6 DEF Opened, decrypt_aes_gcm, TextOf

\* With the defined order the key, 32 bytes long, is taken for the IV: no packet
\* opens.
LEMMA OpenedDefined ==
    ASSUME DecryptOrder = "defined", NEW p
    PROVE  ~Opened(p).ok
<1> DEFINE args == <<p.ciphertext, p.tag, PRE_SHARED_KEY, p.iv>>
           formals == <<"ciphertext", "key", "iv", "tag">>
<1>1. Formals[DecryptOrder] = formals
    BY DEF Formals
<1>2. DOMAIN formals = 1 .. 4
    OBVIOUS
<1>3. "iv" \in {formals[i] : i \in DOMAIN formals}
  <2>1. 3 \in DOMAIN formals /\ formals[3] = "iv"
      BY <1>2
  <2> QED BY <2>1
<1>4. (CHOOSE i \in DOMAIN formals : formals[i] = "iv") = 3
    BY <1>2
<1>5. Bound(args).iv = PRE_SHARED_KEY
    BY <1>1, <1>3, <1>4 DEF Bound
<1>6. PRE_SHARED_KEY.len = 32
    BY DEF PRE_SHARED_KEY, Bytes
<1> QED BY <1>5, <1>6 DEF Opened, decrypt_aes_gcm

\* What opens was sealed under the pre-shared key.
LEMMA OpenedIsGenuine ==
    ASSUME NEW p \in Packets, p.envelope, Opened(p).ok
    PROVE  Genuine(p) /\ Opened(p).plaintext = TextOf(p)
<1>1. DecryptOrder = "declared"
    BY OpenedDefined, SecurityAssumption DEF Formals
<1>2. /\ p.iv.len = 12 /\ p.tag.len = 16
      /\ p.tag.val = TagOf(PRE_SHARED_KEY, p.iv, p.ciphertext)
      /\ Opened(p).plaintext = TextOf(p)
    BY <1>1, OpenedDeclared
<1> QED BY <1>2, PacketAssumption DEF Genuine

\* Only packets sealed under the pre-shared key get as far as the queue, the
\* database or a topic, with either parameter order and whatever else arrives.
THEOREM NodeTakesOnlyAuthentic == NodeSpec => []OnlyAuthentic
<1>1. NodeInv /\ SourceInv => OnlyAuthentic
  <2> SUFFICES ASSUME NodeInv, SourceInv,
                      NEW id \in IdsOf(telemetry_queue_) \cup IdsOf(inserts) \cup IdsOf(published)
               PROVE  Genuine(received[id])
      BY DEF OnlyAuthentic
  <2>1. id \in IdsOf(telemetry_queue_) \cup IdsOf(inserts)
      BY DEF NodeInv, OrderInv
  <2>2. PICK d : d \in Parsed(received[id])
      BY <2>1 DEF SourceInv, QueueSource, RowSource, IdsOf
  <2>3. received[id] \in Packets
    <3>1. id \in DOMAIN received
        BY <2>1 DEF NodeInv, IdsInv, SeqInv
    <3> QED BY <3>1 DEF NodeInv, SeqInv
  <2> QED BY <2>2, <2>3, ParsedIsOpened, OpenedIsGenuine
<1> QED BY <1>1, NodeInvariant, SourceInvariant, PTL

\* Built as the source file defines decrypt_aes_gcm, the node accepts nothing: no
\* packet is ever queued, stored or published.
THEOREM NodeAsBuiltTakesNothing ==
    ASSUME DecryptOrder = "defined"
    PROVE  NodeSpec => [](/\ telemetry_queue_ = <<>> /\ inserts = <<>> /\ published = <<>>
                          /\ \A id \in DOMAIN verdict : verdict[id] # "true")
<1> DEFINE Nothing == /\ telemetry_queue_ = <<>> /\ inserts = <<>> /\ published = <<>>
                      /\ \A id \in DOMAIN verdict : verdict[id] # "true"
<1>1. NodeInv /\ VerdictInv /\ SourceInv => Nothing
  <2> SUFFICES ASSUME NodeInv, VerdictInv, SourceInv PROVE Nothing
      OBVIOUS
  <2>1. \A p : Parsed(p) = {}
      BY OpenedDefined, ParsedIsOpened
  <2>2. telemetry_queue_ = <<>> /\ inserts = <<>> /\ published = <<>>
    <3>1. DOMAIN telemetry_queue_ = {} /\ DOMAIN inserts = {} /\ DOMAIN published = {}
        BY <2>1 DEF SourceInv, QueueSource, RowSource, TopicSource
    <3> QED BY <3>1, EmptySeq, LenProperties DEF NodeInv, SeqInv
  <2>3. ASSUME NEW id \in DOMAIN verdict PROVE verdict[id] # "true"
    <3>1. PICK outcome \in Outcomes(received[id]) : verdict[id] = Verdict[outcome.status]
        BY DEF VerdictInv
    <3>2. outcome.status # "SUCCESS"
        BY <2>1 DEF Parsed
    <3> QED BY <3>1, <3>2, OutcomeStatus
  <2> QED BY <2>2, <2>3
<1> QED BY <1>1, NodeInvariant, SourceInvariant, PTL
-----------------------------------------------------------------------------
(* Numbers *)

\* A multiple of One is what it was divided into.
LEMMA WholeNumber ==
    ASSUME NEW x \in Int, x % One = 0
    PROVE  x \div One \in Int /\ x = (x \div One) * One
<1>1. One \in Nat \ {0}
    BY RecordAssumption
<1> QED BY <1>1

\* Remainders of numbers less than one divisor away from zero.
LEMMA SmallRemainder ==
    ASSUME NEW m \in Nat \ {0}, NEW n \in Int, -m <= n, n < m
    PROVE  n % m = IF n < 0 THEN n + m ELSE n
OBVIOUS

\* An integer that a signed column can hold goes through uint64_t and back.
LEMMA IntegerKept ==
    ASSUME NEW x \in Int, x % One = 0, x \div One \in -Half .. Half - 1,
           NEW u \in get_uint64(x)
    PROVE  Int64(u) * One = x
<1> DEFINE n == x \div One
<1>1. Half \in Nat \ {0}
    BY FormatAssumption
<1>2. n \in Int /\ x = n * One /\ -Half <= n /\ n < Half
    BY <1>1, WholeNumber
<1>3. u = n % (2 * Half)
  <2>1. n \in -Half .. Max64
      BY <1>1, <1>2 DEF Max64
  <2> QED BY <2>1 DEF get_uint64
<1> HIDE DEF n
<1>4. u = IF n < 0 THEN n + 2 * Half ELSE n
  <2>1. 2 * Half \in Nat \ {0} /\ -(2 * Half) <= n /\ n < 2 * Half
      BY <1>1, <1>2
  <2> HIDE DEF Half
  <2> QED BY <1>2, <1>3, <2>1, SmallRemainder
<1>5. Int64(u) = n
    BY <1>1, <1>2, <1>4 DEF Int64
<1> QED BY <1>2, <1>5

\* Integers that fit the column arrive in it unchanged and integers that fit a
\* double arrive in payload_json unchanged, for every word and mantissa.
THEOREM NodeKeepsNumbers == NodeSpec => []RowKeepsNumbers
<1>1. NodeInv /\ SourceInv => RowKeepsNumbers
  <2> SUFFICES ASSUME NodeInv, SourceInv, NEW i \in DOMAIN inserts
               PROVE  LET text == TextOf(received[inserts[i].id])
                          member == text.member
                          row == inserts[i].row
                          Integral(key, range) == /\ member[key][2] % One = 0
                                                  /\ member[key][2] \div One \in range
                      IN /\ \A key \in {"sequence_id", "timestamp_ns"} :
                               contains(text, key) /\ Integral(key, -Half .. Half - 1)
                               => row[key] * One = member[key][2]
                         /\ \A key \in DOMAIN row.payload_json :
                               Integral(key, -2 ^ Mantissa .. 2 ^ Mantissa)
                               => row.payload_json[key] = to_string(member[key][2])
      BY DEF RowKeepsNumbers
  <2> DEFINE p == received[inserts[i].id]
             text == TextOf(p)
  <2>1. PICK d \in Parsed(p) : inserts[i].row = RowOf(d)
      BY DEF SourceInv, RowSource
  <2>2. p \in Packets
    <3>1. inserts[i].id \in DOMAIN verdict
        BY DEF NodeInv, IdsInv, IdsOf
    <3>2. inserts[i].id \in DOMAIN received
        BY <3>1 DEF NodeInv, SeqInv
    <3> QED BY <3>2 DEF NodeInv, SeqInv
  <2>3. ~TypeError(text) /\ d \in TelemetryDataOf(text)
      BY <2>2, ParsedIsOpened, OpenedIsGenuine
  <2>4. PICK sequence_id \in Identifier(text, "sequence_id", 0),
             timestamp_ns \in Identifier(text, "timestamp_ns", Now) :
          d = [robot_id |-> IdKey(text), sensor_type |-> SensorType(text),
               sequence_id |-> sequence_id, timestamp_ns |-> timestamp_ns,
               payload_values |-> PayloadValues(text)]
      BY <2>3 DEF TelemetryDataOf
  <2>5. \A key \in DOMAIN text.member : Kind(text, key) = "number" => text.member[key][2] \in Int
      BY <2>2, PacketAssumption
  <2>6. ASSUME NEW key \in {"sequence_id", "timestamp_ns"}, contains(text, key),
               text.member[key][2] % One = 0, text.member[key][2] \div One \in -Half .. Half - 1
        PROVE  inserts[i].row[key] * One = text.member[key][2]
    <3>1. text.member[key][2] \in Int
        BY <2>3, <2>5, <2>6 DEF TypeError, contains
    <3>2. CASE key = "sequence_id"
      <4>1. sequence_id \in get_uint64(text.member[key][2])
          BY <2>6, <3>2 DEF Identifier, contains
      <4>2. inserts[i].row[key] = Int64(sequence_id)
          BY <2>1, <2>4, <3>2 DEF RowOf
      <4> QED BY <2>6, <3>1, <4>1, <4>2, IntegerKept
    <3>3. CASE key = "timestamp_ns"
      <4>1. timestamp_ns \in get_uint64(text.member[key][2])
          BY <2>6, <3>3 DEF Identifier, contains
      <4>2. inserts[i].row[key] = Int64(timestamp_ns)
          BY <2>1, <2>4, <3>3 DEF RowOf
      <4> QED BY <2>6, <3>1, <4>1, <4>2, IntegerKept
    <3> QED BY <3>2, <3>3
  <2>7. ASSUME NEW key \in DOMAIN inserts[i].row.payload_json, text.member[key][2] % One = 0,
               text.member[key][2] \div One \in -2 ^ Mantissa .. 2 ^ Mantissa
        PROVE  inserts[i].row.payload_json[key] = to_string(text.member[key][2])
    <3> DEFINE x == text.member[key][2]
    <3>1. inserts[i].row.payload_json =
              [k \in DOMAIN d.payload_values |-> to_string(d.payload_values[k])]
        BY <2>1 DEF RowOf
    <3>2. d.payload_values = PayloadValues(text)
        BY <2>4
    <3>3. /\ key \in DOMAIN text.member /\ Kind(text, key) = "number"
          /\ inserts[i].row.payload_json[key] = to_string(double(x))
        BY <2>7, <3>1, <3>2 DEF PayloadValues
    <3>4. x = (x \div One) * One
        BY <2>5, <2>7, <3>3, WholeNumber
    <3>5. double(x) = x
        BY <2>7, <3>4, FormatAssumption
    <3> QED BY <3>3, <3>5
  <2> QED BY <2>6, <2>7
<1> QED BY <1>1, NodeInvariant, SourceInvariant, PTL
-----------------------------------------------------------------------------
(* What is published is stored *)

\* No SQLite call fails on the way of init() and insert_telemetry.
NoInsertFault == Faults \cap {"open", "schema", "prepare", "step", "step_rollback"} = {}

\* The engine stays open from the constructor's init to the destructor's close,
\* so that the worker's insertions pass call_once and ReadyCheck.
OpenInv ==
    /\ nodePc = "construct" => init_flag_ = "new"
    /\ nodePc = "initializing" =>
           /\ pc[Executor] \in {"idle", "once", "ready_check"} \cup Initializing
           /\ pc[Executor] # "idle" => op[Executor] = "init"
           /\ pc[Executor] = "once" => init_flag_ = "new"
           /\ pc[Executor] \in {"init_done", "ready_check", "idle"} => is_initialized_
           /\ pc[Executor] \in {"ready_check", "idle"} => init_flag_ = "done"
    /\ nodePc \in {"spin", "callback", "join"} => is_initialized_ /\ init_flag_ = "done"
    /\ workerPc = "inserting" =>
           /\ pc[Worker] \in {"idle", "once", "ready_check", "lock", "insert"}
           /\ pc[Worker] # "idle" => op[Worker] = "insert"

\* Every insertion but the one that runs was acknowledged.
AnswerInv == \A i \in DOMAIN inserts :
    \/ inserts[i].call \in acked
    \/ /\ i = Len(inserts) /\ workerPc = "inserting"
       /\ pc[Worker] # "idle" /\ cur[Worker] = inserts[i].call

\* The constructor's init opens the engine.
LEMMA InitOpens ==
    ASSUME NoInsertFault, EngineInv, OpenInv, nodePc = "initializing", Engine(Executor),
           UNCHANGED nodeVars
    PROVE  OpenInv'
<1>0. /\ pc \in [Threads -> Labels] /\ Executor \in Threads /\ Worker \in Threads
      /\ Executor # Worker /\ pc[Executor] # "idle" /\ UNCHANGED <<op, nodePc, workerPc>>
      /\ workerPc = "none"
    BY NodeAssumption, OwnCallOnly DEF EngineInv, RowsInv, TypeOK, caller, nodeVars, StageInv
<1>1. pc[Executor] \in {"once", "ready_check"} \cup Initializing /\ op[Executor] = "init"
    BY <1>0 DEF OpenInv
<1>2. ASSUME NEW label \in {"idle", "once", "ready_check"} \cup Initializing,
             pc' = [pc EXCEPT ![Executor] = label],
             label = "once" => init_flag_' = "new",
             label \in {"init_done", "ready_check", "idle"} => is_initialized_',
             label \in {"ready_check", "idle"} => init_flag_' = "done"
      PROVE  OpenInv'
  <2>1. pc'[Executor] = label
      BY <1>0, <1>2
  <2> QED BY <1>0, <1>1, <1>2, <2>1 DEF OpenInv
<1> USE DEF Goto, object, Initializing
<1>3. CASE OnceEnter(Executor) \/ InitLock(Executor) \/ InitDone(Executor)
    BY <1>0, <1>2, <1>3 DEF OnceEnter, InitLock, InitDone, OpenInv
<1>4. CASE OncePass(Executor)
    BY <1>0, <1>4 DEF OncePass, OpenInv
<1>5. CASE InitOpen(Executor) \/ InitSchema(Executor) \/ InitPrepare(Executor)
    BY <1>0, <1>2, <1>5 DEF InitOpen, InitSchema, InitPrepare, NoInsertFault
<1>6. CASE ReadyCheck(Executor)
    BY <1>0, <1>1, <1>2, <1>6 DEF ReadyCheck, Return, OpenInv
<1>7. CASE Lock(Executor) \/ CloseLock(Executor) \/ InsertStep(Executor) \/ BatchBegin(Executor)
    BY <1>1, <1>7 DEF Lock, CloseLock, InsertStep, BatchBegin
<1>8. CASE BatchStep(Executor) \/ BatchCommit(Executor) \/ BatchRollback(Executor)
    BY <1>1, <1>8 DEF BatchStep, BatchCommit, BatchRollback
<1>9. CASE QueryBody(Executor) \/ PurgeBody(Executor) \/ CloseBody(Executor)
    BY <1>1, <1>9 DEF QueryBody, PurgeBody, CloseBody
<1> QED BY <1>3, <1>4, <1>5, <1>6, <1>7, <1>8, <1>9 DEF Engine, Locking, Running

\* The worker's insertion goes straight to the statement and returns true.
LEMMA InsertAnswersTrue ==
    ASSUME NoInsertFault, EngineInv, OpenInv, Engine(Worker), UNCHANGED nodeVars
    PROVE  /\ OpenInv'
           /\ cur' = cur /\ acked \subseteq acked'
           /\ pc'[Worker] = "idle" => cur[Worker] \in acked'
<1>0. /\ pc \in [Threads -> Labels] /\ Executor \in Threads /\ Worker \in Threads
      /\ Executor # Worker /\ pc[Worker] # "idle" /\ UNCHANGED <<op, cur, nodePc, workerPc>>
    BY NodeAssumption, OwnCallOnly DEF EngineInv, RowsInv, TypeOK, caller, nodeVars
<1>1. /\ workerPc = "inserting" /\ nodePc \in {"spin", "callback", "join"}
      /\ pc[Worker] \in {"once", "ready_check", "lock", "insert"} /\ op[Worker] = "insert"
      /\ is_initialized_ /\ init_flag_ = "done"
    BY <1>0 DEF EngineInv, StageInv, OpenInv
<1>2. ASSUME NEW label \in {"idle", "once", "ready_check", "lock", "insert"},
             pc' = [pc EXCEPT ![Worker] = label], UNCHANGED <<is_initialized_, init_flag_>>
      PROVE  OpenInv' /\ pc'[Worker] = label
  <2>1. pc'[Worker] = label /\ pc'[Executor] = pc[Executor]
      BY <1>0, <1>2
  <2> QED BY <1>0, <1>1, <1>2, <2>1 DEF OpenInv
<1> USE DEF Goto, object, NoReturn, history
<1>3. CASE OncePass(Worker) \/ Lock(Worker)
    BY <1>0, <1>1, <1>2, <1>3 DEF OncePass, Lock
<1>4. CASE ReadyCheck(Worker)
    BY <1>0, <1>1, <1>2, <1>4 DEF ReadyCheck
<1>5. CASE InsertStep(Worker)
    BY <1>0, <1>1, <1>2, <1>5 DEF InsertStep, NoInsertFault, UnlockAndReturn, Return, Inserting
<1>6. CASE OnceEnter(Worker) \/ InitLock(Worker) \/ InitDone(Worker) \/ CloseLock(Worker)
    BY <1>1, <1>6 DEF OnceEnter, InitLock, InitDone, CloseLock
<1>7. CASE InitOpen(Worker) \/ InitSchema(Worker) \/ InitPrepare(Worker)
    BY <1>1, <1>7 DEF InitOpen, InitSchema, InitPrepare
<1>8. CASE BatchBegin(Worker) \/ BatchStep(Worker) \/ BatchCommit(Worker) \/ BatchRollback(Worker)
    BY <1>1, <1>8 DEF BatchBegin, BatchStep, BatchCommit, BatchRollback
<1>9. CASE QueryBody(Worker) \/ PurgeBody(Worker) \/ CloseBody(Worker)
    BY <1>1, <1>9 DEF QueryBody, PurgeBody, CloseBody
<1> QED BY <1>3, <1>4, <1>5, <1>6, <1>7, <1>8, <1>9 DEF Engine, Locking, Running

\* The engine is open while the worker runs, and answers it true.
LEMMA AnswerStep ==
    ASSUME NoInsertFault
    PROVE  NodeInv /\ OpenInv /\ AnswerInv /\ [NodeNext]_allVars => OpenInv' /\ AnswerInv'
<1> SUFFICES ASSUME NodeInv, OpenInv, AnswerInv, [NodeNext]_allVars
             PROVE  OpenInv' /\ AnswerInv'
    OBVIOUS
<1>0. /\ pc \in [Threads -> Labels] /\ op \in [Threads -> AllOps \cup {"none"}]
      /\ cur \in [Threads -> Nat]
      /\ Executor \in Threads /\ Worker \in Threads /\ Executor # Worker
      /\ EngineInv /\ StageInv /\ RowsInv
    BY NodeAssumption DEF NodeInv, EngineInv, RowsInv, TypeOK
<1> USE DEF trace, arrivals, departures
<1>1. ASSUME UNCHANGED <<inserts, acked>>, UNCHANGED <<pc[Worker], cur[Worker]>>,
             workerPc = "inserting" => workerPc' = "inserting" \/ pc[Worker] = "idle"
      PROVE  AnswerInv'
    BY <1>1 DEF AnswerInv
<1>2. CASE CtorInit
    BY <1>0, <1>1, <1>2 DEF CtorInit, Call, Goto, object, history, OpenInv, StageInv
<1>3. CASE CtorStart
    BY <1>0, <1>1, <1>3 DEF CtorStart, vars, object, caller, history, OpenInv, StageInv
<1>4. CASE RclcppShutdown \/ DtorStop \/ Process \/ \E p \in Packets : Take(p)
    BY <1>0, <1>1, <1>4 DEF RclcppShutdown, DtorStop, Process, Take, vars, object, caller, history,
          OpenInv
<1>5. CASE WorkerCheck \/ WorkerPop \/ WorkerSleep \/ WorkerPublish
    BY <1>0, <1>1, <1>5 DEF WorkerCheck, WorkerPop, WorkerSleep, WorkerPublish, vars, object,
          caller, history, OpenInv
<1>6. CASE WorkerInsert
  <2>1. /\ pc' = [pc EXCEPT ![Worker] = "once"] /\ op' = [op EXCEPT ![Worker] = "insert"]
        /\ cur' = [cur EXCEPT ![Worker] = Len(calls) + 1] /\ workerPc' = "inserting"
        /\ workerPc = "insert"
        /\ UNCHANGED <<is_initialized_, init_flag_, acked, nodePc>>
        /\ inserts' = Append(inserts, [id |-> data[1].id, call |-> Len(calls) + 1,
                                        row |-> RowOf(data[1].data)])
      BY <1>6 DEF WorkerInsert, Call, Goto, object, history
  <2>2. OpenInv'
      BY <1>0, <2>1 DEF OpenInv
  <2>3. inserts' \in Seq(Insertion) /\ inserts \in Seq(Insertion)
      BY <1>0, SeqStep DEF NodeInv, SeqInv
  <2>4. /\ DOMAIN inserts' = 1 .. Len(inserts) + 1 /\ Len(inserts') = Len(inserts) + 1
        /\ inserts'[Len(inserts) + 1].call = Len(calls) + 1
        /\ \A i \in 1 .. Len(inserts) : inserts'[i] = inserts[i]
        /\ DOMAIN inserts = 1 .. Len(inserts) /\ Len(inserts) \in Nat
      BY <2>1, <2>3
  <2>5. \A i \in 1 .. Len(inserts) : inserts[i].call \in acked
      BY <2>1, <2>4 DEF AnswerInv
  <2>6. pc'[Worker] = "once" /\ cur'[Worker] = Len(calls) + 1
      BY <1>0, <2>1
  <2> QED BY <2>1, <2>2, <2>4, <2>5, <2>6 DEF AnswerInv
<1>7. CASE CtorThrows \/ DtorJoin \/ DtorMembers
    BY <1>0, <1>1, <1>7 DEF CtorThrows, DtorJoin, DtorMembers, Call, Goto, vars, caller, history,
          OpenInv, StageInv
<1>8. ASSUME NEW t \in Threads, EngineStep(t)
      PROVE  OpenInv' /\ AnswerInv'
  <2>0. Engine(t) /\ UNCHANGED nodeVars /\ UNCHANGED <<inserts, workerPc, nodePc>>
      BY <1>8 DEF EngineStep, nodeVars
  <2>1. CASE t = Worker
    <3>1. /\ OpenInv' /\ cur' = cur /\ acked \subseteq acked'
          /\ pc'[Worker] = "idle" => cur[Worker] \in acked'
        BY <1>0, <2>0, <2>1, InsertAnswersTrue
    <3> QED BY <2>0, <3>1 DEF AnswerInv
  <2>2. CASE t = Executor
    <3>1. pc[Executor] # "idle" /\ cur' = cur /\ acked \subseteq acked'
        BY <1>0, <2>0, <2>2, OwnCallOnly DEF RowsInv, caller, Return, GoesOn, history
    <3>2. pc'[Worker] = pc[Worker]
        BY <1>0, <2>0, <2>2, OnlyCallersClose DEF RowsInv
    <3>3. CASE nodePc = "initializing"
      <4>1. OpenInv'
          BY <1>0, <2>0, <2>2, <3>3, InitOpens
      <4> QED BY <2>0, <3>1, <3>2, <4>1 DEF AnswerInv
    <3>4. CASE nodePc \in {"closing", "gone"}
      <4>1. OpenInv'
          BY <1>0, <2>0, <3>4 DEF OpenInv, StageInv
      <4> QED BY <2>0, <3>1, <3>2, <4>1 DEF AnswerInv
    <3> QED BY <1>0, <3>1, <3>3, <3>4 DEF StageInv
  <2> QED BY <2>1, <2>2, NodeAssumption
<1>9. CASE UNCHANGED allVars
    BY <1>1, <1>9 DEF allVars, nodeVars, vars, object, caller, history, OpenInv
<1> QED BY <1>2, <1>3, <1>4, <1>5, <1>6, <1>7, <1>8, <1>9 DEF NodeNext, ExecutorStep, WorkerStep

\* Message and stored row of one record of the packet they are named by.
StoredRecords == \A m \in DOMAIN published : \E i \in DOMAIN inserts :
    \E d \in Parsed(received[inserts[i].id]) :
       /\ RowsOf(inserts[i].call) \subseteq committed
       /\ d.sensor_type \in DOMAIN Topics
       /\ inserts[i].row = RowOf(d) /\ published[m] = Message(inserts[i].id, d)

\* Unless SQLite fails, what is on a topic is in the database, made of the same
\* record, wherever the shutdown catches the worker.
THEOREM PublishedRecordIsStored ==
    ASSUME NoInsertFault
    PROVE  NodeSpec => []StoredRecords
<1>1. NodeInit => OpenInv /\ AnswerInv
    BY DEF NodeInit, Init, OpenInv, AnswerInv
<1>2. NodeInv /\ AnswerInv /\ SourceInv => StoredRecords
  <2> SUFFICES ASSUME NodeInv, AnswerInv, SourceInv, NEW m \in DOMAIN published
               PROVE  \E i \in DOMAIN inserts : \E d \in Parsed(received[inserts[i].id]) :
                         /\ RowsOf(inserts[i].call) \subseteq committed
                         /\ d.sensor_type \in DOMAIN Topics
                         /\ inserts[i].row = RowOf(d) /\ published[m] = Message(inserts[i].id, d)
      BY DEF StoredRecords
  <2>1. PICK i \in DOMAIN inserts : \E d \in Parsed(received[inserts[i].id]) :
            /\ d.sensor_type \in DOMAIN Topics
            /\ inserts[i].row = RowOf(d) /\ published[m] = Message(inserts[i].id, d)
      BY DEF SourceInv, TopicSource
  <2>2. published[m].id = inserts[i].id
      BY <2>1 DEF Message
  <2>3. inserts[i].call \in acked
    <3> SUFFICES ASSUME inserts[i].call \notin acked PROVE FALSE
        OBVIOUS
    <3>1. i = Len(inserts) /\ workerPc = "inserting"
        BY DEF AnswerInv
    <3>2. IdsOf(data) = {data[1].id} /\ data[1].id = inserts[i].id
        BY <3>1, IdsOne DEF NodeInv, SeqInv, SourceInv, LastInsertion
    <3>3. published[m].id < data[1].id
        BY <3>1, <3>2 DEF NodeInv, OrderInv, Before, IdsOf
    <3>4. inserts[i].id \in Nat
      <4>1. inserts[i] \in Insertion
          BY DEF NodeInv, SeqInv
      <4> QED BY <4>1 DEF Insertion
    <3> QED BY <2>2, <3>2, <3>3, <3>4
  <2>4. RowsOf(inserts[i].call) \subseteq committed
      BY <2>3, TxnIsDurable DEF NodeInv, EngineInv, AckedIsDurable
  <2> QED BY <2>1, <2>4
<1> QED BY <1>1, <1>2, AnswerStep, NodeInvariant, SourceInvariant, PTL DEF NodeSpec

\* Rounding moves a number by half the distance at most.
LEMMA RoundedClose ==
    ASSUME NEW x \in Int, NEW g \in Nat \ {0}
    PROVE  Rounded(x, g) \in Int /\ 2 * Abs(Rounded(x, g) - x) <= g
<1> DEFINE q == x \div g
           r == x % g
<1>1. q \in Int /\ r \in Int /\ 0 <= r /\ r < g /\ x = q * g + r
    OBVIOUS
<1>2. \/ Rounded(x, g) = q * g /\ 2 * r <= g
      \/ Rounded(x, g) = (q + 1) * g /\ 2 * r >= g
    BY <1>1 DEF Rounded
<1> HIDE DEF q, r
<1>3. q * g \in Int /\ (q + 1) * g = q * g + g
    BY <1>1
<1>4. \/ Rounded(x, g) - x = -r /\ 2 * r <= g
      \/ Rounded(x, g) - x = g - r /\ 2 * r >= g
    BY <1>1, <1>2, <1>3
<1>5. Rounded(x, g) \in Int
    BY <1>2, <1>3
<1> QED BY <1>1, <1>4, <1>5 DEF Abs

\* The message and the row of one record show the same reading: it is rounded once
\* to six decimals and at most once to a float.
LEMMA ReadingsAgree ==
    ASSUME \A x \in Int : SpacingFacts(x),
           NEW p \in Packets, NEW d \in Parsed(p), d.sensor_type \in DOMAIN Topics, NEW id
    PROVE  SameReading(Message(id, d), RowOf(d))
<1> DEFINE text == TextOf(p)
           values == d.payload_values
           key == Topics[d.sensor_type].key
           reading == IF key \in DOMAIN values THEN values[key] ELSE 0
           value == Message(id, d).value
           stored == IF key \in DOMAIN values THEN to_string(values[key]) ELSE 0
<1>1. d \in TelemetryDataOf(text)
    BY ParsedIsOpened, OpenedIsGenuine
<1>2. values = PayloadValues(text)
    BY <1>1 DEF TelemetryDataOf
<1>3. \A k \in DOMAIN values : values[k] \in Int
  <2> SUFFICES ASSUME NEW k \in DOMAIN values PROVE values[k] \in Int
      OBVIOUS
  <2>1. text.member[k][2] \in Int /\ values[k] = double(text.member[k][2])
      BY <1>2, PacketAssumption DEF PayloadValues
  <2>2. Spacing(text.member[k][2], Mantissa) \in Nat \ {0}
      BY <2>1 DEF SpacingFacts
  <2> QED BY <2>1, <2>2, RoundedClose DEF double
<1>4. reading \in Int
    BY <1>3
<1>5. value = single(reading) \/ value = reading
    BY DEF Message
<1> HIDE DEF reading, value
<1>6. /\ value \in Int /\ Spacing(value, SingleMantissa) \in Nat
      /\ 2 * Abs(value - reading) <= Spacing(value, SingleMantissa)
  <2>1. CASE value = reading
      BY <1>4, <2>1 DEF SpacingFacts, Abs
  <2>2. CASE value = single(reading)
    <3>1. /\ Spacing(reading, SingleMantissa) \in Nat \ {0}
          /\ Spacing(reading, SingleMantissa) <= Spacing(value, SingleMantissa)
        BY <1>4, <2>2 DEF SpacingFacts
    <3>2. value \in Int /\ 2 * Abs(value - reading) <= Spacing(reading, SingleMantissa)
        BY <1>4, <2>2, <3>1, RoundedClose DEF single
    <3>3. Spacing(value, SingleMantissa) \in Nat \ {0}
        BY <3>2 DEF SpacingFacts
    <3>4. Abs(value - reading) \in Int
        BY <1>4, <3>2 DEF Abs
    <3> QED BY <3>1, <3>2, <3>3, <3>4
  <2> QED BY <1>5, <2>1, <2>2
<1>7. stored \in Int /\ 2 * Abs(stored - reading) <= Micro
  <2>1. Micro \in Nat \ {0}
      BY RecordAssumption
  <2>2. CASE key \in DOMAIN values
    <3>1. values[key] \in Int
        BY <1>3, <2>2
    <3> QED BY <2>1, <2>2, <3>1, RoundedClose DEF to_string, reading
  <2>3. CASE key \notin DOMAIN values
      BY <2>1, <2>3 DEF Abs, reading
  <2> QED BY <2>2, <2>3
<1>8. 2 * Abs(value - stored) <= Micro + Spacing(value, SingleMantissa)
  <2>1. Micro \in Nat
      BY RecordAssumption
  <2> HIDE DEF stored
  <2> QED BY <1>4, <1>6, <1>7, <2>1 DEF Abs
<1>9. /\ RowOf(d).robot_id = d.robot_id /\ RowOf(d).sensor_type = d.sensor_type
      /\ RowOf(d).payload_json = [k \in DOMAIN values |-> to_string(values[k])]
    BY DEF RowOf
<1>10. Message(id, d).frame_id = d.robot_id
    BY DEF Message
<1> QED BY <1>8, <1>9, <1>10 DEF SameReading, value

\* Unless SQLite fails, what is on a topic is in the database with the same robot
\* and reading.  What the powers of two come to is taken as a hypothesis.
THEOREM NodePublishesStored ==
    ASSUME NoInsertFault, \A x \in Int : SpacingFacts(x)
    PROVE  NodeSpec => []PublishedIsStored
<1>1. NodeInv /\ StoredRecords => PublishedIsStored
  <2> SUFFICES ASSUME NodeInv, StoredRecords, NEW m \in DOMAIN published
               PROVE  \E i \in DOMAIN inserts :
                         /\ inserts[i].id = published[m].id
                         /\ RowsOf(inserts[i].call) \subseteq committed
                         /\ SameReading(published[m], inserts[i].row)
      BY DEF PublishedIsStored
  <2>1. PICK i \in DOMAIN inserts : \E d \in Parsed(received[inserts[i].id]) :
            /\ RowsOf(inserts[i].call) \subseteq committed
            /\ d.sensor_type \in DOMAIN Topics
            /\ inserts[i].row = RowOf(d) /\ published[m] = Message(inserts[i].id, d)
      BY DEF StoredRecords
  <2>2. PICK d \in Parsed(received[inserts[i].id]) :
            /\ d.sensor_type \in DOMAIN Topics
            /\ inserts[i].row = RowOf(d) /\ published[m] = Message(inserts[i].id, d)
      BY <2>1
  <2>3. received[inserts[i].id] \in Packets
    <3>1. inserts[i].id \in DOMAIN verdict
        BY DEF NodeInv, IdsInv, IdsOf
    <3> QED BY <3>1 DEF NodeInv, SeqInv
  <2>4. SameReading(published[m], inserts[i].row)
      BY <2>2, <2>3, ReadingsAgree
  <2>5. published[m].id = inserts[i].id
      BY <2>2 DEF Message
  <2> QED BY <2>1, <2>4, <2>5
<1> QED BY <1>1, NodeInvariant, PublishedRecordIsStored, PTL
-----------------------------------------------------------------------------
(* Failures are contained *)

\* Every insertion but the one that runs was answered.
AnsweredInv == \A i \in DOMAIN inserts :
    \/ inserts[i].call \in acked \cup nacked
    \/ /\ i = Len(inserts) /\ workerPc = "inserting"
       /\ pc[Worker] # "idle" /\ op[Worker] = "insert" /\ cur[Worker] = inserts[i].call

\* Every insertion but the last, while the worker is at it, has got to its topic,
\* if it has one and there was no shutdown.
SentInv == \A i \in DOMAIN inserts :
    \/ workerPc = "inserting" /\ i = Len(inserts)
    \/ inserts[i].row.sensor_type \notin DOMAIN Topics
    \/ inserts[i].id \in IdsOf(published)
    \/ ~ok

\* insert_telemetry returns true or false, from wherever it returns.
LEMMA InsertAnswers ==
    ASSUME TypeOK, OpInv, NEW t \in Threads, Engine(t), op[t] = "insert"
    PROVE  (\E result \in {"true", "false"} : Return(t, result)) \/ GoesOn(t)
<1>1. (\E result \in Results : Return(t, result)) \/ GoesOn(t)
    BY OwnCallOnly
<1>2. CASE ReadyCheck(t)
    BY <1>2 DEF ReadyCheck, NoReturn, GoesOn, Goto, Labels, Holding
<1>3. CASE InsertStep(t)
    BY <1>3 DEF InsertStep, UnlockAndReturn
<1>4. CASE QueryBody(t) \/ PurgeBody(t) \/ CloseBody(t) \/ CloseLock(t)
    BY <1>4 DEF QueryBody, PurgeBody, CloseBody, CloseLock, OpInv
<1>5. CASE BatchBegin(t) \/ BatchStep(t) \/ BatchCommit(t) \/ BatchRollback(t)
    BY <1>5 DEF BatchBegin, BatchStep, BatchCommit, BatchRollback, OpInv
<1>6. CASE OnceEnter(t) \/ OncePass(t) \/ InitLock(t) \/ InitDone(t) \/ Lock(t)
  <2>1. pc \in [Threads -> Labels]
      BY DEF TypeOK
  <2> QED BY <1>1, <1>6, <2>1 DEF OnceEnter, OncePass, InitLock, InitDone, Lock, OpInv, Return, Goto
<1>7. CASE InitOpen(t) \/ InitSchema(t) \/ InitPrepare(t)
  <2>1. pc \in [Threads -> Labels]
      BY DEF TypeOK
  <2> QED BY <1>1, <1>7, <2>1 DEF InitOpen, InitSchema, InitPrepare, InitFails, Return, Goto
<1> QED BY <1>2, <1>3, <1>4, <1>5, <1>6, <1>7 DEF Engine, Locking, Running

\* Nothing but its own return answers the worker's call, and it is never forgotten.
LEMMA AnsweredStep == NodeInv /\ AnsweredInv /\ [NodeNext]_allVars => AnsweredInv'
<1> SUFFICES ASSUME NodeInv, AnsweredInv, [NodeNext]_allVars
             PROVE  AnsweredInv'
    OBVIOUS
<1>0. /\ pc \in [Threads -> Labels] /\ op \in [Threads -> AllOps \cup {"none"}]
      /\ cur \in [Threads -> Nat]
      /\ Executor \in Threads /\ Worker \in Threads /\ Executor # Worker
      /\ StageInv /\ RowsInv /\ TypeOK /\ OpInv
    BY NodeAssumption DEF NodeInv, EngineInv, RowsInv, TypeOK
<1> USE DEF trace, arrivals, departures
<1>1. ASSUME UNCHANGED <<inserts, acked, nacked>>,
             UNCHANGED <<pc[Worker], op[Worker], cur[Worker]>>,
             workerPc = "inserting" => workerPc' = "inserting" \/ pc[Worker] = "idle"
      PROVE  AnsweredInv'
    BY <1>1 DEF AnsweredInv
<1>2. CASE CtorInit \/ CtorThrows \/ DtorJoin \/ DtorMembers
    BY <1>0, <1>1, <1>2 DEF CtorInit, CtorThrows, DtorJoin, DtorMembers, Call, Goto, vars, caller,
          history
<1>3. CASE CtorStart \/ RclcppShutdown \/ DtorStop \/ Process \/ \E p \in Packets : Take(p)
    BY <1>0, <1>1, <1>3 DEF CtorStart, RclcppShutdown, DtorStop, Process, Take, vars, caller,
          history, StageInv
<1>4. CASE WorkerCheck \/ WorkerPop \/ WorkerSleep \/ WorkerPublish
    BY <1>0, <1>1, <1>4 DEF WorkerCheck, WorkerPop, WorkerSleep, WorkerPublish, vars, caller,
          history
<1>5. CASE WorkerInsert
  <2>1. /\ pc' = [pc EXCEPT ![Worker] = "once"] /\ op' = [op EXCEPT ![Worker] = "insert"]
        /\ cur' = [cur EXCEPT ![Worker] = Len(calls) + 1]
        /\ workerPc = "insert" /\ workerPc' = "inserting" /\ UNCHANGED <<acked, nacked>>
        /\ inserts' = Append(inserts, [id |-> data[1].id, call |-> Len(calls) + 1,
                                        row |-> RowOf(data[1].data)])
      BY <1>5 DEF WorkerInsert, Call, Goto, history
  <2>2. inserts' \in Seq(Insertion) /\ inserts \in Seq(Insertion)
      BY <1>0, SeqStep DEF NodeInv, SeqInv
  <2>3. /\ DOMAIN inserts' = 1 .. Len(inserts) + 1 /\ Len(inserts') = Len(inserts) + 1
        /\ inserts'[Len(inserts) + 1].call = Len(calls) + 1
        /\ \A i \in 1 .. Len(inserts) : inserts'[i] = inserts[i]
        /\ DOMAIN inserts = 1 .. Len(inserts) /\ Len(inserts) \in Nat
      BY <2>1, <2>2
  <2>4. \A i \in 1 .. Len(inserts) : inserts[i].call \in acked \cup nacked
      BY <2>1, <2>3 DEF AnsweredInv
  <2>5. pc'[Worker] = "once" /\ op'[Worker] = "insert" /\ cur'[Worker] = Len(calls) + 1
      BY <1>0, <2>1
  <2> QED BY <2>1, <2>3, <2>4, <2>5 DEF AnsweredInv
<1>6. ASSUME NEW t \in Threads, EngineStep(t)
      PROVE  AnsweredInv'
  <2>0. Engine(t) /\ UNCHANGED <<inserts, workerPc>>
      BY <1>6 DEF EngineStep, nodeVars
  <2>1. /\ UNCHANGED <<op, cur>>
        /\ (\E result \in Results : Return(t, result)) \/ GoesOn(t)
      BY <1>0, <2>0, OwnCallOnly DEF caller
  <2>2. acked \subseteq acked' /\ nacked \subseteq nacked'
      BY <2>1 DEF Return, GoesOn, history
  <2>3. CASE t = Executor
    <3>1. pc'[Worker] = pc[Worker]
        BY <1>0, <2>0, <2>3, OnlyCallersClose
    <3> QED BY <2>0, <2>1, <2>2, <3>1 DEF AnsweredInv
  <2>4. CASE t = Worker
    <3>1. CASE op[Worker] = "insert"
      <4>1. pc'[Worker] # "idle" \/ cur[Worker] \in acked' \cup nacked'
        <5>1. (\E result \in {"true", "false"} : Return(Worker, result)) \/ GoesOn(Worker)
            BY <1>0, <2>0, <2>4, <3>1, InsertAnswers
        <5> QED BY <1>0, <3>1, <5>1 DEF Return, GoesOn, Inserting
      <4> QED BY <2>0, <2>1, <2>2, <4>1 DEF AnsweredInv
    <3>2. CASE op[Worker] # "insert"
        BY <2>0, <2>2, <3>2 DEF AnsweredInv
    <3> QED BY <3>1, <3>2
  <2> QED BY <2>3, <2>4, NodeAssumption
<1>7. CASE UNCHANGED allVars
    BY <1>1, <1>7 DEF allVars, nodeVars, vars, caller, history
<1> QED BY <1>2, <1>3, <1>4, <1>5, <1>6, <1>7 DEF NodeNext, ExecutorStep, WorkerStep

\* The record whose insertion has returned goes to its topic, whatever was returned.
LEMMA SentStep == NodeInv /\ SourceInv /\ SentInv /\ [NodeNext]_allVars => SentInv'
<1> SUFFICES ASSUME NodeInv, SourceInv, SentInv, [NodeNext]_allVars
             PROVE  SentInv'
    OBVIOUS
<1> USE DEF trace, arrivals, departures
<1>1. ASSUME UNCHANGED <<inserts, published>>, ok' => ok,
             workerPc = "inserting" => workerPc' = "inserting"
      PROVE  SentInv'
    BY <1>1 DEF SentInv, IdsOf
<1>2. CASE CtorInit \/ CtorThrows \/ DtorStop \/ DtorJoin \/ DtorMembers
    BY <1>1, <1>2 DEF CtorInit, CtorThrows, DtorStop, DtorJoin, DtorMembers
<1>3. CASE CtorStart \/ RclcppShutdown \/ Process \/ \E p \in Packets : Take(p)
    BY <1>1, <1>3 DEF CtorStart, RclcppShutdown, Process, Take, NodeInv, EngineInv, StageInv
<1>4. CASE WorkerCheck \/ WorkerPop \/ WorkerSleep
    BY <1>1, <1>4 DEF WorkerCheck, WorkerPop, WorkerSleep
<1>5. CASE WorkerInsert
  <2>1. /\ workerPc = "insert" /\ workerPc' = "inserting" /\ UNCHANGED <<ok, published>>
        /\ inserts' = Append(inserts, [id |-> data[1].id, call |-> Len(calls) + 1,
                                        row |-> RowOf(data[1].data)])
      BY <1>5 DEF WorkerInsert
  <2>2. inserts \in Seq(Insertion) /\ inserts' \in Seq(Insertion)
      BY SeqStep DEF NodeInv, EngineInv, SeqInv
  <2>3. /\ DOMAIN inserts' = 1 .. Len(inserts) + 1 /\ Len(inserts') = Len(inserts) + 1
        /\ \A i \in 1 .. Len(inserts) : inserts'[i] = inserts[i]
        /\ DOMAIN inserts = 1 .. Len(inserts) /\ Len(inserts) \in Nat
      BY <2>1, <2>2
  <2>4. UNCHANGED IdsOf(published)
      BY <2>1 DEF IdsOf
  <2> QED BY <2>1, <2>3, <2>4 DEF SentInv
<1>6. CASE WorkerPublish
  <2> DEFINE k == Len(inserts)
             d == data[1].data
  <2>1. workerPc = "inserting" /\ workerPc' = "check" /\ UNCHANGED <<ok, inserts>>
      BY <1>6 DEF WorkerPublish
  <2>2. data[1].id = inserts[k].id /\ inserts[k].row.sensor_type = d.sensor_type
      BY <2>1 DEF SourceInv, LastInsertion, RowOf
  <2>3. published \in Seq(Publication) /\ published' \in Seq(Publication)
      BY SeqStep DEF NodeInv, EngineInv, SeqInv
  <2>4. CASE d.sensor_type \in DOMAIN Topics /\ ok
    <3>1. published' = Append(published, Message(data[1].id, d))
        BY <1>6, <2>4 DEF WorkerPublish
    <3>2. Message(data[1].id, d) \in Publication /\ Message(data[1].id, d).id = data[1].id
      <4>1. data[1] \in Entry
          BY <2>1, IdsOne DEF NodeInv, SeqInv
      <4>2. data[1].id \in Nat /\ d \in AllParsed
          BY <4>1 DEF Entry
      <4>3. Message(data[1].id, d) \in Publication
          BY <2>4, <4>2 DEF Publication
      <4>4. Message(data[1].id, d).id = data[1].id
          BY DEF Message
      <4> QED BY <4>3, <4>4
    <3>3. IdsOf(published)' = IdsOf(published) \cup {inserts[k].id}
        BY <2>2, <2>3, <3>1, <3>2, IdsAppend
    <3> QED BY <2>1, <3>3 DEF SentInv
  <2>5. CASE ~(d.sensor_type \in DOMAIN Topics /\ ok)
    <3>1. published' = published
        BY <1>6, <2>5 DEF WorkerPublish
    <3>2. UNCHANGED IdsOf(published)
        BY <3>1 DEF IdsOf
    <3> QED BY <2>1, <2>2, <2>5, <3>2 DEF SentInv
  <2> QED BY <2>4, <2>5
<1>7. CASE (\E t \in Threads : EngineStep(t)) \/ UNCHANGED allVars
    BY <1>1, <1>7 DEF EngineStep, allVars, nodeVars
<1> QED BY <1>2, <1>3, <1>4, <1>5, <1>6, <1>7 DEF NodeNext, ExecutorStep, WorkerStep

\* A packet of which a record was made was answered true.
LEMMA ParsedIsAccepted ==
    ASSUME VerdictInv, NEW id \in DOMAIN verdict, Parsed(received[id]) # {}
    PROVE  verdict[id] = "true"
<1> DEFINE p == received[id]
<1>1. p.envelope /\ Opened(p).ok /\ Outcomes(p) = parse_and_validate(Opened(p).plaintext)
    BY ParsedIsOpened DEF Outcomes, check_rate_limit
<1>2. PICK good \in Outcomes(p) : good.status = "SUCCESS"
    BY DEF Parsed
<1>3. \A outcome \in Outcomes(p) : outcome.status = "SUCCESS"
    BY <1>1, <1>2 DEF parse_and_validate
<1>4. PICK outcome \in Outcomes(p) : verdict[id] = Verdict[outcome.status]
    BY DEF VerdictInv
<1> QED BY <1>3, <1>4 DEF Verdict

\* A failure goes no further than the call it happens in, whatever SQLite call
\* fails: what was refused or threw leaves nothing behind, and an insertion leaves
\* its row exactly when it was answered true and goes to its topic either way.
THEOREM NodeContainsFailures == NodeSpec => []FailuresAreContained
<1>1. NodeInit => AnsweredInv /\ SentInv
    BY DEF NodeInit, AnsweredInv, SentInv
<1>2. NodeInv /\ VerdictInv /\ SourceInv /\ AnsweredInv /\ SentInv => FailuresAreContained
  <2> SUFFICES ASSUME NodeInv, VerdictInv, SourceInv, AnsweredInv, SentInv
               PROVE  FailuresAreContained
      OBVIOUS
  <2>1. ASSUME NEW id \in IdsOf(telemetry_queue_) \cup IdsOf(data) \cup IdsOf(inserts)
                          \cup IdsOf(published)
        PROVE  verdict[id] = "true"
    <3>1. id \in IdsOf(telemetry_queue_) \cup IdsOf(data) \cup IdsOf(inserts)
        BY <2>1 DEF NodeInv, OrderInv
    <3>2. Parsed(received[id]) # {}
        BY <3>1 DEF SourceInv, QueueSource, HandSource, RowSource, IdsOf
    <3> QED BY <2>1, <3>2, ParsedIsAccepted DEF NodeInv, IdsInv
  <2>2. ASSUME NEW i \in DOMAIN inserts, ~(workerPc = "inserting" /\ i = Len(inserts))
        PROVE  \/ /\ inserts[i].call \in acked
                  /\ RowsOf(inserts[i].call) \subseteq committed
               \/ /\ inserts[i].call \in nacked
                  /\ RowsOf(inserts[i].call) \cap committed = {}
    <3>1. inserts[i].call \in acked \cup nacked
        BY <2>2 DEF AnsweredInv
    <3>2. AckedIsDurable /\ RefusedNeverStored
        BY TxnIsDurable, RefusedHasNoRow DEF NodeInv, EngineInv
    <3> QED BY <3>1, <3>2 DEF AckedIsDurable, RefusedNeverStored
  <2> QED BY <2>1, <2>2 DEF FailuresAreContained, SentInv
<1> QED BY <1>1, <1>2, AnsweredStep, SentStep, NodeInvariant, SourceInvariant, PTL DEF NodeSpec
=============================================================================
