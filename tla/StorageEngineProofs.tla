------------------------ MODULE StorageEngineProofs ------------------------
(***************************************************************************)
(* Proofs about storage::StorageEngine for every set of threads, every mix *)
(* of calls, every batch size, every number of crashes and every choice of *)
(* failing SQLite calls.                                                   *)
(***************************************************************************)
EXTENDS StorageEngine, SequenceTheorems, TLAPS

\* The places of init_internal, and those behind call_once.
Initializing == {"init_lock", "init_open", "init_schema", "init_prepare", "init_done"}
Initialized == {"ready_check", "lock", "insert", "begin", "batch_step", "rollback",
                "query", "purge"}

Rows(s) == {s[i] : i \in DOMAIN s}

\* db_mutex_ belongs to the thread that is inside a lock_guard's scope.
MutexInv == \A t \in Threads : pc[t] \in Holding <=> db_mutex_ = t

\* A thread is at a place of the operation it called.
OpInv == \A t \in Threads :
    /\ pc[t] \in {"once", "ready_check"} \cup Initializing => op[t] \in AllOps \ {"close"}
    /\ pc[t] = "lock" => op[t] \in {"insert", "batch", "query", "purge"}
    /\ pc[t] = "insert" => op[t] = "insert"
    /\ pc[t] \in {"begin", "batch_step", "rollback"} => op[t] = "batch"
    /\ pc[t] \in {"query", "purge", "close"} => op[t] = pc[t]
    /\ pc[t] = "close_lock" => op[t] = "close"

\* Each call has a number of its own, and has not been answered while it runs.
CallInv ==
    /\ acked \cup nacked \subseteq 1 .. Len(calls)
    /\ acked \cap nacked = {}
    /\ \A t \in Threads : pc[t] # "idle" =>
           /\ cur[t] \in 1 .. Len(calls)
           /\ cur[t] \notin acked \cup nacked
    /\ \A t, u \in Threads : pc[t] # "idle" /\ pc[u] # "idle" /\ t # u => cur[t] # cur[u]

\* An insertion still has its rows in hand, and a batch has the others in the
\* open transaction, where nobody else's rows are.
LeftInv ==
    /\ ~inTxn => pending = {}
    /\ \A t \in Threads :
         /\ pc[t] \notin {"idle", "batch_step", "rollback"} /\ op[t] \in Inserting =>
                Rows(left[t]) = RowsOf(cur[t])
         /\ pc[t] # "idle" /\ op[t] = "insert" => Len(left[t]) = 1
         /\ pc[t] = "batch_step" => inTxn /\ pending \cup Rows(left[t]) = RowsOf(cur[t])

\* Only rows of calls that answered true are in the file.
StoredInv == \A r \in committed : r[1] \in acked \ astray

RowsInv == /\ TypeOK /\ MutexInv /\ OpInv /\ CallInv /\ LeftInv
           /\ StoredInv /\ OnlyLeftOpenLoses

\* The flag and the handles, also while init_internal is at work on them.
Agree == /\ is_initialized_ <=> insert_stmt_ = "prepared"
         /\ is_initialized_ <=> db_ = "open"
HandleInv ==
    /\ (\A t \in Threads : pc[t] \notin {"init_schema", "init_prepare"}) => Agree
    /\ \A t \in Threads :
         /\ pc[t] = "init_open" => ~is_initialized_
         /\ pc[t] \in {"init_schema", "init_prepare"} =>
                ~is_initialized_ /\ insert_stmt_ = "null" /\ db_ = "open"

\* call_once: one thread initializes and nobody passes before it is done.
OnceInv ==
    /\ \A t \in Threads :
         /\ pc[t] \in Initializing => init_flag_ = "running"
         /\ pc[t] \in Initialized => init_flag_ = "done"
    /\ \A t, u \in Threads : pc[t] \in Initializing /\ pc[u] \in Initializing => t = u

\* Behind ReadyCheck the engine is still initialized, which close() breaks
\* unless it runs alone.
Behind == Initialized \ {"ready_check"}
ReadyInv == \A t \in Threads : pc[t] \in Behind => is_initialized_
ClosesAlone == \A t \in Threads :
    pc[t] = "close" => \A u \in Threads : pc[u] \notin Behind

\* Unless a COMMIT leaves it open, a transaction is open only inside a batch.
NoneLeftOpen == "commit_left_open" \notin Faults
TxnInv == /\ astray = {}
          /\ inTxn => \E t \in Threads : pc[t] \in {"batch_step", "rollback"}
NoBatch == \A t \in Threads : op[t] # "batch"

\* A step of the engine, of its callers, or the death of the process, for
\* whatever reason and as often as you like.
Step == ProcessDies \/ \E t \in Threads : Calling(t) \/ Engine(t)
-----------------------------------------------------------------------------
\* An empty vector has no rows.
LEMMA RowsOfEmpty == Rows(<<>>) = {}
BY DEF Rows

\* A vector's rows are its first row and the rows behind it.
LEMMA RowsHeadTail ==
    ASSUME NEW S, NEW s \in Seq(S), s # <<>>
    PROVE  Rows(s) = {Head(s)} \cup Rows(Tail(s))
<1>1. /\ DOMAIN s = 1 .. Len(s)
      /\ Len(s) \in Nat \ {0}
    BY LenProperties, EmptySeq
<1>2. /\ DOMAIN Tail(s) = 1 .. Len(s) - 1
      /\ \A i \in 1 .. Len(s) - 1 : Tail(s)[i] = s[i + 1]
    BY HeadTailProperties, LenProperties
<1>3. Head(s) = s[1]
    OBVIOUS
<1>4. ASSUME NEW r \in Rows(s) PROVE r \in {Head(s)} \cup Rows(Tail(s))
  <2>1. PICK i \in 1 .. Len(s) : r = s[i]
      BY <1>1, <1>4 DEF Rows
  <2>2. CASE i = 1
      BY <1>3, <2>1, <2>2
  <2>3. CASE i # 1
    <3>1. i - 1 \in 1 .. Len(s) - 1 /\ (i - 1) + 1 = i
        BY <1>1, <2>3
    <3> QED BY <1>2, <2>1, <3>1 DEF Rows
  <2> QED BY <2>2, <2>3
<1>5. ASSUME NEW r \in {Head(s)} \cup Rows(Tail(s)) PROVE r \in Rows(s)
  <2>1. CASE r = Head(s)
      BY <1>1, <1>3, <2>1 DEF Rows
  <2>2. CASE r \in Rows(Tail(s))
    <3>1. PICK i \in 1 .. Len(s) - 1 : r = s[i + 1]
        BY <1>2, <2>2 DEF Rows
    <3>2. i + 1 \in 1 .. Len(s)
        BY <1>1
    <3> QED BY <1>1, <3>1, <3>2 DEF Rows
  <2> QED BY <1>5, <2>1, <2>2
<1> QED BY <1>4, <1>5

\* A vector of length one has its first row and no other.
LEMMA RowsOfOne ==
    ASSUME NEW S, NEW s \in Seq(S), Len(s) = 1
    PROVE  s # <<>> /\ Rows(s) = {Head(s)}
<1>1. DOMAIN s = 1 .. 1
    BY LenProperties
<1>2. s # <<>>
    BY Len(<<>>) = 0
<1>3. Head(s) = s[1]
    BY <1>2
<1> QED BY <1>1, <1>2, <1>3 DEF Rows
-----------------------------------------------------------------------------
\* The first state of the process, and of the file, has its types.
LEMMA InitTypeOK == Init => TypeOK
<1> SUFFICES ASSUME Init PROVE TypeOK
    OBVIOUS
<1>1. calls \in Seq(Nat) /\ left \in [Threads -> Seq(Nat \X Nat)]
    BY EmptySeq DEF Init
<1>2. /\ pc \in [Threads -> Labels]
      /\ op \in [Threads -> AllOps \cup {"none"}]
      /\ ret \in [Threads -> {"none", "true", "false"}]
      /\ cur \in [Threads -> Nat]
    BY DEF Init, Labels
<1> QED BY <1>1, <1>2 DEF Init, TypeOK

\* A call returns with its types, whatever it answers.
LEMMA ReturnType ==
    ASSUME TypeOK, NEW t \in Threads, NEW result \in {"none", "true", "false"},
           Return(t, result)
    PROVE  /\ pc' \in [Threads -> Labels]
           /\ ret' \in [Threads -> {"none", "true", "false"}]
           /\ left' \in [Threads -> Seq(Nat \X Nat)]
           /\ acked' \subseteq Nat /\ nacked' \subseteq Nat /\ astray' \subseteq acked'
<1>1. cur[t] \in Nat
    BY DEF TypeOK
<1>2. pc' \in [Threads -> Labels] /\ ret' \in [Threads -> {"none", "true", "false"}]
    BY DEF TypeOK, Return, Goto, Labels
<1>3. left' \in [Threads -> Seq(Nat \X Nat)]
    BY EmptySeq DEF TypeOK, Return
<1>4. acked' \subseteq Nat /\ nacked' \subseteq Nat
    BY <1>1 DEF TypeOK, Return
<1>5. astray' \subseteq acked'
    BY DEF TypeOK, Return, Inserting
<1> QED BY <1>2, <1>3, <1>4, <1>5

\* A new call gets the next number and all its rows in hand.
LEMMA CallType ==
    ASSUME TypeOK, NEW t \in Threads, NEW o \in AllOps, NEW size \in Nat, Call(t, o, size)
    PROVE  TypeOK'
<1>1. calls' \in Seq(Nat) /\ Len(calls) + 1 \in Nat
    BY AppendProperties, LenProperties DEF TypeOK, Call
<1>2. [i \in 1 .. size |-> Row(Len(calls) + 1, i)] \in Seq(Nat \X Nat)
  <2> DEFINE e(i) == Row(Len(calls) + 1, i)
  <2>1. \A i \in 1 .. size : e(i) \in Nat \X Nat
      BY <1>1 DEF Row
  <2> HIDE DEF e
  <2>2. [i \in 1 .. size |-> e(i)] \in Seq(Nat \X Nat)
      BY <2>1, IsASeq
  <2> QED BY <2>2 DEF e
<1>3. left' \in [Threads -> Seq(Nat \X Nat)]
    BY <1>2 DEF TypeOK, Call
<1>4. /\ pc' \in [Threads -> Labels]
      /\ op' \in [Threads -> AllOps \cup {"none"}]
      /\ ret' \in [Threads -> {"none", "true", "false"}]
    BY DEF TypeOK, Call, Goto, Labels
<1>5. cur' \in [Threads -> Nat]
    BY <1>1 DEF TypeOK, Call
<1> QED BY <1>1, <1>3, <1>4, <1>5 DEF TypeOK, Call, object, sqlite, history

\* The process starts again with its types.
LEMMA DeathType == TypeOK /\ ProcessDies => TypeOK'
<1> SUFFICES ASSUME TypeOK, ProcessDies PROVE TypeOK'
    OBVIOUS
<1>1. left' \in [Threads -> Seq(Nat \X Nat)]
    BY EmptySeq DEF ProcessDies
<1>2. /\ pc' \in [Threads -> Labels]
      /\ op' \in [Threads -> AllOps \cup {"none"}]
      /\ ret' \in [Threads -> {"none", "true", "false"}]
      /\ cur' \in [Threads -> Nat]
    BY DEF ProcessDies, Labels
<1>3. /\ calls' = calls /\ committed' = committed
      /\ acked' = acked /\ nacked' = nacked /\ astray' = astray
      /\ pending' = {} /\ crashes' \in Nat
    BY DEF TypeOK, ProcessDies, history
<1>4. /\ db_' = "null" /\ insert_stmt_' = "null"
      /\ db_mutex_' = NoThread
      /\ init_flag_' = "new"
      /\ is_initialized_' = FALSE /\ init_failed_' = FALSE
      /\ inTxn' = FALSE
    BY DEF ProcessDies
<1> QED BY <1>1, <1>2, <1>3, <1>4 DEF TypeOK

\* No step takes a variable out of its type: an insertion finds its row, and
\* Lock goes to a place of the operation.
LEMMA TypeStep == TypeOK /\ OpInv /\ LeftInv /\ [Step]_vars => TypeOK'
<1> SUFFICES ASSUME TypeOK, OpInv, LeftInv, [Step]_vars
             PROVE  TypeOK'
    OBVIOUS
<1>1. CASE UNCHANGED vars
    BY <1>1 DEF vars, object, sqlite, caller, history, TypeOK
<1>2. CASE ProcessDies
    BY <1>2, DeathType
<1>3. ASSUME NEW t \in Threads, Calling(t)
      PROVE  TypeOK'
    BY <1>3, CallType, StorageAssumption DEF Calling, AllOps, Inserting
<1>4. ASSUME NEW t \in Threads, Engine(t)
      PROVE  TypeOK'
  <2> USE DEF object, sqlite, caller, history, NoReturn, Goto, Labels, Holding
  <2>1. CASE OnceEnter(t) \/ OncePass(t) \/ InitDone(t)
      BY <2>1 DEF OnceEnter, OncePass, InitDone, TypeOK
  <2>2. CASE InitLock(t) \/ CloseLock(t)
      BY <2>2 DEF InitLock, CloseLock, TypeOK
  <2>3. CASE Lock(t)
    <3>1. op[t] \in {"insert", "batch", "query", "purge"}
        BY <2>3 DEF Lock, OpInv
    <3> QED BY <2>3, <3>1 DEF Lock, TypeOK
  <2>4. CASE InitOpen(t) \/ InitSchema(t) \/ InitPrepare(t)
      BY <2>4 DEF InitOpen, InitSchema, InitPrepare, InitFails, close_internal, TypeOK
  <2>5. CASE ReadyCheck(t)
    <3>1. CASE Return(t, "true") \/ Return(t, "false")
        BY <2>5, <3>1, ReturnType DEF ReadyCheck, TypeOK
    <3>2. CASE pc' = [pc EXCEPT ![t] = "lock"] /\ NoReturn
        BY <2>5, <3>2 DEF ReadyCheck, TypeOK
    <3> QED BY <2>5, <3>1, <3>2 DEF ReadyCheck
  <2>6. CASE InsertStep(t)
    <3>1. Return(t, "true") \/ Return(t, "false")
        BY <2>6 DEF InsertStep, UnlockAndReturn
    <3>2. Head(left[t]) \in Nat \X Nat
      <4>1. left[t] \in Seq(Nat \X Nat) /\ Len(left[t]) = 1
          BY <2>6 DEF InsertStep, TypeOK, LeftInv, OpInv
      <4>2. left[t] # <<>>
          BY <4>1, RowsOfOne
      <4> QED BY <4>1, <4>2, HeadTailProperties
    <3>3. pending' \subseteq Nat \X Nat /\ committed' \subseteq Nat \X Nat /\ inTxn' \in BOOLEAN
        BY <2>6, <3>2 DEF InsertStep, TypeOK
    <3> QED BY <2>6, <3>1, <3>3, ReturnType DEF InsertStep, UnlockAndReturn, TypeOK
  <2>7. CASE BatchBegin(t)
    <3>1. CASE Return(t, "false")
        BY <2>7, <3>1, ReturnType DEF BatchBegin, UnlockAndReturn, TypeOK
    <3>2. CASE pc' = [pc EXCEPT ![t] = "batch_step"] /\ NoReturn
        BY <2>7, <3>2 DEF BatchBegin, UnlockAndReturn, TypeOK
    <3> QED BY <2>7, <3>1, <3>2 DEF BatchBegin, UnlockAndReturn
  <2>8. CASE BatchStep(t)
    <3>1. Head(left[t]) \in Nat \X Nat /\ Tail(left[t]) \in Seq(Nat \X Nat)
      <4>1. left[t] \in Seq(Nat \X Nat)
          BY DEF TypeOK
      <4> QED BY <2>8, <4>1, HeadTailProperties DEF BatchStep
    <3>2. left' \in [Threads -> Seq(Nat \X Nat)]
        BY <2>8, <3>1 DEF BatchStep, TypeOK
    <3>3. pending' \subseteq Nat \X Nat /\ inTxn' \in BOOLEAN /\ pc' \in [Threads -> Labels]
        BY <2>8, <3>1 DEF BatchStep, TypeOK
    <3> QED BY <2>8, <3>2, <3>3 DEF BatchStep, TypeOK
  <2>9. CASE BatchCommit(t)
    <3>1. Return(t, "true") \/ Return(t, "false")
        BY <2>9 DEF BatchCommit, UnlockAndReturn
    <3>2. pending' \subseteq Nat \X Nat /\ committed' \subseteq Nat \X Nat /\ inTxn' \in BOOLEAN
        BY <2>9 DEF BatchCommit, TypeOK
    <3>3. db_mutex_' = NoThread
        BY <2>9 DEF BatchCommit, UnlockAndReturn
    <3> QED BY <2>9, <3>1, <3>2, <3>3, ReturnType DEF BatchCommit, TypeOK
  <2>10. CASE BatchRollback(t)
      BY <2>10, ReturnType DEF BatchRollback, UnlockAndReturn, TypeOK
  <2>11. CASE QueryBody(t) \/ PurgeBody(t)
      BY <2>11, ReturnType DEF QueryBody, PurgeBody, UnlockAndReturn, TypeOK
  <2>12. CASE CloseBody(t)
      BY <2>12, ReturnType DEF CloseBody, close_internal, UnlockAndReturn, TypeOK
  <2> QED BY <1>4, <2>1, <2>2, <2>3, <2>4, <2>5, <2>6, <2>7, <2>8, <2>9, <2>10, <2>11, <2>12
          DEF Engine, Locking, Running
<1> QED BY <1>1, <1>2, <1>3, <1>4 DEF Step
-----------------------------------------------------------------------------
\* Every lock_guard's scope is left by giving up db_mutex_, on the early
\* returns of init_internal and of the insertions too.
LEMMA MutexStep == TypeOK /\ OpInv /\ MutexInv /\ [Step]_vars => MutexInv'
<1> SUFFICES ASSUME TypeOK, OpInv, MutexInv, [Step]_vars
             PROVE  MutexInv'
    OBVIOUS
<1>0. pc \in [Threads -> Labels] /\ NoThread \notin Threads
    BY StorageAssumption DEF TypeOK
<1> USE DEF MutexInv, Goto
<1>1. CASE UNCHANGED vars
    BY <1>1 DEF vars
<1>2. CASE ProcessDies
    BY <1>0, <1>2 DEF ProcessDies, Holding
<1>3. ASSUME NEW t \in Threads, Calling(t)
      PROVE  MutexInv'
    BY <1>0, <1>3 DEF Calling, Call, Holding
<1>4. ASSUME NEW t \in Threads, Locking(t)
      PROVE  MutexInv'
  <2>1. CASE InitLock(t) \/ CloseLock(t)
      BY <1>0, <2>1 DEF InitLock, CloseLock, Holding
  <2>2. CASE Lock(t)
      BY <1>0, <2>2 DEF Lock, OpInv, Holding
  <2> QED BY <1>4, <2>1, <2>2 DEF Locking
<1>5. ASSUME NEW t \in Threads, Running(t)
      PROVE  MutexInv'
  <2>1. CASE OnceEnter(t) \/ OncePass(t) \/ InitDone(t)
      BY <1>0, <2>1 DEF OnceEnter, OncePass, InitDone, Holding
  <2>2. CASE InitOpen(t) \/ InitSchema(t) \/ InitPrepare(t)
      BY <1>0, <2>2 DEF InitOpen, InitSchema, InitPrepare, InitFails, Holding
  <2>3. CASE ReadyCheck(t)
      BY <1>0, <2>3 DEF ReadyCheck, Return, Holding
  <2>4. CASE InsertStep(t)
      BY <1>0, <2>4 DEF InsertStep, UnlockAndReturn, Return, Holding
  <2>5. CASE BatchBegin(t) \/ BatchStep(t)
      BY <1>0, <2>5 DEF BatchBegin, BatchStep, UnlockAndReturn, Return, Holding
  <2>6. CASE BatchCommit(t) \/ BatchRollback(t)
      BY <1>0, <2>6 DEF BatchCommit, BatchRollback, UnlockAndReturn, Return, Holding
  <2>7. CASE QueryBody(t) \/ PurgeBody(t) \/ CloseBody(t)
      BY <1>0, <2>7 DEF QueryBody, PurgeBody, CloseBody, UnlockAndReturn, Return, Holding
  <2> QED BY <1>5, <2>1, <2>2, <2>3, <2>4, <2>5, <2>6, <2>7 DEF Running
<1> QED BY <1>1, <1>2, <1>3, <1>4, <1>5 DEF Step, Engine

\* A thread stays on the path of the operation it called.
LEMMA OpStep == TypeOK /\ OpInv /\ [Step]_vars => OpInv'
<1> SUFFICES ASSUME TypeOK, OpInv, [Step]_vars
             PROVE  OpInv'
    OBVIOUS
<1>0. pc \in [Threads -> Labels] /\ op \in [Threads -> AllOps \cup {"none"}]
    BY DEF TypeOK
<1> USE DEF OpInv, Goto, caller, Initializing
<1>1. CASE UNCHANGED vars
    BY <1>1 DEF vars
<1>2. CASE ProcessDies
    BY <1>0, <1>2 DEF ProcessDies
<1>3. ASSUME NEW t \in Threads, Calling(t)
      PROVE  OpInv'
    BY <1>0, <1>3 DEF Calling, Call, AllOps, Inserting
<1>4. ASSUME NEW t \in Threads, Locking(t)
      PROVE  OpInv'
    BY <1>0, <1>4 DEF Locking, InitLock, Lock, CloseLock
<1>5. ASSUME NEW t \in Threads, Running(t)
      PROVE  OpInv'
  <2>1. CASE OnceEnter(t) \/ OncePass(t) \/ InitDone(t)
      BY <1>0, <2>1 DEF OnceEnter, OncePass, InitDone
  <2>2. CASE InitOpen(t) \/ InitSchema(t) \/ InitPrepare(t)
      BY <1>0, <2>2 DEF InitOpen, InitSchema, InitPrepare, InitFails
  <2>3. CASE ReadyCheck(t)
      BY <1>0, <2>3 DEF ReadyCheck, Return, AllOps
  <2>4. CASE InsertStep(t)
      BY <1>0, <2>4 DEF InsertStep, UnlockAndReturn, Return
  <2>5. CASE BatchBegin(t) \/ BatchStep(t)
      BY <1>0, <2>5 DEF BatchBegin, BatchStep, UnlockAndReturn, Return
  <2>6. CASE BatchCommit(t) \/ BatchRollback(t)
      BY <1>0, <2>6 DEF BatchCommit, BatchRollback, UnlockAndReturn, Return
  <2>7. CASE QueryBody(t) \/ PurgeBody(t) \/ CloseBody(t)
      BY <1>0, <2>7 DEF QueryBody, PurgeBody, CloseBody, UnlockAndReturn, Return
  <2> QED BY <1>5, <2>1, <2>2, <2>3, <2>4, <2>5, <2>6, <2>7 DEF Running
<1> QED BY <1>1, <1>2, <1>3, <1>4, <1>5 DEF Step, Engine
-----------------------------------------------------------------------------
\* A step of a call either answers it or leaves it running.
Results == {"none", "true", "false"}
GoesOn(t) == /\ UNCHANGED history
             /\ \E label \in Labels \ {"idle"} : pc' = [pc EXCEPT ![t] = label]

\* Every step inside the engine is a step of a running call: it does not touch
\* the calls' numbers, and it answers at most the call that it belongs to.
LEMMA OwnCallOnly ==
    ASSUME TypeOK, OpInv, NEW t \in Threads, Engine(t)
    PROVE  /\ pc[t] # "idle" /\ UNCHANGED caller
           /\ (\E result \in Results : Return(t, result)) \/ GoesOn(t)
<1>0. pc \in [Threads -> Labels]
    BY DEF TypeOK
<1> USE DEF Goto, NoReturn, Labels, Holding, Results, GoesOn
<1>1. CASE OnceEnter(t) \/ OncePass(t) \/ InitDone(t) \/ InitLock(t) \/ CloseLock(t)
    BY <1>0, <1>1 DEF OnceEnter, OncePass, InitDone, InitLock, CloseLock
<1>2. CASE Lock(t)
    BY <1>0, <1>2 DEF Lock, OpInv
<1>3. CASE InitOpen(t) \/ InitSchema(t) \/ InitPrepare(t)
    BY <1>0, <1>3 DEF InitOpen, InitSchema, InitPrepare, InitFails
<1>4. CASE ReadyCheck(t)
    BY <1>0, <1>4 DEF ReadyCheck
<1>5. CASE InsertStep(t) \/ BatchBegin(t)
    BY <1>0, <1>5 DEF InsertStep, BatchBegin, UnlockAndReturn
<1>6. CASE BatchStep(t)
  <2>1. pc' = [pc EXCEPT ![t] = "batch_step"] \/ pc' = [pc EXCEPT ![t] = "rollback"]
      BY <1>0, <1>6 DEF BatchStep
  <2> QED BY <1>6, <2>1 DEF BatchStep
<1>7. CASE BatchCommit(t) \/ BatchRollback(t)
    BY <1>0, <1>7 DEF BatchCommit, BatchRollback, UnlockAndReturn
<1>8. CASE QueryBody(t) \/ PurgeBody(t) \/ CloseBody(t)
    BY <1>0, <1>8 DEF QueryBody, PurgeBody, CloseBody, UnlockAndReturn
<1> QED BY <1>1, <1>2, <1>3, <1>4, <1>5, <1>6, <1>7, <1>8 DEF Engine, Locking, Running

ClosePlaces == {"close_lock", "close"}

\* No step of the engine enters close() on its own, and none moves another thread.
LEMMA OnlyCallersClose ==
    ASSUME TypeOK, OpInv, NEW t \in Threads, Engine(t)
    PROVE  /\ \A u \in Threads \ {t} : pc'[u] = pc[u]
           /\ pc'[t] \in ClosePlaces => pc[t] \in ClosePlaces
<1>0. pc \in [Threads -> Labels]
    BY DEF TypeOK
<1>1. \A u \in Threads \ {t} : pc'[u] = pc[u]
    BY <1>0, OwnCallOnly DEF Return, GoesOn, Goto
<1> USE DEF Goto, ClosePlaces
<1>2. CASE Locking(t)
    BY <1>0, <1>1, <1>2 DEF Locking, InitLock, Lock, CloseLock, OpInv
<1>3. CASE OnceEnter(t) \/ OncePass(t) \/ InitDone(t) \/ ReadyCheck(t)
    BY <1>0, <1>1, <1>3 DEF OnceEnter, OncePass, InitDone, ReadyCheck, Return
<1>4. CASE InitOpen(t) \/ InitSchema(t) \/ InitPrepare(t)
    BY <1>0, <1>1, <1>4 DEF InitOpen, InitSchema, InitPrepare, InitFails
<1>5. CASE InsertStep(t) \/ BatchBegin(t) \/ BatchStep(t)
    BY <1>0, <1>1, <1>5 DEF InsertStep, BatchBegin, BatchStep, UnlockAndReturn, Return
<1>6. CASE BatchCommit(t) \/ BatchRollback(t) \/ QueryBody(t) \/ PurgeBody(t) \/ CloseBody(t)
    BY <1>0, <1>1, <1>6 DEF BatchCommit, BatchRollback, QueryBody, PurgeBody, CloseBody,
          UnlockAndReturn, Return
<1> QED BY <1>2, <1>3, <1>4, <1>5, <1>6 DEF Engine, Running

\* A new call's number is new, and an answered call runs no more.
LEMMA CallStep == TypeOK /\ OpInv /\ CallInv /\ [Step]_vars => CallInv'
<1> SUFFICES ASSUME TypeOK, OpInv, CallInv, [Step]_vars
             PROVE  CallInv'
    OBVIOUS
<1>0. /\ pc \in [Threads -> Labels] /\ cur \in [Threads -> Nat]
      /\ calls \in Seq(Nat) /\ Len(calls) \in Nat
    BY LenProperties DEF TypeOK
<1>1. CASE UNCHANGED vars
    BY <1>1 DEF vars, caller, history, CallInv
<1>2. CASE ProcessDies
    BY <1>2 DEF ProcessDies, history, CallInv
<1>3. ASSUME NEW t \in Threads, NEW o, NEW size \in Nat, Call(t, o, size)
      PROVE  CallInv'
  <2>1. Len(calls') = Len(calls) + 1
      BY <1>0, <1>3, AppendProperties DEF Call
  <2>2. cur' = [cur EXCEPT ![t] = Len(calls) + 1] /\ UNCHANGED <<acked, nacked>>
      BY <1>3 DEF Call, history
  <2>3. \A u \in Threads : u # t => pc'[u] = pc[u]
      BY <1>0, <1>3 DEF Call, Goto
  <2> QED BY <1>0, <2>1, <2>2, <2>3 DEF CallInv
<1>4. ASSUME NEW t \in Threads, Engine(t)
      PROVE  CallInv'
  <2>1. pc[t] # "idle" /\ UNCHANGED <<cur, calls>>
      BY <1>4, OwnCallOnly DEF caller
  <2>2. CASE GoesOn(t)
      BY <1>0, <2>1, <2>2 DEF GoesOn, history, CallInv
  <2>3. ASSUME NEW result, Return(t, result)
        PROVE  CallInv'
    <3>1. \A u \in Threads : pc'[u] = IF u = t THEN "idle" ELSE pc[u]
        BY <1>0, <2>3 DEF Return, Goto
    <3>2. /\ acked' \subseteq acked \cup {cur[t]} /\ nacked' \subseteq nacked \cup {cur[t]}
          /\ acked' = acked \/ nacked' = nacked
        BY <2>3 DEF Return
    <3> QED BY <2>1, <3>1, <3>2 DEF CallInv
  <2> QED BY <1>4, <2>2, <2>3, OwnCallOnly
<1> QED BY <1>1, <1>2, <1>3, <1>4, StorageAssumption DEF Step, Calling
-----------------------------------------------------------------------------
\* A call's rows are fixed when it is made.
LEMMA RowsOfCall ==
    ASSUME TypeOK, NEW t \in Threads, NEW o, NEW size \in Nat, Call(t, o, size)
    PROVE  /\ \A n \in 1 .. Len(calls) : RowsOf(n)' = RowsOf(n)
           /\ Rows(left'[t]) = RowsOf(cur[t])'
           /\ Len(left'[t]) = size
<1>0. /\ calls \in Seq(Nat) /\ Len(calls) \in Nat
      /\ left \in [Threads -> Seq(Nat \X Nat)] /\ cur \in [Threads -> Nat]
    BY LenProperties DEF TypeOK
<1>1. /\ \A n \in 1 .. Len(calls) : calls'[n] = calls[n]
      /\ calls'[Len(calls) + 1] = size
    BY <1>0, AppendProperties DEF Call
<1>2. left'[t] = [i \in 1 .. size |-> Row(Len(calls) + 1, i)]
    BY <1>0 DEF Call
<1>3. Len(left'[t]) = size
    BY <1>2
<1>4. Rows(left'[t]) = {Row(Len(calls) + 1, i) : i \in 1 .. size}
    BY <1>2 DEF Rows
<1>5. cur'[t] = Len(calls) + 1
    BY <1>0 DEF Call
<1> QED BY <1>1, <1>3, <1>4, <1>5 DEF RowsOf

\* The rows of a running insertion are all accounted for: nobody else adds to
\* its transaction or empties it.
LEMMA LeftStep ==
    TypeOK /\ MutexInv /\ OpInv /\ CallInv /\ LeftInv /\ [Step]_vars => LeftInv'
<1> SUFFICES ASSUME TypeOK, MutexInv, OpInv, CallInv, LeftInv, [Step]_vars
             PROVE  LeftInv'
    OBVIOUS
<1>0. /\ pc \in [Threads -> Labels] /\ op \in [Threads -> AllOps \cup {"none"}]
      /\ left \in [Threads -> Seq(Nat \X Nat)]
      /\ inTxn \in BOOLEAN
    BY DEF TypeOK
<1>m. ASSUME NEW t \in Threads, NEW u \in Threads, pc[t] \in Holding, pc[u] = "batch_step"
      PROVE  t = u
    BY <1>m DEF MutexInv, Holding
<1>1. CASE UNCHANGED vars
    BY <1>1 DEF vars, caller, sqlite, LeftInv, RowsOf, Rows
<1>2. CASE ProcessDies
    BY <1>2 DEF ProcessDies, LeftInv
<1>3. ASSUME NEW t \in Threads, NEW o \in AllOps, NEW size \in Nat, Call(t, o, size),
             o = "insert" => size = 1
      PROVE  LeftInv'
  <2>1. UNCHANGED <<inTxn, pending>>
      BY <1>3 DEF Call, sqlite
  <2>2. ASSUME NEW u \in Threads, u # t
        PROVE  pc'[u] = pc[u] /\ op'[u] = op[u] /\ left'[u] = left[u] /\ cur'[u] = cur[u]
      BY <1>0, <1>3, <2>2 DEF Call, Goto, TypeOK
  <2>3. ASSUME NEW u \in Threads, u # t, pc[u] # "idle"
        PROVE  RowsOf(cur[u])' = RowsOf(cur[u])
    <3>1. cur[u] \in 1 .. Len(calls)
        BY <2>3 DEF CallInv
    <3>2. calls'[cur[u]] = calls[cur[u]]
        BY <1>3, <3>1, AppendProperties DEF Call, TypeOK
    <3> QED BY <2>2, <2>3, <3>2 DEF RowsOf
  <2>4. pc'[t] \in {"once", "close_lock"} /\ op'[t] = o
      BY <1>0, <1>3 DEF Call, Goto
  <2>5. Rows(left'[t]) = RowsOf(cur[t])' /\ Len(left'[t]) = size
      BY <1>3, RowsOfCall
  <2> QED BY <1>3, <2>1, <2>2, <2>3, <2>4, <2>5 DEF LeftInv
<1>4. ASSUME NEW t \in Threads, Engine(t)
      PROVE  LeftInv'
  <2>0. /\ op' = op /\ cur' = cur
        /\ \A n : RowsOf(n)' = RowsOf(n)
        /\ pc[t] # "idle"
      BY <1>4, OwnCallOnly DEF caller, RowsOf
  <2>1. ASSUME UNCHANGED <<left, inTxn, pending>>, pc[t] \notin {"batch_step", "rollback"},
               NEW label \in Labels \ {"batch_step"}, pc' = [pc EXCEPT ![t] = label]
        PROVE  LeftInv'
      BY <1>0, <2>0, <2>1 DEF LeftInv
  <2>2. ASSUME NEW result, Return(t, result), UNCHANGED <<inTxn, pending>>
        PROVE  LeftInv'
      BY <1>0, <2>0, <2>2 DEF Return, Goto, LeftInv
  <2>3. ASSUME NEW result, Return(t, result), pc[t] \in Holding, ~inTxn' => pending' = {}
        PROVE  LeftInv'
      BY <1>0, <1>m, <2>0, <2>3 DEF Return, Goto, LeftInv
  <2>4. CASE OnceEnter(t) \/ OncePass(t) \/ InitDone(t) \/ InitLock(t) \/ CloseLock(t)
      BY <1>0, <2>1, <2>4 DEF OnceEnter, OncePass, InitDone, InitLock, CloseLock, Goto, NoReturn,
                              sqlite, Labels, Holding
  <2>5. CASE Lock(t)
    <3>1. op[t] \in {"insert", "batch", "query", "purge"}
        BY <2>5 DEF Lock, OpInv
    <3> QED BY <1>0, <2>1, <2>5, <3>1 DEF Lock, Goto, NoReturn, sqlite, Labels, Holding
  <2>6. CASE InitOpen(t) \/ InitSchema(t) \/ InitPrepare(t)
    <3>1. CASE InitFails(t)
        BY <1>0, <1>m, <2>0, <2>6, <3>1 DEF InitOpen, InitSchema, InitPrepare, InitFails,
              close_internal, Goto, NoReturn, Holding, LeftInv
    <3>2. CASE ~InitFails(t)
        BY <1>0, <2>1, <2>6, <3>2 DEF InitOpen, InitSchema, InitPrepare, Goto, NoReturn, sqlite,
              Labels, Holding
    <3> QED BY <3>1, <3>2
  <2>7. CASE ReadyCheck(t)
      BY <1>0, <2>1, <2>2, <2>7 DEF ReadyCheck, Goto, NoReturn, sqlite, Labels
  <2>8. CASE InsertStep(t)
      BY <1>0, <2>3, <2>8 DEF InsertStep, UnlockAndReturn, sqlite, Holding, LeftInv
  <2>9. CASE BatchBegin(t)
    <3>1. CASE UnlockAndReturn(t, "false") /\ UNCHANGED <<inTxn, pending>>
        BY <2>2, <3>1 DEF UnlockAndReturn
    <3>2. CASE /\ ~inTxn /\ inTxn' = TRUE /\ UNCHANGED <<pending, left>>
               /\ pc' = [pc EXCEPT ![t] = "batch_step"]
      <4>1. pc[t] = "begin" /\ op[t] = "batch"
          BY <2>9 DEF BatchBegin, OpInv
      <4>2. pending = {} /\ Rows(left[t]) = RowsOf(cur[t])
          BY <3>2, <4>1 DEF LeftInv, Inserting
      <4>3. ASSUME NEW u \in Threads, u # t
            PROVE  pc[u] # "batch_step" /\ pc'[u] = pc[u]
          BY <1>0, <1>m, <3>2, <4>1, <4>3 DEF Holding
      <4> QED BY <1>0, <2>0, <3>2, <4>1, <4>2, <4>3 DEF LeftInv
    <3> QED BY <2>9, <3>1, <3>2 DEF BatchBegin, Goto, NoReturn
  <2>10. CASE BatchStep(t)
    <3>1. pc[t] = "batch_step" /\ op[t] = "batch"
        BY <2>10 DEF BatchStep, OpInv
    <3>2. ASSUME NEW u \in Threads, u # t
          PROVE  pc[u] # "batch_step" /\ pc'[u] = pc[u] /\ left'[u] = left[u]
        BY <1>0, <1>m, <2>10, <3>1, <3>2 DEF BatchStep, Goto, Holding
    <3>3. CASE /\ pending' = pending \cup {Head(left[t])} /\ left[t] # <<>>
               /\ left' = [left EXCEPT ![t] = Tail(left[t])]
               /\ UNCHANGED <<inTxn, pc>>
      <4>1. Rows(left[t]) = {Head(left[t])} \cup Rows(Tail(left[t]))
          BY <1>0, <3>3, RowsHeadTail
      <4>2. left'[t] = Tail(left[t])
          BY <1>0, <3>3
      <4>3. (inTxn /\ pending \cup Rows(left[t]) = RowsOf(cur[t]))'
          BY <2>0, <3>1, <3>3, <4>1, <4>2 DEF LeftInv
      <4> QED BY <2>0, <3>1, <3>2, <3>3, <4>3 DEF LeftInv
    <3>4. CASE pc' = [pc EXCEPT ![t] = "rollback"] /\ (~inTxn' => pending' = {})
        BY <1>0, <2>0, <3>1, <3>2, <3>4 DEF LeftInv
    <3> QED BY <2>10, <3>3, <3>4 DEF BatchStep, Goto, LeftInv
  <2>11. CASE BatchCommit(t) \/ BatchRollback(t)
      BY <1>0, <2>3, <2>11 DEF BatchCommit, BatchRollback, UnlockAndReturn, sqlite, Holding, LeftInv
  <2>12. CASE QueryBody(t) \/ PurgeBody(t)
      BY <2>2, <2>12 DEF QueryBody, PurgeBody, UnlockAndReturn, sqlite
  <2>13. CASE CloseBody(t)
      BY <1>0, <2>3, <2>13 DEF CloseBody, close_internal, UnlockAndReturn, Holding
  <2> QED BY <1>4, <2>4, <2>5, <2>6, <2>7, <2>8, <2>9, <2>10, <2>11, <2>12, <2>13
          DEF Engine, Locking, Running
<1> QED BY <1>1, <1>2, <1>3, <1>4, StorageAssumption
        DEF Step, Calling, AllOps, Inserting
-----------------------------------------------------------------------------
\* What a step of t may do to the file and to the answers: nothing, keep t's
\* call, refuse it, or misplace it.
Stores(t) ==
    \/ UNCHANGED <<committed, acked, nacked, astray>>
    \/ /\ committed' = committed \cup RowsOf(cur[t])
       /\ acked' = acked \cup {cur[t]}
       /\ UNCHANGED <<nacked, astray>>
    \/ /\ nacked' = nacked \cup {cur[t]}
       /\ UNCHANGED <<committed, acked, astray>>
    \/ /\ inTxn /\ pc[t] = "insert"
       /\ acked' = acked \cup {cur[t]} /\ astray' = astray \cup {cur[t]}
       /\ UNCHANGED <<committed, nacked>>

\* The file changes only together with the answer true of the call whose rows
\* it receives, and it receives all of them.
LEMMA EngineStores ==
    ASSUME TypeOK, OpInv, LeftInv, NEW t \in Threads, Engine(t)
    PROVE  Stores(t)
<1>0. /\ pc \in [Threads -> Labels] /\ left \in [Threads -> Seq(Nat \X Nat)]
      /\ inTxn \in BOOLEAN
    BY DEF TypeOK
<1>1. ASSUME UNCHANGED <<committed, history>>
      PROVE  Stores(t)
    BY <1>1 DEF Stores, history
<1>2. ASSUME Return(t, "false") \/ Return(t, "none"), UNCHANGED committed
      PROVE  Stores(t)
    BY <1>2 DEF Stores, Return
<1>3. ASSUME NEW result, Return(t, result), UNCHANGED committed, op[t] \notin Inserting
      PROVE  Stores(t)
    BY <1>3 DEF Stores, Return, Inserting
<1> USE DEF NoReturn, history, sqlite
<1>4. CASE OnceEnter(t) \/ OncePass(t) \/ InitDone(t) \/ InitLock(t) \/ CloseLock(t) \/ Lock(t)
    BY <1>1, <1>4 DEF OnceEnter, OncePass, InitDone, InitLock, CloseLock, Lock
<1>5. CASE InitOpen(t) \/ InitSchema(t) \/ InitPrepare(t)
    BY <1>1, <1>5 DEF InitOpen, InitSchema, InitPrepare, InitFails
<1>6. CASE ReadyCheck(t)
  <2>1. CASE op[t] = "batch" /\ left[t] = <<>> /\ Return(t, "true")
    <3>1. RowsOf(cur[t]) = {}
        BY <1>6, <2>1, RowsOfEmpty DEF ReadyCheck, LeftInv, Inserting
    <3> QED BY <1>6, <2>1, <3>1 DEF ReadyCheck, Stores, Return, Inserting
  <2>2. CASE op[t] = "init" /\ (Return(t, "true") \/ Return(t, "false"))
      BY <1>3, <1>6, <2>2 DEF ReadyCheck, Inserting
  <2>3. CASE Return(t, "false")
      BY <1>2, <1>6, <2>3 DEF ReadyCheck
  <2>4. CASE NoReturn
      BY <1>1, <1>6, <2>4 DEF ReadyCheck
  <2> QED BY <1>6, <2>1, <2>2, <2>3, <2>4 DEF ReadyCheck
<1>7. CASE InsertStep(t)
  <2>1. pc[t] = "insert" /\ op[t] = "insert"
      BY <1>7 DEF InsertStep, OpInv
  <2>2. {Head(left[t])} = RowsOf(cur[t])
      BY <1>0, <2>1, RowsOfOne DEF LeftInv, Inserting
  <2>3. CASE committed' = committed /\ Return(t, "false")
      BY <1>2, <2>3
  <2>4. CASE inTxn /\ committed' = committed /\ Return(t, "true")
      BY <2>1, <2>4 DEF Return, Stores, Inserting
  <2>5. CASE ~inTxn /\ committed' = committed \cup {Head(left[t])} /\ Return(t, "true")
      BY <2>1, <2>2, <2>5 DEF Return, Stores, Inserting
  <2> QED BY <1>7, <2>3, <2>4, <2>5 DEF InsertStep, UnlockAndReturn
<1>8. CASE BatchBegin(t)
    BY <1>1, <1>2, <1>8 DEF BatchBegin, UnlockAndReturn
<1>9. CASE BatchStep(t)
    BY <1>1, <1>9 DEF BatchStep
<1>10. CASE BatchCommit(t)
  <2>1. pc[t] = "batch_step" /\ op[t] = "batch" /\ left[t] = <<>>
      BY <1>10 DEF BatchCommit, OpInv
  <2>2. pending = RowsOf(cur[t])
      BY <2>1, RowsOfEmpty DEF LeftInv
  <2>3. CASE Return(t, "true") /\ committed' = committed \cup pending
      BY <2>1, <2>2, <2>3 DEF Return, Stores, Inserting
  <2>4. CASE Return(t, "false") /\ committed' = committed
      BY <1>2, <2>4
  <2> QED BY <1>10, <2>3, <2>4 DEF BatchCommit, UnlockAndReturn
<1>11. CASE BatchRollback(t)
    BY <1>2, <1>11 DEF BatchRollback, UnlockAndReturn
<1>12. CASE QueryBody(t) \/ PurgeBody(t)
    BY <1>3, <1>12 DEF QueryBody, PurgeBody, UnlockAndReturn, OpInv, Inserting
<1>13. CASE CloseBody(t)
    BY <1>2, <1>13 DEF CloseBody, UnlockAndReturn
<1> QED BY <1>4, <1>5, <1>6, <1>7, <1>8, <1>9, <1>10, <1>11, <1>12, <1>13
        DEF Engine, Locking, Running

\* The file and the answers keep matching.
LEMMA StoredStep ==
    RowsInv /\ [Step]_vars => StoredInv' /\ OnlyLeftOpenLoses'
<1> SUFFICES ASSUME RowsInv, [Step]_vars
             PROVE  StoredInv' /\ OnlyLeftOpenLoses'
    OBVIOUS
<1> USE DEF RowsInv
<1>1. CASE UNCHANGED vars
    BY <1>1 DEF vars, sqlite, caller, history, StoredInv, OnlyLeftOpenLoses, RowsOf
<1>2. CASE ProcessDies
    BY <1>2 DEF ProcessDies, history, StoredInv, OnlyLeftOpenLoses, RowsOf
<1>3. ASSUME NEW t \in Threads, NEW o, NEW size \in Nat, Call(t, o, size)
      PROVE  StoredInv' /\ OnlyLeftOpenLoses'
  <2>1. UNCHANGED <<committed, acked, astray>>
      BY <1>3 DEF Call, sqlite, history
  <2>2. \A n \in acked : RowsOf(n)' = RowsOf(n)
      BY <1>3, RowsOfCall DEF CallInv
  <2> QED BY <2>1, <2>2 DEF StoredInv, OnlyLeftOpenLoses
<1>4. ASSUME NEW t \in Threads, Engine(t)
      PROVE  StoredInv' /\ OnlyLeftOpenLoses'
  <2>1. \A n : RowsOf(n)' = RowsOf(n)
      BY <1>4, OwnCallOnly DEF caller, RowsOf
  <2>2. cur[t] \notin acked
      BY <1>4, OwnCallOnly DEF CallInv
  <2>3. \A r \in RowsOf(cur[t]) : r[1] = cur[t]
      BY DEF RowsOf, Row
  <2>4. Stores(t) /\ astray \subseteq acked
      BY <1>4, EngineStores DEF TypeOK
  <2>5. StoredInv'
      BY <2>2, <2>3, <2>4 DEF StoredInv, Stores
  <2>6. OnlyLeftOpenLoses'
      BY <2>1, <2>2, <2>4 DEF OnlyLeftOpenLoses, Stores
  <2> QED BY <2>5, <2>6
<1> QED BY <1>1, <1>2, <1>3, <1>4, StorageAssumption DEF Step, Calling

\* The invariant holds of a process just started on an empty file.
LEMMA InitRows == Init => RowsInv
<1> SUFFICES ASSUME Init PROVE RowsInv
    OBVIOUS
<1>1. TypeOK
    BY InitTypeOK
<1>2. MutexInv /\ OpInv
    BY StorageAssumption DEF Init, MutexInv, OpInv, Holding, Initializing
<1>3. CallInv /\ LeftInv
    BY DEF Init, CallInv, LeftInv
<1>4. StoredInv /\ OnlyLeftOpenLoses
    BY DEF Init, StoredInv, OnlyLeftOpenLoses
<1> QED BY <1>1, <1>2, <1>3, <1>4 DEF RowsInv

\* Every step keeps the invariant about rows and answers.
LEMMA RowsStep == RowsInv /\ [Step]_vars => RowsInv'
BY TypeStep, MutexStep, OpStep, CallStep, LeftStep, StoredStep DEF RowsInv

\* What the specification allows is such a step: a bounded crash and the death by
\* a null statement are deaths of the process.
LEMMA NextIsStep == Next => Step
BY DEF Next, Step, Crash, NullDereference

\* Rows and answers match throughout every behaviour.
LEMMA RowsInvariant == Spec => []RowsInv
BY InitRows, RowsStep, NextIsStep, PTL DEF Spec

\* The engine, SQLite's connection and the callers keep their types, whatever
\* SQLite call fails and whenever the process dies.
THEOREM TypeCorrect == Spec => []TypeOK
<1>1. RowsInv => TypeOK
    BY DEF RowsInv
<1> QED BY <1>1, RowsInvariant, PTL

\* At most one thread is between taking db_mutex_ and giving it up, on every
\* path of every operation.
THEOREM MutualExclusion ==
    Spec => [](\A t, u \in Threads : pc[t] \in Holding /\ pc[u] \in Holding => t = u)
<1>1. RowsInv => \A t, u \in Threads : pc[t] \in Holding /\ pc[u] \in Holding => t = u
    BY DEF RowsInv, MutexInv
<1> QED BY <1>1, RowsInvariant, PTL

\* Only acknowledged calls have rows in the file.
LEMMA RefusedHasNoRow == RowsInv => RefusedNeverStored
<1> SUFFICES ASSUME RowsInv, NEW n \in nacked
             PROVE  RowsOf(n) \cap committed = {}
    BY DEF RefusedNeverStored
<1>1. n \notin acked
    BY DEF RowsInv, CallInv
<1>2. \A r \in RowsOf(n) : r[1] = n
    BY DEF RowsOf, Row
<1> QED BY <1>1, <1>2 DEF RowsInv, StoredInv

\* A call that answered false has no row in the file and never gets one, so
\* its caller may retry it.
THEOREM RefusedIsNeverStored == Spec => []RefusedNeverStored
BY RefusedHasNoRow, RowsInvariant, PTL

\* insert_batch is atomic: the file holds all rows of a batch or none.
THEOREM BatchIsAtomic == Spec => []BatchAllOrNothing
<1>1. RowsInv => BatchAllOrNothing
  <2> SUFFICES ASSUME RowsInv, NEW n \in DOMAIN calls, RowsOf(n) \cap committed # {}
               PROVE  RowsOf(n) \subseteq committed
      BY DEF BatchAllOrNothing
  <2>1. PICK r \in RowsOf(n) : r \in committed
      OBVIOUS
  <2>2. r[1] = n
      BY DEF RowsOf, Row
  <2>3. n \in acked \ astray
      BY <2>1, <2>2 DEF RowsInv, StoredInv
  <2> QED BY <2>3 DEF RowsInv, OnlyLeftOpenLoses
<1> QED BY <1>1, RowsInvariant, PTL

\* An acknowledged row is in the file unless it was inserted inside a
\* transaction that a failed COMMIT had left open.
THEOREM OnlyTheLeftOpenLose == Spec => []OnlyLeftOpenLoses
<1>1. RowsInv => OnlyLeftOpenLoses
    BY DEF RowsInv
<1> QED BY <1>1, RowsInvariant, PTL
-----------------------------------------------------------------------------
\* The flag and the two handles change together under db_mutex_.
LEMMA HandleStep == RowsInv /\ HandleInv /\ [Step]_vars => HandleInv'
<1> SUFFICES ASSUME RowsInv, HandleInv, [Step]_vars
             PROVE  HandleInv'
    OBVIOUS
<1>0. /\ pc \in [Threads -> Labels] /\ op \in [Threads -> AllOps \cup {"none"}]
      /\ is_initialized_ \in BOOLEAN
      /\ insert_stmt_ \in {"null", "prepared"} /\ db_ \in {"null", "open"}
    BY DEF RowsInv, TypeOK
<1>m. ASSUME NEW t \in Threads, NEW u \in Threads, pc[t] \in Holding \/ db_mutex_ = NoThread,
             pc[u] \in {"init_open", "init_schema", "init_prepare"}
      PROVE  t = u /\ db_mutex_ # NoThread
    BY <1>m, StorageAssumption DEF RowsInv, MutexInv, Holding
<1> USE DEF HandleInv, Agree
<1>1. CASE UNCHANGED vars
    BY <1>1 DEF vars, object
<1>2. CASE ProcessDies
    BY <1>2 DEF ProcessDies
<1>3. ASSUME NEW t \in Threads, Calling(t)
      PROVE  HandleInv'
    BY <1>0, <1>3 DEF Calling, Call, Goto, object
<1>4. ASSUME NEW t \in Threads, NEW label \in Labels \ {"init_open", "init_schema", "init_prepare"},
             pc' = [pc EXCEPT ![t] = label], UNCHANGED object,
             pc[t] \notin {"init_schema", "init_prepare"}
      PROVE  HandleInv'
    BY <1>0, <1>4 DEF object
<1>5. ASSUME NEW t \in Threads, Engine(t)
      PROVE  HandleInv'
  <2> USE DEF Labels, Holding
  <2>1. CASE OnceEnter(t) \/ OncePass(t) \/ InitDone(t) \/ CloseLock(t)
      BY <1>0, <1>4, <2>1 DEF OnceEnter, OncePass, InitDone, CloseLock, Goto
  <2>2. CASE Lock(t)
      BY <1>0, <1>4, <2>2 DEF Lock, Goto, RowsInv, OpInv
  <2>3. CASE InitLock(t)
    <3>1. \A u \in Threads : pc[u] \notin {"init_open", "init_schema", "init_prepare"}
        BY <1>m, <2>3 DEF InitLock
    <3> QED BY <1>0, <2>3, <3>1 DEF InitLock, Goto, object
  <2>4. CASE InitOpen(t) \/ InitSchema(t) \/ InitPrepare(t)
    <3>1. pc[t] \in {"init_open", "init_schema", "init_prepare"}
        BY <2>4 DEF InitOpen, InitSchema, InitPrepare
    <3>2. \A u \in Threads \ {t} : pc[u] \notin {"init_open", "init_schema", "init_prepare"}
        BY <1>m, <3>1
    <3>3. CASE InitFails(t)
        BY <1>0, <3>2, <3>3 DEF InitFails, close_internal, Goto
    <3>4. CASE InitOpen(t) /\ ~InitFails(t)
        BY <1>0, <3>2, <3>4 DEF InitOpen, Goto
    <3>5. CASE InitSchema(t) /\ ~InitFails(t)
        BY <1>0, <3>2, <3>5 DEF InitSchema, Goto, object
    <3>6. CASE InitPrepare(t) /\ ~InitFails(t)
        BY <1>0, <3>2, <3>6 DEF InitPrepare, Goto
    <3> QED BY <2>4, <3>3, <3>4, <3>5, <3>6
  <2>5. CASE ReadyCheck(t)
      BY <1>0, <1>4, <2>5 DEF ReadyCheck, Return, Goto
  <2>6. CASE InsertStep(t) \/ BatchBegin(t)
      BY <1>0, <1>4, <2>6 DEF InsertStep, BatchBegin, UnlockAndReturn, Return, Goto
  <2>7. CASE BatchStep(t)
      BY <1>0, <2>7 DEF BatchStep, Goto, object
  <2>8. CASE BatchCommit(t) \/ BatchRollback(t) \/ QueryBody(t) \/ PurgeBody(t)
      BY <1>0, <1>4, <2>8 DEF BatchCommit, BatchRollback, QueryBody, PurgeBody, UnlockAndReturn,
            Return, Goto
  <2>9. CASE CloseBody(t)
    <3>1. \A u \in Threads : pc[u] \notin {"init_open", "init_schema", "init_prepare"}
        BY <1>m, <2>9 DEF CloseBody
    <3> QED BY <1>0, <2>9, <3>1 DEF CloseBody, close_internal, UnlockAndReturn, Return, Goto
  <2> QED BY <1>5, <2>1, <2>2, <2>3, <2>4, <2>5, <2>6, <2>7, <2>8, <2>9
          DEF Engine, Locking, Running
<1> QED BY <1>1, <1>2, <1>3, <1>5 DEF Step

\* Whoever takes db_mutex_ finds the flag and the handles in agreement, after
\* any mixture of failed initializations, closes and crashes.
THEOREM HandlesAlwaysAgree == Spec => []HandlesAgree
<1>1. Init => HandleInv
    BY DEF Init, HandleInv, Agree
<1>2. RowsInv /\ HandleInv => HandlesAgree
  <2> SUFFICES ASSUME RowsInv, HandleInv, db_mutex_ = NoThread
               PROVE  Agree
      BY DEF HandlesAgree, Agree
  <2>1. \A t \in Threads : pc[t] \notin Holding
      BY StorageAssumption DEF RowsInv, MutexInv
  <2> QED BY <2>1 DEF HandleInv, Holding
<1> QED BY <1>1, <1>2, HandleStep, NextIsStep, RowsInvariant, PTL DEF Spec
-----------------------------------------------------------------------------
\* std::call_once lets one thread in and holds the others until it is out.
LEMMA OnceStep == RowsInv /\ OnceInv /\ [Step]_vars => OnceInv'
<1> SUFFICES ASSUME RowsInv, OnceInv, [Step]_vars
             PROVE  OnceInv'
    OBVIOUS
<1>0. pc \in [Threads -> Labels]
    BY DEF RowsInv, TypeOK
<1> USE DEF OnceInv, Initializing, Initialized
<1>1. CASE UNCHANGED vars
    BY <1>1 DEF vars
<1>2. CASE ProcessDies
    BY <1>2 DEF ProcessDies
<1>3. ASSUME NEW t \in Threads, Calling(t)
      PROVE  OnceInv'
    BY <1>0, <1>3 DEF Calling, Call, Goto
<1>4. ASSUME NEW t \in Threads, NEW label,
             pc' = [pc EXCEPT ![t] = label], UNCHANGED init_flag_,
             label \in Initializing => pc[t] \in Initializing,
             label \in Initialized => pc[t] \in Initialized
      PROVE  OnceInv'
    BY <1>0, <1>4
<1>5. ASSUME NEW t \in Threads, Engine(t)
      PROVE  OnceInv'
  <2>1. CASE OnceEnter(t) \/ OncePass(t)
      BY <1>0, <2>1 DEF OnceEnter, OncePass, Goto
  <2>2. CASE InitDone(t)
      BY <1>0, <2>2 DEF InitDone, Goto
  <2>3. CASE Lock(t)
      BY <1>0, <1>4, <2>3 DEF Lock, Goto, RowsInv, OpInv
  <2>4. CASE CloseLock(t) \/ InitLock(t)
      BY <1>0, <1>4, <2>4 DEF CloseLock, InitLock, Goto
  <2>5. CASE InitOpen(t) \/ InitSchema(t) \/ InitPrepare(t)
      BY <1>0, <1>4, <2>5 DEF InitOpen, InitSchema, InitPrepare, InitFails, Goto
  <2>6. CASE ReadyCheck(t)
      BY <1>0, <1>4, <2>6 DEF ReadyCheck, Return, Goto
  <2>7. CASE InsertStep(t) \/ BatchBegin(t)
      BY <1>0, <1>4, <2>7 DEF InsertStep, BatchBegin, UnlockAndReturn, Return, Goto
  <2>8. CASE BatchStep(t)
      BY <1>0, <2>8 DEF BatchStep, Goto
  <2>9. CASE BatchCommit(t) \/ BatchRollback(t) \/ QueryBody(t) \/ PurgeBody(t) \/ CloseBody(t)
      BY <1>0, <1>4, <2>9 DEF BatchCommit, BatchRollback, QueryBody, PurgeBody, CloseBody,
            UnlockAndReturn, Return, Goto
  <2> QED BY <1>5, <2>1, <2>2, <2>3, <2>4, <2>5, <2>6, <2>7, <2>8, <2>9
          DEF Engine, Locking, Running
<1> QED BY <1>1, <1>2, <1>3, <1>5 DEF Step

\* Behind ReadyCheck nothing unsets the flag as long as close runs alone.
LEMMA ReadyStep ==
    RowsInv /\ OnceInv /\ ReadyInv /\ ClosesAlone /\ [Step]_vars => ReadyInv'
<1> SUFFICES ASSUME RowsInv, OnceInv, ReadyInv, ClosesAlone, [Step]_vars
             PROVE  ReadyInv'
    OBVIOUS
<1>0. /\ pc \in [Threads -> Labels] /\ op \in [Threads -> AllOps \cup {"none"}]
      /\ is_initialized_ \in BOOLEAN
    BY DEF RowsInv, TypeOK
<1> USE DEF ReadyInv, Behind, Initialized
<1>1. CASE UNCHANGED vars
    BY <1>1 DEF vars, object
<1>2. CASE ProcessDies
    BY <1>2 DEF ProcessDies
<1>3. ASSUME NEW t \in Threads, Calling(t)
      PROVE  ReadyInv'
    BY <1>0, <1>3 DEF Calling, Call, Goto, object
<1>4. ASSUME NEW t \in Threads, NEW label, pc' = [pc EXCEPT ![t] = label],
             is_initialized_' = is_initialized_,
             label \in Behind => is_initialized_ \/ pc[t] \in Behind
      PROVE  ReadyInv'
    BY <1>0, <1>4
<1>5. ASSUME NEW t \in Threads, Engine(t)
      PROVE  ReadyInv'
  <2> USE DEF object
  <2>1. CASE OnceEnter(t) \/ OncePass(t) \/ InitDone(t) \/ InitLock(t) \/ CloseLock(t)
      BY <1>0, <1>4, <2>1 DEF OnceEnter, OncePass, InitDone, InitLock, CloseLock, Goto
  <2>2. CASE Lock(t)
      BY <1>0, <1>4, <2>2 DEF Lock, Goto, RowsInv, OpInv
  <2>3. CASE InitOpen(t) \/ InitSchema(t) \/ InitPrepare(t)
    <3>1. \A u \in Threads : pc[u] \notin Initialized
        BY <2>3 DEF InitOpen, InitSchema, InitPrepare, OnceInv, Initializing
    <3>2. pc' = [pc EXCEPT ![t] = pc'[t]] /\ pc'[t] \in {"init_done", "init_schema", "init_prepare"}
        BY <1>0, <2>3 DEF InitOpen, InitSchema, InitPrepare, InitFails, Goto
    <3> QED BY <1>0, <3>1, <3>2
  <2>4. CASE ReadyCheck(t)
      BY <1>0, <1>4, <2>4 DEF ReadyCheck, Return, Goto
  <2>5. CASE InsertStep(t) \/ BatchBegin(t)
      BY <1>0, <1>4, <2>5 DEF InsertStep, BatchBegin, UnlockAndReturn, Return, Goto
  <2>6. CASE BatchStep(t)
      BY <1>0, <2>6 DEF BatchStep, Goto
  <2>7. CASE BatchCommit(t) \/ BatchRollback(t) \/ QueryBody(t) \/ PurgeBody(t)
      BY <1>0, <1>4, <2>7 DEF BatchCommit, BatchRollback, QueryBody, PurgeBody, UnlockAndReturn,
            Return, Goto
  <2>8. CASE CloseBody(t)
      BY <1>0, <2>8 DEF CloseBody, UnlockAndReturn, Return, Goto, ClosesAlone
  <2> QED BY <1>5, <2>1, <2>2, <2>3, <2>4, <2>5, <2>6, <2>7, <2>8 DEF Engine, Locking, Running
<1> QED BY <1>1, <1>2, <1>3, <1>5 DEF Step

\* An insertion behind ReadyCheck binds to the prepared statement.
LEMMA ReadyMeansPrepared == RowsInv /\ HandleInv /\ ReadyInv => NoNullStatement
<1> SUFFICES ASSUME RowsInv, HandleInv, ReadyInv, NEW t \in Threads, pc[t] = "insert"
             PROVE  insert_stmt_ # "null"
    BY DEF NoNullStatement, NullStatement
<1>1. \A u \in Threads : pc[u] \notin {"init_schema", "init_prepare"}
    BY DEF RowsInv, MutexInv, Holding
<1> QED BY <1>1 DEF HandleInv, Agree, ReadyInv, Behind, Initialized

\* Nothing is open and nobody has passed call_once in a process just started.
LEMMA InitReady == Init => HandleInv /\ OnceInv /\ ReadyInv
BY DEF Init, HandleInv, Agree, OnceInv, ReadyInv, Initializing, Behind, Initialized

\* No thread may call close, and so none is inside it.
NobodyCloses == \A t \in Threads : "close" \notin CallsOf[t]
NobodyInClose == \A t \in Threads : pc[t] \notin ClosePlaces

\* Where nobody may call close, nobody gets into it.
LEMMA NobodyInCloseStep ==
    ASSUME NobodyCloses
    PROVE  RowsInv /\ NobodyInClose /\ [Step]_vars => NobodyInClose'
<1> SUFFICES ASSUME RowsInv, NobodyInClose, [Step]_vars
             PROVE  NobodyInClose'
    OBVIOUS
<1>0. pc \in [Threads -> Labels]
    BY DEF RowsInv, TypeOK
<1> USE DEF NobodyInClose, ClosePlaces
<1>1. CASE UNCHANGED vars
    BY <1>1 DEF vars
<1>2. CASE ProcessDies
    BY <1>2 DEF ProcessDies
<1>3. ASSUME NEW t \in Threads, Calling(t)
      PROVE  NobodyInClose'
    BY <1>0, <1>3 DEF Calling, Call, NobodyCloses, Goto
<1>4. ASSUME NEW t \in Threads, Engine(t)
      PROVE  NobodyInClose'
    BY <1>4, OnlyCallersClose DEF RowsInv
<1> QED BY <1>1, <1>2, <1>3, <1>4 DEF Step

\* While nobody calls close, insert_telemetry never binds to a null statement:
\* close() racing an insertion is the only way to one.
THEOREM NoNullStatementWithoutClose ==
    ASSUME NobodyCloses
    PROVE  Spec => []NoNullStatement
<1>1. Init => NobodyInClose
    BY DEF Init, NobodyInClose, ClosePlaces
<1>2. NobodyInClose => ClosesAlone
    BY DEF NobodyInClose, ClosesAlone, ClosePlaces
<1> QED BY <1>1, <1>2, InitReady, ReadyMeansPrepared, NobodyInCloseStep, HandleStep, OnceStep,
           ReadyStep, NextIsStep, RowsInvariant, PTL DEF Spec
-----------------------------------------------------------------------------
\* A transaction ends with the batch that began it.
LEMMA TxnStep ==
    RowsInv /\ TxnInv /\ (NoneLeftOpen \/ NoBatch) /\ [Step]_vars => TxnInv'
<1> SUFFICES ASSUME RowsInv, TxnInv, NoneLeftOpen \/ NoBatch, [Step]_vars
             PROVE  TxnInv'
    OBVIOUS
<1>0. pc \in [Threads -> Labels] /\ inTxn \in BOOLEAN
    BY DEF RowsInv, TypeOK
<1>1. CASE UNCHANGED vars
    BY <1>1 DEF vars, sqlite, history, TxnInv
<1>2. CASE ProcessDies
    BY <1>2 DEF ProcessDies, history, TxnInv
<1>3. ASSUME NEW t \in Threads, Calling(t)
      PROVE  TxnInv'
    BY <1>0, <1>3 DEF Calling, Call, Goto, sqlite, history, TxnInv
<1>4. ASSUME NEW t \in Threads, Engine(t)
      PROVE  TxnInv'
  <2>1. ASSUME NEW label, pc' = [pc EXCEPT ![t] = label], astray' = astray,
               inTxn' = inTxn, pc[t] \notin {"batch_step", "rollback"}
        PROVE  TxnInv'
      BY <1>0, <2>1 DEF TxnInv
  <2>2. ASSUME inTxn' = FALSE, astray' = astray
        PROVE  TxnInv'
      BY <2>2 DEF TxnInv
  <2>3. ASSUME NEW result, Return(t, result), op[t] # "insert" \/ result # "true"
        PROVE  astray' = astray
      BY <2>3 DEF Return
  <2> USE DEF Goto, NoReturn, history, sqlite
  <2>4. CASE OnceEnter(t) \/ OncePass(t) \/ InitDone(t) \/ InitLock(t) \/ CloseLock(t) \/ Lock(t)
      BY <2>1, <2>4 DEF OnceEnter, OncePass, InitDone, InitLock, CloseLock, Lock
  <2>5. CASE InitOpen(t) \/ InitSchema(t) \/ InitPrepare(t)
      BY <2>1, <2>2, <2>5 DEF InitOpen, InitSchema, InitPrepare, InitFails, close_internal
  <2>6. CASE ReadyCheck(t)
    <3>1. CASE NoReturn
        BY <2>1, <2>6, <3>1 DEF ReadyCheck, Return
    <3>2. ASSUME NEW result, Return(t, result), op[t] # "insert" \/ result # "true"
          PROVE  TxnInv'
      <4>1. astray' = astray
          BY <2>3, <3>2
      <4> QED BY <2>1, <2>6, <3>2, <4>1 DEF ReadyCheck, Return
    <3> QED BY <2>6, <3>1, <3>2 DEF ReadyCheck
  <2>7. CASE InsertStep(t)
    <3>1. \A u \in Threads : pc[u] \notin {"batch_step", "rollback"}
        BY <2>7 DEF InsertStep, RowsInv, MutexInv, Holding
    <3>2. ~inTxn
        BY <3>1 DEF TxnInv
    <3>3. astray' = astray /\ inTxn' = FALSE
        BY <1>0, <2>7, <3>2 DEF InsertStep, UnlockAndReturn, Return
    <3> QED BY <2>2, <3>3
  <2>8. CASE BatchBegin(t)
    <3>1. CASE UnlockAndReturn(t, "false") /\ UNCHANGED inTxn
        BY <2>1, <2>3, <2>8, <3>1 DEF BatchBegin, UnlockAndReturn, Return
    <3>2. CASE pc' = [pc EXCEPT ![t] = "batch_step"] /\ NoReturn
        BY <1>0, <3>2 DEF TxnInv
    <3> QED BY <2>8, <3>1, <3>2 DEF BatchBegin
  <2>9. CASE BatchStep(t)
    <3>1. pc'[t] \in {"batch_step", "rollback"} /\ astray' = astray
        BY <1>0, <2>9 DEF BatchStep
    <3> QED BY <3>1 DEF TxnInv
  <2>10. CASE BatchCommit(t) \/ BatchRollback(t)
    <3>1. op[t] = "batch"
        BY <2>10 DEF BatchCommit, BatchRollback, RowsInv, OpInv
    <3> QED BY <2>2, <2>3, <2>10, <3>1 DEF BatchCommit, BatchRollback, UnlockAndReturn, NoneLeftOpen,
                 NoBatch
  <2>11. CASE QueryBody(t) \/ PurgeBody(t)
    <3>1. op[t] # "insert"
        BY <2>11 DEF QueryBody, PurgeBody, RowsInv, OpInv
    <3> QED BY <2>1, <2>3, <2>11, <3>1 DEF QueryBody, PurgeBody, UnlockAndReturn, Return
  <2>12. CASE CloseBody(t)
      BY <2>2, <2>3, <2>12 DEF CloseBody, close_internal, UnlockAndReturn
  <2> QED BY <1>4, <2>4, <2>5, <2>6, <2>7, <2>8, <2>9, <2>10, <2>11, <2>12
          DEF Engine, Locking, Running
<1> QED BY <1>1, <1>2, <1>3, <1>4 DEF Step

\* With no transaction left behind, no acknowledged row is astray.
LEMMA TxnIsDurable == RowsInv /\ TxnInv => AckedIsDurable
BY DEF RowsInv, TxnInv, OnlyLeftOpenLoses, AckedIsDurable

\* No transaction is open in a process just started.
LEMMA InitTxn == Init => TxnInv
BY DEF Init, TxnInv

\* Where a failing COMMIT always ends its transaction, every acknowledged row
\* is in the file for good: the COMMIT that leaves its transaction open is the
\* only way to lose one.
THEOREM AcknowledgedIsDurable ==
    ASSUME NoneLeftOpen
    PROVE  Spec => []AckedIsDurable
BY InitTxn, TxnIsDurable, TxnStep, NextIsStep, RowsInvariant, PTL DEF Spec
-----------------------------------------------------------------------------
(* The refinement of DurableStore *)

\* insert_telemetry carries one row.
LEMMA InsertsOne ==
    ASSUME RowsInv, NEW t \in Threads, pc[t] = "insert"
    PROVE  calls[cur[t]] = 1
<1>1. /\ left[t] \in Seq(Nat \X Nat) /\ Len(left[t]) = 1 /\ Rows(left[t]) = RowsOf(cur[t])
      /\ calls[cur[t]] \in Nat
  <2>1. op[t] = "insert"
      BY DEF RowsInv, OpInv
  <2>2. Len(left[t]) = 1 /\ Rows(left[t]) = RowsOf(cur[t])
      BY <2>1 DEF RowsInv, LeftInv, Inserting
  <2>3. left[t] \in Seq(Nat \X Nat) /\ calls \in Seq(Nat)
      BY DEF RowsInv, TypeOK
  <2>4. cur[t] \in 1 .. Len(calls)
      BY DEF RowsInv, CallInv
  <2> QED BY <2>2, <2>3, <2>4
<1>2. RowsOf(cur[t]) = {Head(left[t])}
    BY <1>1, RowsOfOne
<1> DEFINE n == cur[t]
           size == calls[n]
<1>3. \A i \in 1 .. size : <<n, i>> = Head(left[t])
    BY <1>2 DEF RowsOf, Row
<1>4. \A i, j \in 1 .. size : i = j
    BY <1>3
<1>5. 1 .. size # {}
    BY <1>2 DEF RowsOf, Row
<1> QED BY <1>1, <1>4, <1>5

\* To the callers and the file every step is one of the store, or none.
LEMMA StoreStep ==
    ASSUME RowsInv, [Step]_vars
    PROVE  /\ [Durable!StoreNext]_Durable!storeVars
           /\ TxnInv => [Durable!SoundNext]_Durable!storeVars
<1> USE DEF Durable!storeVars
<1>1. CASE UNCHANGED vars
    BY <1>1 DEF vars, sqlite, caller, history
<1>2. CASE ProcessDies
    BY <1>2 DEF ProcessDies, history
<1>3. ASSUME NEW t \in Threads, Calling(t)
      PROVE  Durable!SoundNext
  <2>1. PICK o \in AllOps, size \in 0 .. MaxBatch \cup {1} : Call(t, o, size)
      BY <1>3, StorageAssumption DEF Calling, AllOps, Inserting
  <2> QED BY <2>1 DEF Call, sqlite, history, Durable!SoundNext, Durable!Issue
<1>4. ASSUME NEW t \in Threads, Engine(t)
      PROVE  /\ [Durable!StoreNext]_Durable!storeVars
             /\ TxnInv => [Durable!SoundNext]_Durable!storeVars
  <2>1. Stores(t) /\ calls' = calls
      BY <1>4, EngineStores, OwnCallOnly DEF RowsInv, caller
  <2>2. cur[t] \in Durable!Unanswered
      BY <1>4, OwnCallOnly DEF RowsInv, TypeOK, CallInv, Durable!Unanswered
  <2>3. CASE UNCHANGED <<committed, acked, nacked, astray>>
      BY <2>1, <2>3
  <2>4. CASE /\ committed' = committed \cup RowsOf(cur[t])
             /\ acked' = acked \cup {cur[t]}
             /\ UNCHANGED <<nacked, astray>>
    <3>1. Durable!Keep(cur[t])
        BY <2>1, <2>4 DEF Durable!Keep, RowsOf, Row
    <3> QED BY <2>2, <3>1 DEF Durable!SoundNext, Durable!StoreNext
  <2>5. CASE /\ nacked' = nacked \cup {cur[t]}
             /\ UNCHANGED <<committed, acked, astray>>
    <3>1. Durable!Refuse(cur[t])
        BY <2>1, <2>5 DEF Durable!Refuse
    <3> QED BY <2>2, <3>1 DEF Durable!SoundNext, Durable!StoreNext
  <2>6. CASE /\ inTxn /\ pc[t] = "insert"
             /\ acked' = acked \cup {cur[t]} /\ astray' = astray \cup {cur[t]}
             /\ UNCHANGED <<committed, nacked>>
    <3>1. Durable!Misplace(cur[t])
        BY <2>1, <2>6 DEF Durable!Misplace
    <3>2. calls[cur[t]] = 1
        BY <2>6, InsertsOne
    <3>3. ~TxnInv
        BY <2>6 DEF TxnInv, RowsInv, MutexInv, Holding
    <3> QED BY <2>2, <3>1, <3>2, <3>3 DEF Durable!StoreNext
  <2> QED BY <2>1, <2>3, <2>4, <2>5, <2>6 DEF Stores
<1> QED BY <1>1, <1>2, <1>3, <1>4 DEF Step, Durable!StoreNext

\* A store on an empty file.
LEMMA InitStore == Init => Durable!StoreInit
BY DEF Init, Durable!StoreInit

\* The engine is a durable store but for single insertions into a transaction
\* that was left open, with any threads, faults, closes and crashes.
THEOREM EngineIsStore == Spec => ImplementsStore
<1>1. RowsInv /\ [Next]_vars => [Durable!StoreNext]_Durable!storeVars
    BY StoreStep, NextIsStep
<1> QED BY <1>1, InitStore, RowsInvariant, PTL DEF Spec, ImplementsStore, Durable!StoreSpec

\* Where a failing COMMIT always ends its transaction it is one without exception.
THEOREM EngineIsSoundStore ==
    ASSUME NoneLeftOpen
    PROVE  Spec => ImplementsSoundStore
<1>1. RowsInv /\ TxnInv /\ [Next]_vars => TxnInv' /\ [Durable!SoundNext]_Durable!storeVars
    BY StoreStep, TxnStep, NextIsStep
<1> QED BY <1>1, InitStore, InitTxn, RowsInvariant, PTL
        DEF Spec, ImplementsSoundStore, Durable!SoundSpec
=============================================================================
