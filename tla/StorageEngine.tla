--------------------------- MODULE StorageEngine ---------------------------
(***************************************************************************)
(* storage::StorageEngine and the SQLite connection under it.  Threads     *)
(* call init, insert_telemetry, insert_batch, query_telemetry,             *)
(* purge_older_than and close; each call is cut where another thread, a    *)
(* failing SQLite call or the death of the process can interfere: at       *)
(* std::call_once, at the load of is_initialized_, at db_mutex_, and       *)
(* between two SQLite calls.  A row is named by the call that carries it,  *)
(* so that what a call returned can be compared with what the file holds.  *)
(* is_ready() reads is_initialized_ and changes nothing; it is left out.   *)
(***************************************************************************)
EXTENDS Integers, Sequences, FiniteSets

CONSTANTS Threads,
          NoThread,      \* db_mutex_ is free
          CallsOf,       \* the operations each thread may call
          MaxBatch,      \* longest vector given to insert_batch
          MaxCalls,      \* bound on the calls in a behaviour
          MaxCrashes,    \* bound on the deaths of the process
          Faults         \* the SQLite calls that may fail, and how

AllOps == {"init", "insert", "batch", "query", "purge", "close"}

\* A COMMIT can fail and leave the transaction open (SQLITE_BUSY) or fail and
\* roll it back (SQLITE_FULL, SQLITE_IOERR); so can a step inside it.
AllFaults == {"open", "schema", "prepare", "begin", "step", "step_rollback",
              "commit_left_open", "commit_rollback"}

ASSUME StorageAssumption == /\ NoThread \notin Threads
                            /\ CallsOf \in [Threads -> SUBSET AllOps]
                            /\ MaxBatch \in Nat
                            /\ MaxCalls \in Nat
                            /\ MaxCrashes \in Nat
                            /\ Faults \subseteq AllFaults

VARIABLES db_,              \* sqlite3*: "null" or "open"
          insert_stmt_,     \* sqlite3_stmt*: "null" or "prepared"
          db_mutex_,        \* its holder, or NoThread
          init_flag_,       \* std::once_flag: "new", "running", "done"
          is_initialized_,
          init_failed_,
          inTxn, pending,   \* SQLite: explicit transaction open, its rows
          committed,        \* SQLite: rows in the database file
          pc, op, ret,      \* per thread: place, operation, last outcome
          cur, left,        \* per thread: its call's number, rows to insert
          calls,            \* history: number of rows of each call so far
          acked, nacked,    \* history: inserting calls that returned true, false
          astray,           \* history: insertions acknowledged inside a transaction
                            \* that an earlier COMMIT left open
          crashes

object == <<db_, insert_stmt_, is_initialized_, init_failed_>>
sqlite == <<inTxn, pending, committed>>
caller == <<op, cur, calls>>
history == <<acked, nacked, astray>>
vars == <<object, db_mutex_, init_flag_, sqlite, pc, ret, left, caller, history, crashes>>

Row(n, i) == <<n, i>>
RowsOf(n) == {Row(n, i) : i \in 1 .. calls[n]}
Inserting == {"insert", "batch"}

Goto(t, label) == pc' = [pc EXCEPT ![t] = label]

\* t's call returns result.
Return(t, result) ==
    /\ Goto(t, "idle")
    /\ ret' = [ret EXCEPT ![t] = result]
    /\ left' = [left EXCEPT ![t] = <<>>]
    /\ acked' = IF op[t] \in Inserting /\ result = "true"
                THEN acked \cup {cur[t]} ELSE acked
    /\ nacked' = IF op[t] \in Inserting /\ result = "false"
                 THEN nacked \cup {cur[t]} ELSE nacked
    /\ astray' = IF op[t] = "insert" /\ result = "true" /\ inTxn
                 THEN astray \cup {cur[t]} ELSE astray

NoReturn == UNCHANGED <<ret, left, history>>

\* The lock_guard's scope ends together with the call.
UnlockAndReturn(t, result) == db_mutex_' = NoThread /\ Return(t, result)

\* Mutant: is_initialized_ stays set.
CloseKeepsFlag == /\ insert_stmt_' = "null"
                  /\ db_' = "null"
                  /\ inTxn' = FALSE
                  /\ pending' = {}
                  /\ UNCHANGED is_initialized_

\* close_internal(); sqlite3_close rolls back what is not committed.
close_internal == /\ insert_stmt_' = "null"
                  /\ db_' = "null"
                  /\ is_initialized_' = FALSE
                  /\ inTxn' = FALSE
                  /\ pending' = {}
-----------------------------------------------------------------------------
Init == /\ db_ = "null" /\ insert_stmt_ = "null"
        /\ db_mutex_ = NoThread
        /\ init_flag_ = "new"
        /\ is_initialized_ = FALSE /\ init_failed_ = FALSE
        /\ inTxn = FALSE /\ pending = {} /\ committed = {}
        /\ pc = [t \in Threads |-> "idle"]
        /\ op = [t \in Threads |-> "none"]
        /\ ret = [t \in Threads |-> "none"]
        /\ cur = [t \in Threads |-> 0]
        /\ left = [t \in Threads |-> <<>>]
        /\ calls = <<>>
        /\ acked = {} /\ nacked = {} /\ astray = {}
        /\ crashes = 0

\* Thread t calls o, with size rows if it is an insertion.
Call(t, o, size) ==
    /\ pc[t] = "idle"
    /\ o \in CallsOf[t]
    /\ Len(calls) < MaxCalls
    /\ calls' = Append(calls, size)
    /\ op' = [op EXCEPT ![t] = o]
    /\ ret' = [ret EXCEPT ![t] = "none"]
    /\ cur' = [cur EXCEPT ![t] = Len(calls) + 1]
    /\ left' = [left EXCEPT ![t] = [i \in 1 .. size |-> Row(Len(calls) + 1, i)]]
    /\ Goto(t, IF o = "close" THEN "close_lock" ELSE "once")
    /\ UNCHANGED <<object, db_mutex_, init_flag_, sqlite, history, crashes>>
-----------------------------------------------------------------------------
(* ensure_initialized and init_internal *)

\* std::call_once: the first caller runs init_internal, the others wait for it.
OnceEnter(t) ==
    /\ pc[t] = "once"
    /\ init_flag_ = "new"
    /\ init_flag_' = "running"
    /\ Goto(t, "init_lock")
    /\ NoReturn
    /\ UNCHANGED <<object, db_mutex_, sqlite, caller, crashes>>

OncePass(t) ==
    /\ pc[t] = "once"
    /\ init_flag_ = "done"
    /\ Goto(t, "ready_check")
    /\ NoReturn
    /\ UNCHANGED <<object, db_mutex_, init_flag_, sqlite, caller, crashes>>

\* init_internal locks, and returns at once if the engine is initialized.
InitLock(t) ==
    /\ pc[t] = "init_lock"
    /\ db_mutex_ = NoThread
    /\ db_mutex_' = IF is_initialized_ THEN NoThread ELSE t
    /\ Goto(t, IF is_initialized_ THEN "init_done" ELSE "init_open")
    /\ NoReturn
    /\ UNCHANGED <<object, init_flag_, sqlite, caller, crashes>>

\* Mutant: the early return leaves db_mutex_ locked.
InitFailsLocked(t) ==
    /\ init_failed_' = TRUE
    /\ close_internal
    /\ Goto(t, "init_done")
    /\ UNCHANGED <<db_mutex_, committed>>

\* A step of init_internal fails: close what was opened, give up the lock.
InitFails(t) ==
    /\ init_failed_' = TRUE
    /\ close_internal
    /\ db_mutex_' = NoThread
    /\ Goto(t, "init_done")
    /\ UNCHANGED committed

InitOpen(t) ==
    /\ pc[t] = "init_open"
    /\ \/ /\ db_' = "open"
          /\ init_failed_' = FALSE
          /\ Goto(t, "init_schema")
          /\ UNCHANGED <<insert_stmt_, is_initialized_, db_mutex_, sqlite>>
       \/ "open" \in Faults /\ InitFails(t)
    /\ NoReturn
    /\ UNCHANGED <<init_flag_, caller, crashes>>

\* enable_wal_mode() and create_schema(), whose statements may be repeated.
InitSchema(t) ==
    /\ pc[t] = "init_schema"
    /\ \/ /\ Goto(t, "init_prepare")
          /\ UNCHANGED <<object, db_mutex_, sqlite>>
       \/ "schema" \in Faults /\ InitFails(t)
    /\ NoReturn
    /\ UNCHANGED <<init_flag_, caller, crashes>>

InitPrepare(t) ==
    /\ pc[t] = "init_prepare"
    /\ \/ /\ insert_stmt_' = "prepared"
          /\ is_initialized_' = TRUE
          /\ db_mutex_' = NoThread
          /\ Goto(t, "init_done")
          /\ UNCHANGED <<db_, init_failed_, sqlite>>
       \/ "prepare" \in Faults /\ InitFails(t)
    /\ NoReturn
    /\ UNCHANGED <<init_flag_, caller, crashes>>

\* call_once returns: the flag is spent whether or not init_internal succeeded.
InitDone(t) ==
    /\ pc[t] = "init_done"
    /\ init_flag_' = "done"
    /\ Goto(t, "ready_check")
    /\ NoReturn
    /\ UNCHANGED <<object, db_mutex_, sqlite, caller, crashes>>

\* is_initialized_.load(), read without db_mutex_.
ReadyCheck(t) ==
    /\ pc[t] = "ready_check"
    /\ \/ /\ op[t] = "init"
          /\ Return(t, IF is_initialized_ THEN "true" ELSE "false")
       \/ /\ op[t] # "init" /\ ~is_initialized_
          /\ Return(t, "false")
       \/ /\ op[t] = "batch" /\ is_initialized_ /\ left[t] = <<>>   \* batch.empty()
          /\ Return(t, "true")
       \/ /\ op[t] # "init" /\ is_initialized_
          /\ op[t] = "batch" => left[t] # <<>>
          /\ Goto(t, "lock")
          /\ NoReturn
    /\ UNCHANGED <<object, db_mutex_, init_flag_, sqlite, caller, crashes>>

Lock(t) ==
    /\ pc[t] = "lock"
    /\ db_mutex_ = NoThread
    /\ db_mutex_' = t
    /\ Goto(t, IF op[t] = "batch" THEN "begin" ELSE op[t])
    /\ NoReturn
    /\ UNCHANGED <<object, init_flag_, sqlite, caller, crashes>>
-----------------------------------------------------------------------------
(* insert_telemetry, with the mutex held *)

\* Mutant: the row waits for a commit that nobody asks for.
InsertStepBuffered(t) ==
    /\ pc[t] = "insert"
    /\ insert_stmt_ = "prepared"
    /\ pending' = pending \cup {Head(left[t])}
    /\ UnlockAndReturn(t, "true")
    /\ UNCHANGED <<object, init_flag_, inTxn, committed, caller, crashes>>

InsertStep(t) ==
    /\ pc[t] = "insert"
    /\ insert_stmt_ = "prepared"
    /\ \/ /\ IF inTxn
             THEN pending' = pending \cup {Head(left[t])} /\ UNCHANGED committed
             ELSE committed' = committed \cup {Head(left[t])} /\ UNCHANGED pending
          /\ UnlockAndReturn(t, "true")
          /\ UNCHANGED inTxn
       \/ /\ "step" \in Faults
          /\ UnlockAndReturn(t, "false")
          /\ UNCHANGED sqlite
       \/ /\ "step_rollback" \in Faults
          /\ inTxn' = FALSE /\ pending' = {}
          /\ UnlockAndReturn(t, "false")
          /\ UNCHANGED committed
    /\ UNCHANGED <<object, init_flag_, caller, crashes>>

\* The connection was closed after ReadyCheck: sqlite3_clear_bindings gets a
\* null statement.
NullStatement(t) == pc[t] = "insert" /\ insert_stmt_ = "null"
-----------------------------------------------------------------------------
(* insert_batch, with the mutex held *)

\* BEGIN fails on a null connection and inside an open transaction.
BatchBegin(t) ==
    /\ pc[t] = "begin"
    /\ \/ /\ db_ = "open" /\ ~inTxn
          /\ inTxn' = TRUE
          /\ Goto(t, "batch_step")
          /\ NoReturn
          /\ UNCHANGED db_mutex_
       \/ /\ db_ = "null" \/ inTxn \/ "begin" \in Faults
          /\ UnlockAndReturn(t, "false")
          /\ UNCHANGED inTxn
    /\ UNCHANGED <<object, init_flag_, pending, committed, caller, crashes>>

\* Mutant: each row of a batch is committed by itself.
BatchStepAutocommit(t) ==
    /\ pc[t] = "batch_step"
    /\ left[t] # <<>>
    /\ committed' = committed \cup {Head(left[t])}
    /\ left' = [left EXCEPT ![t] = Tail(left[t])]
    /\ UNCHANGED <<object, db_mutex_, init_flag_, inTxn, pending, pc, caller, ret,
                   history, crashes>>

\* Mutant: the loop runs past the last element of the vector, and what it finds
\* there is stored as a row.
BatchStepPastEnd(t) ==
    /\ pc[t] = "batch_step"
    /\ pending' = pending \cup {IF left[t] = <<>> THEN <<>> ELSE Head(left[t])}
    /\ left' = [left EXCEPT ![t] = IF left[t] = <<>> THEN <<>> ELSE Tail(left[t])]
    /\ UNCHANGED <<object, db_mutex_, init_flag_, inTxn, committed, pc, caller, ret,
                   history, crashes>>

BatchStep(t) ==
    /\ pc[t] = "batch_step"
    /\ left[t] # <<>>
    /\ \/ /\ pending' = pending \cup {Head(left[t])}
          /\ left' = [left EXCEPT ![t] = Tail(left[t])]
          /\ UNCHANGED <<inTxn, pc>>
       \/ /\ "step" \in Faults
          /\ Goto(t, "rollback")
          /\ UNCHANGED <<inTxn, pending, left>>
       \/ /\ "step_rollback" \in Faults
          /\ inTxn' = FALSE /\ pending' = {}
          /\ Goto(t, "rollback")
          /\ UNCHANGED left
    /\ UNCHANGED <<object, db_mutex_, init_flag_, committed, caller, ret, history, crashes>>

\* Mutant: the result of COMMIT is not looked at.
BatchCommitUnchecked(t) ==
    /\ pc[t] = "batch_step"
    /\ left[t] = <<>>
    /\ \/ committed' = committed \cup pending
       \/ "commit_rollback" \in Faults /\ UNCHANGED committed
    /\ inTxn' = FALSE /\ pending' = {}
    /\ UnlockAndReturn(t, "true")
    /\ UNCHANGED <<object, init_flag_, caller, crashes>>

BatchCommit(t) ==
    /\ pc[t] = "batch_step"
    /\ left[t] = <<>>
    /\ \/ /\ committed' = committed \cup pending
          /\ inTxn' = FALSE /\ pending' = {}
          /\ UnlockAndReturn(t, "true")
       \/ /\ "commit_left_open" \in Faults
          /\ UnlockAndReturn(t, "false")
          /\ UNCHANGED sqlite
       \/ /\ "commit_rollback" \in Faults
          /\ inTxn' = FALSE /\ pending' = {}
          /\ UnlockAndReturn(t, "false")
          /\ UNCHANGED committed
    /\ UNCHANGED <<object, init_flag_, caller, crashes>>

\* Mutant: COMMIT in place of ROLLBACK.
BatchRollbackCommits(t) ==
    /\ pc[t] = "rollback"
    /\ committed' = committed \cup pending
    /\ inTxn' = FALSE /\ pending' = {}
    /\ UnlockAndReturn(t, "false")
    /\ UNCHANGED <<object, init_flag_, caller, crashes>>

BatchRollback(t) ==
    /\ pc[t] = "rollback"
    /\ inTxn' = FALSE /\ pending' = {}
    /\ UnlockAndReturn(t, "false")
    /\ UNCHANGED <<object, init_flag_, committed, caller, crashes>>
-----------------------------------------------------------------------------
(* query_telemetry and purge_older_than take the lock and do nothing: the  *)
(* query returns an empty vector, the purge true.                          *)

QueryBody(t) ==
    /\ pc[t] = "query"
    /\ UnlockAndReturn(t, "true")
    /\ UNCHANGED <<object, init_flag_, sqlite, caller, crashes>>

PurgeBody(t) ==
    /\ pc[t] = "purge"
    /\ UnlockAndReturn(t, "true")
    /\ UNCHANGED <<object, init_flag_, sqlite, caller, crashes>>
-----------------------------------------------------------------------------
(* close, which the destructor calls too *)

CloseLock(t) ==
    /\ pc[t] = "close_lock"
    /\ db_mutex_ = NoThread
    /\ db_mutex_' = t
    /\ Goto(t, "close")
    /\ NoReturn
    /\ UNCHANGED <<object, init_flag_, sqlite, caller, crashes>>

CloseBody(t) ==
    /\ pc[t] = "close"
    /\ close_internal
    /\ init_failed_' = FALSE
    /\ UnlockAndReturn(t, "none")
    /\ UNCHANGED <<init_flag_, committed, caller, crashes>>
-----------------------------------------------------------------------------
\* The process dies and is started again: everything but the file is new.
ProcessDies ==
    /\ crashes' = crashes + 1
    /\ db_' = "null" /\ insert_stmt_' = "null"
    /\ db_mutex_' = NoThread
    /\ init_flag_' = "new"
    /\ is_initialized_' = FALSE /\ init_failed_' = FALSE
    /\ inTxn' = FALSE /\ pending' = {}
    /\ pc' = [t \in Threads |-> "idle"]
    /\ op' = [t \in Threads |-> "none"]
    /\ ret' = [t \in Threads |-> "none"]
    /\ cur' = [t \in Threads |-> 0]
    /\ left' = [t \in Threads |-> <<>>]
    /\ UNCHANGED <<committed, calls, history>>

Crash == crashes < MaxCrashes /\ ProcessDies

\* What a null statement leads to.
NullDereference(t) == NullStatement(t) /\ ProcessDies

Locking(t) == InitLock(t) \/ Lock(t) \/ CloseLock(t)

Running(t) ==
    \/ OnceEnter(t) \/ OncePass(t)
    \/ InitOpen(t) \/ InitSchema(t) \/ InitPrepare(t) \/ InitDone(t)
    \/ ReadyCheck(t)
    \/ InsertStep(t)
    \/ BatchBegin(t) \/ BatchStep(t) \/ BatchCommit(t) \/ BatchRollback(t)
    \/ QueryBody(t) \/ PurgeBody(t)
    \/ CloseBody(t)

Engine(t) == Locking(t) \/ Running(t)

Calling(t) == \/ \E o \in AllOps \ Inserting : Call(t, o, 0)
              \/ Call(t, "insert", 1)
              \/ \E size \in 0 .. MaxBatch : Call(t, "batch", size)

Next == Crash \/ \E t \in Threads : Calling(t) \/ Engine(t) \/ NullDereference(t)

Spec == Init /\ [][Next]_vars

\* A runnable thread runs and a thread that competes for db_mutex_ gets it in
\* the end; nobody has to call, and SQLite need not fail.
Fairness == \A t \in Threads : /\ WF_vars(Running(t) \/ NullDereference(t))
                               /\ SF_vars(Locking(t))

FairSpec == Spec /\ Fairness
-----------------------------------------------------------------------------
(* Properties *)

Holding == {"init_open", "init_schema", "init_prepare", "insert", "begin",
            "batch_step", "rollback", "query", "purge", "close"}
Labels == Holding \cup {"idle", "once", "init_lock", "init_done", "ready_check",
                        "lock", "close_lock"}

\* Every variable of the engine, of SQLite and of the callers keeps its type.
TypeOK ==
    /\ db_ \in {"null", "open"} /\ insert_stmt_ \in {"null", "prepared"}
    /\ db_mutex_ \in Threads \cup {NoThread}
    /\ init_flag_ \in {"new", "running", "done"}
    /\ is_initialized_ \in BOOLEAN /\ init_failed_ \in BOOLEAN
    /\ inTxn \in BOOLEAN
    /\ pc \in [Threads -> Labels]
    /\ op \in [Threads -> AllOps \cup {"none"}]
    /\ ret \in [Threads -> {"none", "true", "false"}]
    /\ cur \in [Threads -> Nat]
    /\ left \in [Threads -> Seq(Nat \X Nat)]
    /\ calls \in Seq(Nat)
    /\ pending \subseteq Nat \X Nat
    /\ committed \subseteq Nat \X Nat
    /\ acked \subseteq Nat /\ nacked \subseteq Nat /\ astray \subseteq acked
    /\ crashes \in Nat

\* Outside the lock the flag and the two handles agree: whoever takes db_mutex_
\* and still finds is_initialized_ set finds an open connection and a prepared
\* statement, after any mixture of failed initializations and closes.
HandlesAgree ==
    db_mutex_ = NoThread =>
        /\ is_initialized_ <=> insert_stmt_ = "prepared"
        /\ is_initialized_ <=> db_ = "open"

\* A call that returned false left no row behind and never will, so that a
\* caller may retry: not the rows of a batch whose COMMIT failed, not those
\* that an unfinished transaction still holds.
RefusedNeverStored ==
    \A n \in nacked : RowsOf(n) \cap committed = {}

\* The file holds all rows of a batch or none, through failing steps, failing
\* commits, closes and crashes between any two SQLite calls.
BatchAllOrNothing ==
    \A n \in DOMAIN calls : RowsOf(n) \subseteq committed \/ RowsOf(n) \cap committed = {}

\* Every row of a call that returned true is in the database file, and a crash
\* or a close does not take it away.
AckedIsDurable == \A n \in acked : RowsOf(n) \subseteq committed

\* The only acknowledged rows that a close, a failure or a crash can take away
\* are those inserted inside a transaction that a failed COMMIT left open.
OnlyLeftOpenLoses == \A n \in acked \ astray : RowsOf(n) \subseteq committed

\* insert_telemetry never hands SQLite a statement that close() finalized.
NoNullStatement == \A t \in Threads : ~NullStatement(t)

\* Every call returns: call_once and db_mutex_ never wait for each other.
CallsReturn == \A t \in Threads : pc[t] # "idle" ~> pc[t] = "idle"

Durable == INSTANCE DurableStore WITH Sizes <- 0 .. MaxBatch \cup {1}

\* The engine implements a durable store but for single insertions into a
\* transaction that a failed COMMIT left open: the file grows only by all the rows
\* of one call, in the step that decides that this call returns true, and no
\* failure, close or crash takes a row out of it or answers a call twice.
ImplementsStore == Durable!StoreSpec

\* Used as main.cpp and the node use it, without batches, the engine implements
\* a durable store without exception.
ImplementsSoundStore == Durable!SoundSpec
=============================================================================
