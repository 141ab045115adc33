----------------------- MODULE UtilsConcurrentQueue -----------------------
(***************************************************************************)
(* utils::ConcurrentQueue<T>, the blocking bounded queue of                *)
(* utils/concurrent_queue.hpp: one mutex, two condition variables, and a   *)
(* shutdown flag.  Threads call push, pop, pop_for and shutdown; every     *)
(* step between two points where another thread can interfere is an        *)
(* action.  A thread that waits on a condition variable is one whose       *)
(* program counter is in the corresponding wait; notifying it moves it to  *)
(* the re-acquisition of the mutex, after which it evaluates its predicate *)
(* again.  size() and empty() change nothing and are left out.             *)
(***************************************************************************)
EXTENDS Integers, Sequences, FiniteSets

CONSTANTS Producers,      \* threads that call push
          Consumers,      \* threads that call pop and pop_for
          Closers,        \* threads that call shutdown
          NoThread,       \* the mutex is free
          max_capacity_,  \* the constructor's argument
          MaxPushes       \* bound on the calls of push in a behaviour

Threads == Producers \cup Consumers \cup Closers

ASSUME QueueAssumption == /\ IsFiniteSet(Threads)
                          /\ NoThread \notin Threads
                          /\ max_capacity_ \in Nat
                          /\ MaxPushes \in Nat

VARIABLES queue_,              \* std::queue<T>, front first
          mutex_,              \* the thread that holds the mutex, or NoThread
          shutdown_requested_,
          pc,                  \* where each thread is
          item,                \* the item a thread is pushing or has popped
          timer,               \* pop_for's deadline: "off", "armed", "expired"
          pushes,              \* calls of push so far; names the items
          accepted,            \* history: items inserted, in order
          delivered            \* history: items moved out, in order

vars == <<queue_, mutex_, shutdown_requested_, pc, item, timer, pushes,
          accepted, delivered>>

NoItem == 0   \* no item, and what std::move leaves in a slot
Items == 1 .. MaxPushes

\* The wait sets of the two condition variables.
cv_not_full_  == {t \in Threads : pc[t] = "push_wait"}
cv_not_empty_ == {t \in Threads : pc[t] = "pop_wait"}

Goto(t, label) == pc' = [pc EXCEPT ![t] = label]

\* Mutant: the notification is forgotten.
NotifyNobody(t, waiters, wake) == Goto(t, "idle")

\* notify_one: t goes on to label, and one waiter, if there is one, wakes.
NotifyOne(t, waiters, wake) ==
    \/ /\ waiters = {}
       /\ Goto(t, "idle")
    \/ \E w \in waiters : pc' = [pc EXCEPT ![t] = "idle", ![w] = wake]

\* Mutant: notify_one where notify_all is needed.
NotifyOneOfAll(t, label, waiters, wake) ==
    \/ /\ waiters = {}
       /\ Goto(t, label)
    \/ \E w \in waiters : pc' = [pc EXCEPT ![t] = label, ![w] = wake]

\* notify_all: every waiter wakes.
NotifyAll(t, label, waiters, wake) ==
    pc' = [u \in Threads |-> IF u = t THEN label
                             ELSE IF u \in waiters THEN wake ELSE pc[u]]

Acquire(t, from, to) == /\ pc[t] = from
                        /\ mutex_ = NoThread
                        /\ mutex_' = t
                        /\ Goto(t, to)

Release(t, from, to) == /\ pc[t] = from
                        /\ mutex_' = NoThread
                        /\ Goto(t, to)
-----------------------------------------------------------------------------
Init == /\ queue_ = <<>>
        /\ mutex_ = NoThread
        /\ shutdown_requested_ = FALSE
        /\ pc = [t \in Threads |-> "idle"]
        /\ item = [t \in Threads |-> NoItem]
        /\ timer = [t \in Threads |-> "off"]
        /\ pushes = 0
        /\ accepted = <<>>
        /\ delivered = <<>>
-----------------------------------------------------------------------------
(* push *)

PushCall(t) ==
    /\ t \in Producers
    /\ pc[t] = "idle"
    /\ pushes < MaxPushes
    /\ pushes' = pushes + 1
    /\ item' = [item EXCEPT ![t] = pushes + 1]
    /\ Goto(t, "push_lock")
    /\ UNCHANGED <<queue_, mutex_, shutdown_requested_, timer, accepted, delivered>>

PushLock(t) ==
    /\ Acquire(t, "push_lock", "push_check")
    /\ UNCHANGED <<queue_, shutdown_requested_, item, timer, pushes, accepted, delivered>>

\* Mutant: one item too many.
PushReadyOffByOne == Len(queue_) <= max_capacity_ \/ shutdown_requested_

PushReady == Len(queue_) < max_capacity_ \/ shutdown_requested_

\* Mutant: the argument is moved from before the wait.
PushWaitMoves(t) ==
    /\ ~PushReady
    /\ Release(t, "push_check", "push_wait")
    /\ item' = [item EXCEPT ![t] = NoItem]
    /\ UNCHANGED <<queue_, shutdown_requested_, timer, pushes, accepted, delivered>>

\* The predicate is false: release the mutex and join the wait set, atomically.
PushWait(t) ==
    /\ ~PushReady
    /\ Release(t, "push_check", "push_wait")
    /\ UNCHANGED <<queue_, shutdown_requested_, item, timer, pushes, accepted, delivered>>

\* if (shutdown_requested_) return false
PushRefused(t) ==
    /\ PushReady /\ shutdown_requested_
    /\ Release(t, "push_check", "idle")
    /\ item' = [item EXCEPT ![t] = NoItem]
    /\ UNCHANGED <<queue_, shutdown_requested_, timer, pushes, accepted, delivered>>

PushAdmitted(t) ==
    /\ pc[t] = "push_check"
    /\ PushReady /\ ~shutdown_requested_
    /\ Goto(t, "push_insert")
    /\ UNCHANGED <<queue_, mutex_, shutdown_requested_, item, timer, pushes, accepted, delivered>>

\* queue_.push(std::move(item))
PushInsert(t) ==
    /\ pc[t] = "push_insert"
    /\ queue_' = Append(queue_, item[t])
    /\ accepted' = Append(accepted, item[t])
    /\ item' = [item EXCEPT ![t] = NoItem]
    /\ Goto(t, "push_unlock")
    /\ UNCHANGED <<mutex_, shutdown_requested_, timer, pushes, delivered>>

PushUnlock(t) ==
    /\ Release(t, "push_unlock", "push_notify")
    /\ UNCHANGED <<queue_, shutdown_requested_, item, timer, pushes, accepted, delivered>>

\* Mutant: notify only when the queue has become non-empty.
PushNotifyFirst(t) ==
    /\ pc[t] = "push_notify"
    /\ IF Len(queue_) = 1 THEN NotifyOne(t, cv_not_empty_, "pop_lock") ELSE Goto(t, "idle")
    /\ UNCHANGED <<queue_, mutex_, shutdown_requested_, item, timer, pushes, accepted, delivered>>

\* cv_not_empty_.notify_one(); return true
PushNotify(t) ==
    /\ pc[t] = "push_notify"
    /\ NotifyOne(t, cv_not_empty_, "pop_lock")
    /\ UNCHANGED <<queue_, mutex_, shutdown_requested_, item, timer, pushes, accepted, delivered>>
-----------------------------------------------------------------------------
(* pop and pop_for; they differ only in the deadline *)

PopCall(t, deadline) ==
    /\ t \in Consumers
    /\ pc[t] = "idle"
    /\ timer' = [timer EXCEPT ![t] = deadline]
    /\ Goto(t, "pop_lock")
    /\ UNCHANGED <<queue_, mutex_, shutdown_requested_, item, pushes, accepted, delivered>>

PopLock(t) ==
    /\ Acquire(t, "pop_lock", "pop_check")
    /\ UNCHANGED <<queue_, shutdown_requested_, item, timer, pushes, accepted, delivered>>

PopReady == queue_ # <<>> \/ shutdown_requested_

\* Mutant: wait again although the deadline has passed.
PopWaitForever(t) ==
    /\ ~PopReady
    /\ Release(t, "pop_check", "pop_wait")
    /\ UNCHANGED <<queue_, shutdown_requested_, item, timer, pushes, accepted, delivered>>

PopWait(t) ==
    /\ ~PopReady /\ timer[t] # "expired"
    /\ Release(t, "pop_check", "pop_wait")
    /\ UNCHANGED <<queue_, shutdown_requested_, item, timer, pushes, accepted, delivered>>

\* Nothing to take and either shutting down or out of time: return nullopt.
PopEmptyHanded(t) ==
    /\ queue_ = <<>>
    /\ shutdown_requested_ \/ timer[t] = "expired"
    /\ Release(t, "pop_check", "idle")
    /\ timer' = [timer EXCEPT ![t] = "off"]
    /\ UNCHANGED <<queue_, shutdown_requested_, item, pushes, accepted, delivered>>

PopAdmitted(t) ==
    /\ pc[t] = "pop_check"
    /\ queue_ # <<>>
    /\ Goto(t, "pop_front")
    /\ UNCHANGED <<queue_, mutex_, shutdown_requested_, item, timer, pushes, accepted, delivered>>

\* T item = std::move(queue_.front()): the slot stays, its content is gone.
PopFront(t) ==
    /\ pc[t] = "pop_front"
    /\ item' = [item EXCEPT ![t] = Head(queue_)]
    /\ queue_' = [queue_ EXCEPT ![1] = NoItem]
    /\ delivered' = Append(delivered, Head(queue_))
    /\ Goto(t, "pop_pop")
    /\ UNCHANGED <<mutex_, shutdown_requested_, timer, pushes, accepted>>

\* Mutant: the moved-from slot stays in the queue.
PopPopForgets(t) ==
    /\ pc[t] = "pop_pop"
    /\ Goto(t, "pop_unlock")
    /\ UNCHANGED <<queue_, mutex_, shutdown_requested_, item, timer, pushes, accepted, delivered>>

\* queue_.pop()
PopPop(t) ==
    /\ pc[t] = "pop_pop"
    /\ queue_' = Tail(queue_)
    /\ Goto(t, "pop_unlock")
    /\ UNCHANGED <<mutex_, shutdown_requested_, item, timer, pushes, accepted, delivered>>

PopUnlock(t) ==
    /\ Release(t, "pop_unlock", "pop_notify")
    /\ UNCHANGED <<queue_, shutdown_requested_, item, timer, pushes, accepted, delivered>>

\* Mutant: notify only when the queue has stopped being full.
PopNotifyFirst(t) ==
    /\ pc[t] = "pop_notify"
    /\ IF Len(queue_) = max_capacity_ - 1
       THEN NotifyOne(t, cv_not_full_, "push_lock") ELSE Goto(t, "idle")
    /\ item' = [item EXCEPT ![t] = NoItem]
    /\ timer' = [timer EXCEPT ![t] = "off"]
    /\ UNCHANGED <<queue_, mutex_, shutdown_requested_, pushes, accepted, delivered>>

\* cv_not_full_.notify_one(); return item
PopNotify(t) ==
    /\ pc[t] = "pop_notify"
    /\ NotifyOne(t, cv_not_full_, "push_lock")
    /\ item' = [item EXCEPT ![t] = NoItem]
    /\ timer' = [timer EXCEPT ![t] = "off"]
    /\ UNCHANGED <<queue_, mutex_, shutdown_requested_, pushes, accepted, delivered>>

\* wait_for's deadline passes; its predicate is evaluated once more.
PopTimeout(t) ==
    /\ pc[t] = "pop_wait"
    /\ timer[t] = "armed"
    /\ timer' = [timer EXCEPT ![t] = "expired"]
    /\ Goto(t, "pop_lock")
    /\ UNCHANGED <<queue_, mutex_, shutdown_requested_, item, pushes, accepted, delivered>>

\* A condition variable may wake a waiter that nobody notified.
SpuriousWakeup(t) ==
    /\ \/ pc[t] = "push_wait" /\ Goto(t, "push_lock")
       \/ pc[t] = "pop_wait" /\ Goto(t, "pop_lock")
    /\ UNCHANGED <<queue_, mutex_, shutdown_requested_, item, timer, pushes, accepted, delivered>>
-----------------------------------------------------------------------------
(* shutdown, which the destructor calls too *)

ShutdownCall(t) ==
    /\ t \in Closers
    /\ pc[t] = "idle"
    /\ Goto(t, "shutdown_lock")
    /\ UNCHANGED <<queue_, mutex_, shutdown_requested_, item, timer, pushes, accepted, delivered>>

ShutdownLock(t) ==
    /\ Acquire(t, "shutdown_lock", "shutdown_set")
    /\ UNCHANGED <<queue_, shutdown_requested_, item, timer, pushes, accepted, delivered>>

ShutdownSet(t) ==
    /\ Release(t, "shutdown_set", "shutdown_notify_empty")
    /\ shutdown_requested_' = TRUE
    /\ UNCHANGED <<queue_, item, timer, pushes, accepted, delivered>>

ShutdownNotifyEmpty(t) ==
    /\ pc[t] = "shutdown_notify_empty"
    /\ NotifyAll(t, "shutdown_notify_full", cv_not_empty_, "pop_lock")
    /\ UNCHANGED <<queue_, mutex_, shutdown_requested_, item, timer, pushes, accepted, delivered>>

ShutdownNotifyFull(t) ==
    /\ pc[t] = "shutdown_notify_full"
    /\ NotifyAll(t, "idle", cv_not_full_, "push_lock")
    /\ UNCHANGED <<queue_, mutex_, shutdown_requested_, item, timer, pushes, accepted, delivered>>
-----------------------------------------------------------------------------
Locking(t) == PushLock(t) \/ PopLock(t) \/ ShutdownLock(t)

\* Steps a running thread takes inside a call without needing the mutex free.
Running(t) ==
    \/ PushWait(t) \/ PushRefused(t) \/ PushAdmitted(t)
    \/ PushInsert(t) \/ PushUnlock(t) \/ PushNotify(t)
    \/ PopWait(t) \/ PopEmptyHanded(t) \/ PopAdmitted(t)
    \/ PopFront(t) \/ PopPop(t) \/ PopUnlock(t) \/ PopNotify(t)
    \/ ShutdownSet(t) \/ ShutdownNotifyEmpty(t) \/ ShutdownNotifyFull(t)

Calling(t) == \/ PushCall(t)
              \/ PopCall(t, "off")      \* pop
              \/ PopCall(t, "armed")    \* pop_for
              \/ ShutdownCall(t)

Next == \E t \in Threads : \/ Calling(t) \/ Locking(t) \/ Running(t)
                           \/ PopTimeout(t) \/ SpuriousWakeup(t)

Spec == Init /\ [][Next]_vars

\* A runnable thread runs; a thread that competes for the mutex is not passed
\* over for ever; the deadline of wait_for is absolute, so a thread that keeps
\* going back to its wait finds it passed.  Nobody is obliged to call anything
\* and no spurious wake-up is promised.
Fairness == \A t \in Threads : /\ WF_vars(Running(t))
                               /\ SF_vars(Locking(t))
                               /\ SF_vars(PopTimeout(t))

FairSpec == Spec /\ Fairness
-----------------------------------------------------------------------------
(* Properties *)

Critical == {"push_check", "push_insert", "push_unlock", "pop_check",
             "pop_front", "pop_pop", "pop_unlock", "shutdown_set"}

Labels == Critical \cup
          {"idle", "push_lock", "push_wait", "push_notify",
           "pop_lock", "pop_wait", "pop_notify",
           "shutdown_lock", "shutdown_notify_empty", "shutdown_notify_full"}

\* Every variable of the queue and of its callers keeps its type.
TypeOK == /\ queue_ \in Seq(Items \cup {NoItem})
          /\ mutex_ \in Threads \cup {NoThread}
          /\ shutdown_requested_ \in BOOLEAN
          /\ pc \in [Threads -> Labels]
          /\ item \in [Threads -> Items \cup {NoItem}]
          /\ timer \in [Threads -> {"off", "armed", "expired"}]
          /\ pushes \in 0 .. MaxPushes
          /\ accepted \in Seq(Items)
          /\ delivered \in Seq(Items \cup {NoItem})

\* The items that are in the queue and have not been moved out of it.
Undelivered == IF \E t \in Threads : pc[t] = "pop_pop" THEN Tail(queue_) ELSE queue_

\* Whatever threads interleave, what was accepted is what was delivered
\* followed by what is still queued: no item is lost, duplicated, reordered
\* or handed out after it was moved from (push and pop hold mutex_ from the
\* test of the predicate to the change of queue_).
ExactlyOnceInOrder == accepted = delivered \o Undelivered

At(S) == {t \in Threads : pc[t] \in S}

\* While a consumer waits on cv_not_empty_, every queued item has a thread that
\* will take it or has still to notify: notify_one after the unlock, barging
\* consumers and expiring deadlines never leave a waiter asleep over an item.
NoLostWakeupOfConsumer ==
    cv_not_empty_ # {} =>
        Len(queue_) <= Cardinality(At({"push_unlock", "push_notify"}))
                       + Cardinality(At({"pop_lock", "pop_check", "pop_front", "pop_pop"}))

\* While a producer waits on cv_not_full_ and the queue is open, every free slot
\* has a producer on its way to it or a consumer that has still to notify.
NoLostWakeupOfProducer ==
    cv_not_full_ # {} /\ ~shutdown_requested_ =>
        max_capacity_ - Len(queue_)
            <= Cardinality(At({"pop_unlock", "pop_notify"}))
               + Cardinality(At({"push_lock", "push_check", "push_insert"}))

\* Once shutdown is requested, a thread still in a wait set is one that a call
\* of shutdown has yet to notify; nobody enters a wait any more.
ShutdownReachesWaiters ==
    shutdown_requested_ =>
        /\ cv_not_empty_ # {} => At({"shutdown_notify_empty"}) # {}
        /\ cv_not_full_ # {} =>
               At({"shutdown_notify_empty", "shutdown_notify_full"}) # {}

\* shutdown "unblock[s] all waiting threads": every call that is under way when
\* shutdown is requested, and every later one, returns.
ShutdownUnblocks ==
    \A t \in Threads : shutdown_requested_ /\ pc[t] # "idle" ~> pc[t] = "idle"

\* pop_for returns, with or without an item, however the others behave.
PopForReturns ==
    \A t \in Consumers : timer[t] = "armed" ~> timer[t] = "off"

\* A consumer does not sleep for ever beside a non-empty queue, nor a producer
\* beside one with room.
WaitersServed ==
    /\ queue_ # <<>> /\ cv_not_empty_ # {} ~> queue_ = <<>> \/ cv_not_empty_ = {}
    /\ Len(queue_) < max_capacity_ /\ cv_not_full_ # {}
           ~> Len(queue_) >= max_capacity_ \/ cv_not_full_ = {}

Fifo == INSTANCE BoundedFifo WITH Capacity <- max_capacity_,
                                  closed <- shutdown_requested_

\* The queue implements the bounded FIFO: the move out of the front slot is a
\* delivery, the insertion an acceptance, and there is none after shutdown.
ImplementsFifo == Fifo!FifoSpec
=============================================================================
