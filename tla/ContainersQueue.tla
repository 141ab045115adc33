--------------------------- MODULE ContainersQueue ---------------------------
(***************************************************************************)
(* containers::ConcurrentQueue<T>, the non-blocking bounded queue of the   *)
(* node.  push and pop hold the mutex from entry to return and nobody      *)
(* waits on cv_pop_, so that each call is one indivisible change of the    *)
(* queue: the operators give its outcome.                                  *)
(***************************************************************************)
EXTENDS Integers, Sequences

CONSTANT max_capacity_

ASSUME CapacityAssumption == max_capacity_ \in Nat

\* Mutant: the bound is missed by one.
PushFitsOver(queue) == Len(queue) <= max_capacity_

\* push refuses an item when the queue is full.
PushFits(queue) == Len(queue) < max_capacity_
push(queue, item) == IF PushFits(queue) THEN Append(queue, item) ELSE queue

\* Mutant: front() without pop().
pop_forgets(queue) == queue

\* pop on a queue that is not empty: what it returns and what it leaves.
popped(queue) == Head(queue)
pop(queue) == Tail(queue)
=============================================================================
