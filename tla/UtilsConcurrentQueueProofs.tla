-------------------- MODULE UtilsConcurrentQueueProofs --------------------
(***************************************************************************)
(* Proofs about utils::ConcurrentQueue for every number of threads, every  *)
(* capacity and every number of calls.                                     *)
(***************************************************************************)
EXTENDS UtilsConcurrentQueue, SequenceTheorems, FiniteSetTheorems, TLAPS

\* The threads inside the critical section are the holder of mutex_ and
\* nobody else.
MutexInv == \A t \in Threads : pc[t] \in Critical <=> mutex_ = t

\* A thread inside push carries its item until it has inserted it.
ItemInv == \A t \in Threads :
    pc[t] \in {"push_lock", "push_check", "push_wait", "push_insert"} => item[t] \in Items

\* What a thread tested under the lock still holds when it acts on it.
TestedInv == \A t \in Threads :
    /\ pc[t] = "push_insert" => Len(queue_) < max_capacity_ /\ ~shutdown_requested_
    /\ pc[t] \in {"pop_front", "pop_pop"} => queue_ # <<>>

IInv == TypeOK /\ MutexInv /\ ItemInv /\ TestedInv /\ ExactlyOnceInOrder
-----------------------------------------------------------------------------
\* A queue just constructed, and its callers, have their types.
LEMMA InitTypeOK == Init => TypeOK
<1> SUFFICES ASSUME Init PROVE TypeOK
    OBVIOUS
<1>1. /\ queue_ \in Seq(Items \cup {NoItem})
      /\ accepted \in Seq(Items)
      /\ delivered \in Seq(Items \cup {NoItem})
    BY EmptySeq DEF Init
<1>2. /\ pc \in [Threads -> Labels]
      /\ item \in [Threads -> Items \cup {NoItem}]
      /\ timer \in [Threads -> {"off", "armed", "expired"}]
    BY DEF Init, Labels
<1>3. /\ mutex_ \in Threads \cup {NoThread}
      /\ shutdown_requested_ \in BOOLEAN
    BY DEF Init
<1>4. pushes \in 0 .. MaxPushes
    BY QueueAssumption DEF Init
<1> QED BY <1>1, <1>2, <1>3, <1>4 DEF TypeOK

\* No step takes a variable out of its type: a pusher inserts a real item, and
\* pop finds a front slot.
LEMMA TypeStep == TypeOK /\ ItemInv /\ TestedInv /\ [Next]_vars => TypeOK'
<1> SUFFICES ASSUME TypeOK, ItemInv, TestedInv, [Next]_vars
             PROVE  TypeOK'
    OBVIOUS
<1> USE DEF TypeOK
<1>1. CASE UNCHANGED vars
    BY <1>1 DEF vars
<1>2. ASSUME NEW t \in Threads, PushCall(t)
      PROVE  TypeOK'
    BY <1>2, QueueAssumption DEF PushCall, Goto, Labels, Critical, Items
<1>3. ASSUME NEW t \in Threads, PopCall(t, "off") \/ PopCall(t, "armed") \/ ShutdownCall(t)
      PROVE  TypeOK'
    BY <1>3 DEF PopCall, ShutdownCall, Goto, Labels
<1>4. ASSUME NEW t \in Threads, Locking(t)
      PROVE  TypeOK'
    BY <1>4 DEF Locking, PushLock, PopLock, ShutdownLock, Acquire, Goto, Labels, Critical
<1>5. ASSUME NEW t \in Threads, Running(t)
      PROVE  TypeOK'
  <2>1. CASE PushWait(t) \/ PushRefused(t) \/ PushAdmitted(t) \/ PushUnlock(t)
      BY <2>1 DEF PushWait, PushRefused, PushAdmitted, PushUnlock, Release, Goto,
                  Labels, Critical
  <2>2. CASE PushInsert(t)
    <3>1. item[t] \in Items
        BY <2>2 DEF PushInsert, ItemInv
    <3>2. /\ queue_' \in Seq(Items \cup {NoItem})
          /\ accepted' \in Seq(Items)
        BY <2>2, <3>1, AppendProperties DEF PushInsert
    <3> QED BY <2>2, <3>2 DEF PushInsert, Goto, Labels, Critical
  <2>3. CASE PushNotify(t)
      BY <2>3 DEF PushNotify, NotifyOne, Goto, cv_not_empty_, Labels
  <2>4. CASE PopWait(t) \/ PopEmptyHanded(t) \/ PopAdmitted(t) \/ PopUnlock(t)
      BY <2>4 DEF PopWait, PopEmptyHanded, PopAdmitted, PopUnlock, Release, Goto,
                  Labels, Critical
  <2>5. CASE PopFront(t)
    <3>1. queue_ # <<>>
        BY <2>5 DEF PopFront, TestedInv
    <3>2. Head(queue_) \in Items \cup {NoItem}
        BY <3>1, HeadTailProperties
    <3>3. 1 \in 1 .. Len(queue_)
        BY <3>1, EmptySeq
    <3>4. queue_' \in Seq(Items \cup {NoItem})
        BY <2>5, <3>3, ExceptSeq DEF PopFront
    <3>5. delivered' \in Seq(Items \cup {NoItem})
        BY <2>5, <3>2, AppendProperties DEF PopFront
    <3> QED BY <2>5, <3>2, <3>4, <3>5 DEF PopFront, Goto, Labels, Critical
  <2>6. CASE PopPop(t)
    <3>1. queue_' \in Seq(Items \cup {NoItem})
        BY <2>6, HeadTailProperties DEF PopPop, TestedInv
    <3> QED BY <2>6, <3>1 DEF PopPop, Goto, Labels, Critical
  <2>7. CASE PopNotify(t)
      BY <2>7 DEF PopNotify, NotifyOne, Goto, cv_not_full_, Labels
  <2>8. CASE ShutdownSet(t)
      BY <2>8 DEF ShutdownSet, Release, Goto, Labels
  <2>9. CASE ShutdownNotifyEmpty(t) \/ ShutdownNotifyFull(t)
      BY <2>9 DEF ShutdownNotifyEmpty, ShutdownNotifyFull, NotifyAll, Labels
  <2> QED BY <1>5, <2>1, <2>2, <2>3, <2>4, <2>5, <2>6, <2>7, <2>8, <2>9 DEF Running
<1>6. ASSUME NEW t \in Threads, PopTimeout(t) \/ SpuriousWakeup(t)
      PROVE  TypeOK'
    BY <1>6 DEF PopTimeout, SpuriousWakeup, Goto, Labels
<1> QED BY <1>1, <1>2, <1>3, <1>4, <1>5, <1>6 DEF Next, Calling
-----------------------------------------------------------------------------
\* Who holds mutex_ is who is in the critical section, through every step.
LEMMA MutexStep == TypeOK /\ MutexInv /\ [Next]_vars => MutexInv'
<1> SUFFICES ASSUME TypeOK, MutexInv, [Next]_vars
             PROVE  MutexInv'
    OBVIOUS
<1>0. pc \in [Threads -> Labels] /\ NoThread \notin Threads
    BY QueueAssumption DEF TypeOK
<1> USE DEF MutexInv
<1>1. CASE UNCHANGED vars
    BY <1>1 DEF vars
<1>2. ASSUME NEW t \in Threads, Calling(t)
      PROVE  MutexInv'
    BY <1>0, <1>2 DEF Calling, PushCall, PopCall, ShutdownCall, Goto, Critical
<1>3. ASSUME NEW t \in Threads, Locking(t)
      PROVE  MutexInv'
    BY <1>0, <1>3 DEF Locking, PushLock, PopLock, ShutdownLock, Acquire, Goto, Critical
<1>4. ASSUME NEW t \in Threads, Running(t)
      PROVE  MutexInv'
  <2>1. CASE PushWait(t) \/ PushRefused(t) \/ PushUnlock(t)
      BY <1>0, <2>1 DEF PushWait, PushRefused, PushUnlock, Release, Goto, Critical
  <2>2. CASE PushAdmitted(t) \/ PushInsert(t)
      BY <1>0, <2>2 DEF PushAdmitted, PushInsert, Goto, Critical
  <2>3. CASE PushNotify(t)
      BY <1>0, <2>3 DEF PushNotify, NotifyOne, Goto, cv_not_empty_, Critical
  <2>4. CASE PopWait(t) \/ PopEmptyHanded(t) \/ PopUnlock(t)
      BY <1>0, <2>4 DEF PopWait, PopEmptyHanded, PopUnlock, Release, Goto, Critical
  <2>5. CASE PopAdmitted(t) \/ PopFront(t) \/ PopPop(t)
      BY <1>0, <2>5 DEF PopAdmitted, PopFront, PopPop, Goto, Critical
  <2>6. CASE PopNotify(t)
      BY <1>0, <2>6 DEF PopNotify, NotifyOne, Goto, cv_not_full_, Critical
  <2>7. CASE ShutdownSet(t)
      BY <1>0, <2>7 DEF ShutdownSet, Release, Goto, Critical
  <2>8. CASE ShutdownNotifyEmpty(t)
      BY <1>0, <2>8 DEF ShutdownNotifyEmpty, NotifyAll, cv_not_empty_, Critical
  <2>9. CASE ShutdownNotifyFull(t)
      BY <1>0, <2>9 DEF ShutdownNotifyFull, NotifyAll, cv_not_full_, Critical
  <2> QED BY <1>4, <2>1, <2>2, <2>3, <2>4, <2>5, <2>6, <2>7, <2>8, <2>9 DEF Running
<1>5. ASSUME NEW t \in Threads, PopTimeout(t) \/ SpuriousWakeup(t)
      PROVE  MutexInv'
    BY <1>0, <1>5 DEF PopTimeout, SpuriousWakeup, Goto, Critical
<1> QED BY <1>1, <1>2, <1>3, <1>4, <1>5 DEF Next
-----------------------------------------------------------------------------
\* push keeps its argument through waits, time-outs and wake-ups.
LEMMA ItemStep == TypeOK /\ ItemInv /\ [Next]_vars => ItemInv'
<1> SUFFICES ASSUME TypeOK, ItemInv, [Next]_vars
             PROVE  ItemInv'
    OBVIOUS
<1>0. /\ pc \in [Threads -> Labels]
      /\ item \in [Threads -> Items \cup {NoItem}]
      /\ pushes \in 0 .. MaxPushes
    BY DEF TypeOK
<1> USE DEF ItemInv
<1>1. CASE UNCHANGED vars
    BY <1>1 DEF vars
<1>2. ASSUME NEW t \in Threads, PushCall(t)
      PROVE  ItemInv'
    BY <1>0, <1>2, QueueAssumption DEF PushCall, Goto, Items
<1>3. ASSUME NEW t \in Threads, PopCall(t, "off") \/ PopCall(t, "armed") \/ ShutdownCall(t)
      PROVE  ItemInv'
    BY <1>0, <1>3 DEF PopCall, ShutdownCall, Goto
<1>4. ASSUME NEW t \in Threads, Locking(t)
      PROVE  ItemInv'
    BY <1>0, <1>4 DEF Locking, PushLock, PopLock, ShutdownLock, Acquire, Goto
<1>5. ASSUME NEW t \in Threads, Running(t)
      PROVE  ItemInv'
  <2>1. CASE PushWait(t) \/ PushRefused(t) \/ PushAdmitted(t) \/ PushInsert(t) \/ PushUnlock(t)
      BY <1>0, <2>1 DEF PushWait, PushRefused, PushAdmitted, PushInsert, PushUnlock, Release, Goto
  <2>2. CASE PushNotify(t)
      BY <1>0, <2>2 DEF PushNotify, NotifyOne, Goto, cv_not_empty_
  <2>3. CASE PopWait(t) \/ PopEmptyHanded(t) \/ PopUnlock(t) \/ PopAdmitted(t) \/ PopFront(t) \/ PopPop(t)
      BY <1>0, <2>3 DEF PopWait, PopEmptyHanded, PopUnlock, PopAdmitted, PopFront, PopPop, Release, Goto
  <2>4. CASE PopNotify(t)
      BY <1>0, <2>4 DEF PopNotify, NotifyOne, Goto, cv_not_full_
  <2>5. CASE ShutdownSet(t)
      BY <1>0, <2>5 DEF ShutdownSet, Release, Goto
  <2>6. CASE ShutdownNotifyEmpty(t) \/ ShutdownNotifyFull(t)
      BY <1>0, <2>6 DEF ShutdownNotifyEmpty, ShutdownNotifyFull, NotifyAll, cv_not_empty_, cv_not_full_
  <2> QED BY <1>5, <2>1, <2>2, <2>3, <2>4, <2>5, <2>6 DEF Running
<1>6. ASSUME NEW t \in Threads, PopTimeout(t) \/ SpuriousWakeup(t)
      PROVE  ItemInv'
    BY <1>0, <1>6 DEF PopTimeout, SpuriousWakeup, Goto
<1> QED BY <1>1, <1>2, <1>3, <1>4, <1>5, <1>6 DEF Next, Calling

\* What a thread tested under the lock nobody else changes before it acts.
LEMMA TestedStep == TypeOK /\ MutexInv /\ TestedInv /\ [Next]_vars => TestedInv'
<1> SUFFICES ASSUME TypeOK, MutexInv, TestedInv, [Next]_vars
             PROVE  TestedInv'
    OBVIOUS
<1>0. /\ pc \in [Threads -> Labels]
      /\ queue_ \in Seq(Items \cup {NoItem})
      /\ shutdown_requested_ \in BOOLEAN
    BY DEF TypeOK
<1>m. ASSUME NEW t \in Threads, NEW u \in Threads, pc[t] \in Critical, pc[u] \in Critical
      PROVE  t = u
    BY <1>m DEF MutexInv
<1> USE DEF TestedInv
<1>1. CASE UNCHANGED vars
    BY <1>1 DEF vars
<1>2. ASSUME NEW t \in Threads, Calling(t)
      PROVE  TestedInv'
    BY <1>0, <1>2 DEF Calling, PushCall, PopCall, ShutdownCall, Goto
<1>3. ASSUME NEW t \in Threads, Locking(t)
      PROVE  TestedInv'
    BY <1>0, <1>3 DEF Locking, PushLock, PopLock, ShutdownLock, Acquire, Goto
<1>4. ASSUME NEW t \in Threads, Running(t)
      PROVE  TestedInv'
  <2>1. CASE PushWait(t) \/ PushRefused(t) \/ PushAdmitted(t) \/ PushUnlock(t)
      BY <1>0, <2>1 DEF PushWait, PushRefused, PushAdmitted, PushUnlock, PushReady, Release, Goto
  <2>2. CASE PushInsert(t)
      BY <1>0, <1>m, <2>2 DEF PushInsert, Goto, Critical
  <2>3. CASE PushNotify(t)
      BY <1>0, <2>3 DEF PushNotify, NotifyOne, Goto, cv_not_empty_
  <2>4. CASE PopWait(t) \/ PopEmptyHanded(t) \/ PopUnlock(t) \/ PopAdmitted(t)
      BY <1>0, <2>4 DEF PopWait, PopEmptyHanded, PopUnlock, PopAdmitted, Release, Goto
  <2>5. CASE PopFront(t)
    <3>1. 1 \in 1 .. Len(queue_)
        BY <1>0, <2>5, EmptySeq DEF PopFront
    <3>2. queue_' # <<>>
        BY <1>0, <2>5, <3>1, EmptySeq, ExceptSeq DEF PopFront
    <3> QED BY <1>0, <1>m, <2>5, <3>2 DEF PopFront, Goto, Critical
  <2>6. CASE PopPop(t)
      BY <1>0, <1>m, <2>6 DEF PopPop, Goto, Critical
  <2>7. CASE PopNotify(t)
      BY <1>0, <2>7 DEF PopNotify, NotifyOne, Goto, cv_not_full_
  <2>8. CASE ShutdownSet(t)
      BY <1>0, <1>m, <2>8 DEF ShutdownSet, Release, Goto, Critical
  <2>9. CASE ShutdownNotifyEmpty(t) \/ ShutdownNotifyFull(t)
      BY <1>0, <2>9 DEF ShutdownNotifyEmpty, ShutdownNotifyFull, NotifyAll
  <2> QED BY <1>4, <2>1, <2>2, <2>3, <2>4, <2>5, <2>6, <2>7, <2>8, <2>9 DEF Running
<1>5. ASSUME NEW t \in Threads, PopTimeout(t) \/ SpuriousWakeup(t)
      PROVE  TestedInv'
    BY <1>0, <1>5 DEF PopTimeout, SpuriousWakeup, Goto
<1> QED BY <1>1, <1>2, <1>3, <1>4, <1>5 DEF Next
-----------------------------------------------------------------------------
\* Moving the head of a sequence to the end of the one before it changes
\* nothing in their concatenation.
LEMMA MoveHead ==
    ASSUME NEW S, NEW s \in Seq(S), NEW q \in Seq(S), q # <<>>
    PROVE  Append(s, Head(q)) \o Tail(q) = s \o q
<1>1. /\ Head(q) \in S
      /\ Tail(q) \in Seq(S)
      /\ Len(Tail(q)) = Len(q) - 1
      /\ \A i \in 1 .. Len(Tail(q)) : Tail(q)[i] = q[i + 1]
    BY HeadTailProperties
<1>2. Len(q) \in Nat /\ Len(q) > 0 /\ Len(s) \in Nat
    BY EmptySeq, LenProperties
<1>3. /\ Append(s, Head(q)) \in Seq(S)
      /\ Len(Append(s, Head(q))) = Len(s) + 1
      /\ \A i \in 1 .. Len(s) : Append(s, Head(q))[i] = s[i]
      /\ Append(s, Head(q))[Len(s) + 1] = Head(q)
    BY <1>1, AppendProperties
<1>4. Head(q) = q[1]
    OBVIOUS
<1> DEFINE left == Append(s, Head(q)) \o Tail(q)
           right == s \o q
<1>5. /\ left \in Seq(S)
      /\ Len(left) = Len(s) + Len(q)
      /\ \A i \in 1 .. Len(s) + Len(q) :
            left[i] = IF i <= Len(s) + 1 THEN Append(s, Head(q))[i] ELSE Tail(q)[i - (Len(s) + 1)]
    BY <1>1, <1>2, <1>3, ConcatProperties
<1>6. /\ right \in Seq(S)
      /\ Len(right) = Len(s) + Len(q)
      /\ \A i \in 1 .. Len(s) + Len(q) :
            right[i] = IF i <= Len(s) THEN s[i] ELSE q[i - Len(s)]
    BY ConcatProperties
<1>7. ASSUME NEW i \in 1 .. Len(s) + Len(q)
      PROVE  left[i] = right[i]
  <2>1. CASE i <= Len(s)
      BY <1>2, <1>3, <1>5, <1>6, <2>1
  <2>2. CASE i = Len(s) + 1
      BY <1>2, <1>3, <1>4, <1>5, <1>6, <2>2
  <2>3. CASE i > Len(s) + 1
    <3>1. i - (Len(s) + 1) \in 1 .. Len(Tail(q))
        BY <1>1, <1>2, <2>3
    <3>2. Tail(q)[i - (Len(s) + 1)] = q[(i - (Len(s) + 1)) + 1]
        BY <1>1, <3>1
    <3>3. (i - (Len(s) + 1)) + 1 = i - Len(s)
        BY <1>2
    <3> QED BY <1>2, <1>5, <1>6, <2>3, <3>2, <3>3
  <2> QED BY <1>2, <2>1, <2>2, <2>3
<1> HIDE DEF left, right
<1>8. left = right
    BY <1>5, <1>6, <1>7, SeqEqual
<1> QED BY <1>8 DEF left, right

\* Appending to the second of two sequences appends to their concatenation.
LEMMA AppendToSecond ==
    ASSUME NEW S, NEW s \in Seq(S), NEW q \in Seq(S), NEW e \in S
    PROVE  Append(s \o q, e) = s \o Append(q, e)
<1>1. <<e>> \in Seq(S) /\ s \o q \in Seq(S)
    BY ConcatProperties
<1>2. Append(s \o q, e) = (s \o q) \o <<e>>
    BY <1>1, AppendIsConcat
<1>3. Append(q, e) = q \o <<e>>
    BY AppendIsConcat
<1> QED BY <1>1, <1>2, <1>3, ConcatAssociative

\* The tail does not see the head being overwritten.
LEMMA TailOfMoved ==
    ASSUME NEW S, NEW q \in Seq(S), q # <<>>, NEW e \in S
    PROVE  Tail([q EXCEPT ![1] = e]) = Tail(q)
<1> DEFINE m == [q EXCEPT ![1] = e]
<1>1. 1 \in 1 .. Len(q) /\ Len(q) \in Nat
    BY EmptySeq, LenProperties
<1>2. /\ m \in Seq(S) /\ Len(m) = Len(q)
      /\ \A j \in 1 .. Len(q) : m[j] = IF j = 1 THEN e ELSE q[j]
    BY <1>1, ExceptSeq
<1>3. m # <<>>
    BY <1>1, <1>2, EmptySeq
<1> HIDE DEF m
<1>4. /\ Tail(m) \in Seq(S) /\ Len(Tail(m)) = Len(m) - 1
      /\ \A i \in 1 .. Len(Tail(m)) : Tail(m)[i] = m[i + 1]
    BY <1>2, <1>3, HeadTailProperties
<1>5. /\ Tail(q) \in Seq(S) /\ Len(Tail(q)) = Len(q) - 1
      /\ \A i \in 1 .. Len(Tail(q)) : Tail(q)[i] = q[i + 1]
    BY HeadTailProperties
<1>6. \A i \in 1 .. Len(Tail(m)) : Tail(m)[i] = Tail(q)[i]
    BY <1>1, <1>2, <1>4, <1>5
<1>7. Tail(m) = Tail(q)
    BY <1>2, <1>4, <1>5, <1>6, SeqEqual
<1> QED BY <1>7 DEF m
-----------------------------------------------------------------------------
\* No step loses, duplicates or reorders an item.
LEMMA OrderStep ==
    TypeOK /\ MutexInv /\ ItemInv /\ TestedInv /\ ExactlyOnceInOrder /\ [Next]_vars
        => ExactlyOnceInOrder'
<1> SUFFICES ASSUME TypeOK, MutexInv, ItemInv, TestedInv, ExactlyOnceInOrder, [Next]_vars
             PROVE  ExactlyOnceInOrder'
    OBVIOUS
<1>0. /\ pc \in [Threads -> Labels]
      /\ queue_ \in Seq(Items \cup {NoItem})
      /\ delivered \in Seq(Items \cup {NoItem})
    BY DEF TypeOK
<1>m. ASSUME NEW t \in Threads, pc[t] \in Critical, pc[t] # "pop_pop"
      PROVE  Undelivered = queue_
    BY <1>m DEF MutexInv, Undelivered, Critical
<1>s. ASSUME UNCHANGED <<queue_, accepted, delivered>>,
             \A u \in Threads : pc'[u] = "pop_pop" <=> pc[u] = "pop_pop"
      PROVE  ExactlyOnceInOrder'
    BY <1>s DEF ExactlyOnceInOrder, Undelivered
<1>1. CASE UNCHANGED vars
    BY <1>1, <1>s DEF vars
<1>2. ASSUME NEW t \in Threads, Calling(t)
      PROVE  ExactlyOnceInOrder'
    BY <1>0, <1>2, <1>s DEF Calling, PushCall, PopCall, ShutdownCall, Goto
<1>3. ASSUME NEW t \in Threads, Locking(t)
      PROVE  ExactlyOnceInOrder'
    BY <1>0, <1>3, <1>s DEF Locking, PushLock, PopLock, ShutdownLock, Acquire, Goto
<1>4. ASSUME NEW t \in Threads, Running(t)
      PROVE  ExactlyOnceInOrder'
  <2>1. CASE PushWait(t) \/ PushRefused(t) \/ PushAdmitted(t) \/ PushUnlock(t)
      BY <1>0, <1>s, <2>1 DEF PushWait, PushRefused, PushAdmitted, PushUnlock, Release, Goto
  <2>2. CASE PushInsert(t)
    <3>1. item[t] \in Items \cup {NoItem}
        BY DEF TypeOK
    <3>2. Undelivered = queue_
        BY <1>m, <2>2 DEF PushInsert, Critical
    <3>3. Undelivered' = queue_'
        BY <1>0, <2>2 DEF PushInsert, Goto, MutexInv, Undelivered, Critical
    <3>4. accepted' = Append(delivered \o queue_, item[t])
        BY <2>2, <3>2 DEF PushInsert, ExactlyOnceInOrder
    <3>5. delivered' \o queue_' = delivered \o Append(queue_, item[t])
        BY <2>2 DEF PushInsert
    <3>6. Append(delivered \o queue_, item[t]) = delivered \o Append(queue_, item[t])
        BY <1>0, <3>1, AppendToSecond
    <3> QED BY <3>3, <3>4, <3>5, <3>6 DEF ExactlyOnceInOrder
  <2>3. CASE PushNotify(t)
      BY <1>0, <1>s, <2>3 DEF PushNotify, NotifyOne, Goto, cv_not_empty_
  <2>4. CASE PopWait(t) \/ PopEmptyHanded(t) \/ PopUnlock(t) \/ PopAdmitted(t)
      BY <1>0, <1>s, <2>4 DEF PopWait, PopEmptyHanded, PopUnlock, PopAdmitted, Release, Goto
  <2>5. CASE PopFront(t)
    <3>1. queue_ # <<>>
        BY <2>5 DEF PopFront, TestedInv
    <3>2. Undelivered = queue_
        BY <1>m, <2>5 DEF PopFront, Critical
    <3>3. Undelivered' = Tail(queue_')
        BY <1>0, <2>5 DEF PopFront, Goto, Undelivered
    <3>4. Tail(queue_') = Tail(queue_)
        BY <1>0, <2>5, <3>1, TailOfMoved DEF PopFront
    <3>5. accepted' = delivered \o queue_
        BY <2>5, <3>2 DEF PopFront, ExactlyOnceInOrder
    <3>6. delivered' = Append(delivered, Head(queue_))
        BY <2>5 DEF PopFront
    <3> QED BY <1>0, <3>1, <3>3, <3>4, <3>5, <3>6, MoveHead DEF ExactlyOnceInOrder
  <2>6. CASE PopPop(t)
    <3>1. Undelivered = Tail(queue_)
        BY <2>6 DEF PopPop, Undelivered
    <3>2. Undelivered' = queue_'
        BY <1>0, <2>6 DEF PopPop, Goto, MutexInv, Undelivered, Critical
    <3> QED BY <2>6, <3>1, <3>2 DEF PopPop, ExactlyOnceInOrder
  <2>7. CASE PopNotify(t)
      BY <1>0, <1>s, <2>7 DEF PopNotify, NotifyOne, Goto, cv_not_full_
  <2>8. CASE ShutdownSet(t)
      BY <1>0, <1>s, <2>8 DEF ShutdownSet, Release, Goto
  <2>9. CASE ShutdownNotifyEmpty(t) \/ ShutdownNotifyFull(t)
      BY <1>0, <1>s, <2>9 DEF ShutdownNotifyEmpty, ShutdownNotifyFull, NotifyAll,
                              cv_not_empty_, cv_not_full_
  <2> QED BY <1>4, <2>1, <2>2, <2>3, <2>4, <2>5, <2>6, <2>7, <2>8, <2>9 DEF Running
<1>5. ASSUME NEW t \in Threads, PopTimeout(t) \/ SpuriousWakeup(t)
      PROVE  ExactlyOnceInOrder'
    BY <1>0, <1>5, <1>s DEF PopTimeout, SpuriousWakeup, Goto
<1> QED BY <1>1, <1>2, <1>3, <1>4, <1>5 DEF Next
-----------------------------------------------------------------------------
\* The constructor establishes the invariant.
LEMMA InitIInv == Init => IInv
<1> SUFFICES ASSUME Init PROVE IInv
    OBVIOUS
<1>1. TypeOK
    BY InitTypeOK
<1>2. MutexInv
    BY QueueAssumption DEF Init, MutexInv, Critical
<1>3. ItemInv /\ TestedInv
    BY DEF Init, ItemInv, TestedInv
<1>4. ExactlyOnceInOrder
  <2>1. Undelivered = <<>>
      BY DEF Init, Undelivered
  <2> QED BY <2>1, ConcatEmptySeq, EmptySeq DEF Init, ExactlyOnceInOrder
<1> QED BY <1>1, <1>2, <1>3, <1>4 DEF IInv

\* Every step of every thread preserves the invariant.
LEMMA StepIInv == IInv /\ [Next]_vars => IInv'
  BY TypeStep, MutexStep, ItemStep, TestedStep, OrderStep DEF IInv

\* The invariant the other theorems rest on: types, mutual exclusion, and what
\* push and pop may rely on between the test of their predicate and the change
\* of queue_.
THEOREM Invariance == Spec => []IInv
  BY InitIInv, StepIInv, PTL DEF Spec

\* The queue's variables keep their types, for any number of threads and calls.
THEOREM TypeCorrect == Spec => []TypeOK
<1>1. IInv => TypeOK
    BY DEF IInv
<1> QED BY <1>1, Invariance, PTL

\* Between push and pop no item is lost, duplicated or reordered.
THEOREM ExactlyOnce == Spec => []ExactlyOnceInOrder
<1>1. IInv => ExactlyOnceInOrder
    BY DEF IInv
<1> QED BY <1>1, Invariance, PTL
-----------------------------------------------------------------------------
\* A waiter that shutdown has not yet notified is about to be.
LEMMA ShutdownStep ==
    TypeOK /\ ShutdownReachesWaiters /\ [Next]_vars => ShutdownReachesWaiters'
<1> SUFFICES ASSUME TypeOK, ShutdownReachesWaiters, [Next]_vars
             PROVE  ShutdownReachesWaiters'
    OBVIOUS
<1>0. pc \in [Threads -> Labels] /\ shutdown_requested_ \in BOOLEAN
    BY DEF TypeOK
<1> USE DEF ShutdownReachesWaiters, At, cv_not_empty_, cv_not_full_
<1>1. CASE UNCHANGED vars
    BY <1>1 DEF vars
<1>2. ASSUME NEW t \in Threads, Calling(t)
      PROVE  ShutdownReachesWaiters'
    BY <1>0, <1>2 DEF Calling, PushCall, PopCall, ShutdownCall, Goto
<1>3. ASSUME NEW t \in Threads, Locking(t)
      PROVE  ShutdownReachesWaiters'
    BY <1>0, <1>3 DEF Locking, PushLock, PopLock, ShutdownLock, Acquire, Goto
<1>4. ASSUME NEW t \in Threads, Running(t)
      PROVE  ShutdownReachesWaiters'
  <2>1. CASE PushWait(t) \/ PopWait(t)
      BY <1>0, <2>1 DEF PushWait, PopWait, PushReady, PopReady, Release, Goto
  <2>2. CASE PushRefused(t) \/ PushAdmitted(t) \/ PushInsert(t) \/ PushUnlock(t)
      BY <1>0, <2>2 DEF PushRefused, PushAdmitted, PushInsert, PushUnlock, Release, Goto
  <2>3. CASE PushNotify(t) \/ PopNotify(t)
      BY <1>0, <2>3 DEF PushNotify, PopNotify, NotifyOne, Goto
  <2>4. CASE PopEmptyHanded(t) \/ PopAdmitted(t) \/ PopFront(t) \/ PopPop(t) \/ PopUnlock(t)
      BY <1>0, <2>4 DEF PopEmptyHanded, PopAdmitted, PopFront, PopPop, PopUnlock, Release, Goto
  <2>5. CASE ShutdownSet(t)
      BY <1>0, <2>5 DEF ShutdownSet, Release, Goto
  <2>6. CASE ShutdownNotifyEmpty(t)
      BY <1>0, <2>6 DEF ShutdownNotifyEmpty, NotifyAll
  <2>7. CASE ShutdownNotifyFull(t)
      BY <1>0, <2>7 DEF ShutdownNotifyFull, NotifyAll
  <2> QED BY <1>4, <2>1, <2>2, <2>3, <2>4, <2>5, <2>6, <2>7 DEF Running
<1>5. ASSUME NEW t \in Threads, PopTimeout(t) \/ SpuriousWakeup(t)
      PROVE  ShutdownReachesWaiters'
    BY <1>0, <1>5 DEF PopTimeout, SpuriousWakeup, Goto
<1> QED BY <1>1, <1>2, <1>3, <1>4, <1>5 DEF Next

\* After shutdown_requested_ is set nobody is left waiting without a call of
\* shutdown that has still to notify it.
THEOREM ShutdownNotifies == Spec => []ShutdownReachesWaiters
<1>1. Init => ShutdownReachesWaiters
    BY DEF Init, ShutdownReachesWaiters
<1> QED BY <1>1, ShutdownStep, TypeCorrect, PTL DEF Spec
-----------------------------------------------------------------------------
(* The refinement of BoundedFifo *)

\* Under the invariant every step of the queue is a step of the FIFO, or does
\* not touch what the FIFO sees.
LEMMA FifoStep == IInv /\ [Next]_vars => [Fifo!FifoNext]_Fifo!fifoVars
<1> SUFFICES ASSUME IInv, [Next]_vars
             PROVE  [Fifo!FifoNext]_Fifo!fifoVars
    OBVIOUS
<1>0. /\ pc \in [Threads -> Labels]
      /\ queue_ \in Seq(Items \cup {NoItem})
      /\ delivered \in Seq(Items \cup {NoItem})
    BY DEF IInv, TypeOK
<1>m. ASSUME NEW t \in Threads, pc[t] \in Critical, pc[t] # "pop_pop"
      PROVE  accepted = delivered \o queue_
    BY <1>m DEF IInv, MutexInv, ExactlyOnceInOrder, Undelivered, Critical
<1> USE DEF Fifo!fifoVars
<1>1. CASE UNCHANGED vars
    BY <1>1 DEF vars
<1>2. ASSUME NEW t \in Threads, Calling(t) \/ Locking(t) \/ PopTimeout(t) \/ SpuriousWakeup(t)
      PROVE  UNCHANGED Fifo!fifoVars
    BY <1>2 DEF Calling, PushCall, PopCall, ShutdownCall, Locking, PushLock, PopLock,
                ShutdownLock, PopTimeout, SpuriousWakeup
<1>3. ASSUME NEW t \in Threads, PushInsert(t)
      PROVE  Fifo!Accept
  <2>1. accepted = delivered \o queue_
      BY <1>3, <1>m DEF PushInsert, Critical
  <2>2. Len(accepted) - Len(delivered) = Len(queue_)
      BY <1>0, <2>1, ConcatProperties, LenProperties
  <2>3. Len(queue_) < max_capacity_ /\ ~shutdown_requested_
      BY <1>3 DEF PushInsert, IInv, TestedInv
  <2>4. item[t] \in Items
      BY <1>3 DEF PushInsert, IInv, ItemInv
  <2> QED BY <1>3, <2>2, <2>3, <2>4 DEF PushInsert, Fifo!Accept
<1>4. ASSUME NEW t \in Threads, PopFront(t)
      PROVE  Fifo!Deliver
  <2>1. accepted = delivered \o queue_
      BY <1>4, <1>m DEF PopFront, Critical
  <2>2. Len(queue_) \in Nat /\ Len(queue_) > 0 /\ Len(delivered) \in Nat
      BY <1>0, <1>4, EmptySeq, LenProperties DEF PopFront, IInv, TestedInv
  <2>3. /\ Len(accepted) = Len(delivered) + Len(queue_)
        /\ \A i \in 1 .. Len(delivered) + Len(queue_) :
              accepted[i] = IF i <= Len(delivered) THEN delivered[i]
                            ELSE queue_[i - Len(delivered)]
      BY <1>0, <2>1, ConcatProperties
  <2>4. accepted[Len(delivered) + 1] = queue_[1]
      BY <2>2, <2>3
  <2>5. Head(queue_) = queue_[1]
      BY <1>0
  <2> QED BY <1>4, <2>2, <2>3, <2>4, <2>5 DEF PopFront, Fifo!Deliver
<1>5. ASSUME NEW t \in Threads, ShutdownSet(t)
      PROVE  Fifo!Close
    BY <1>5 DEF ShutdownSet, Fifo!Close
<1>6. ASSUME NEW t \in Threads, Running(t)
      PROVE  [Fifo!FifoNext]_Fifo!fifoVars
  <2>1. CASE PushInsert(t) \/ PopFront(t) \/ ShutdownSet(t)
      BY <2>1, <1>3, <1>4, <1>5 DEF Fifo!FifoNext
  <2>2. CASE ~(PushInsert(t) \/ PopFront(t) \/ ShutdownSet(t))
      BY <1>6, <2>2 DEF Running, PushWait, PushRefused, PushAdmitted, PushUnlock, PushNotify,
                        PopWait, PopEmptyHanded, PopAdmitted, PopPop, PopUnlock, PopNotify,
                        ShutdownNotifyEmpty, ShutdownNotifyFull
  <2> QED BY <2>1, <2>2
<1> QED BY <1>1, <1>2, <1>6 DEF Next

\* utils::ConcurrentQueue is a bounded FIFO queue.
THEOREM Refinement == Spec => ImplementsFifo
<1>1. Init => Fifo!FifoInit
    BY DEF Init, Fifo!FifoInit
<1> QED BY <1>1, FifoStep, Invariance, PTL DEF Spec, ImplementsFifo, Fifo!FifoSpec
-----------------------------------------------------------------------------
(* No lost wake-up *)

\* The threads that have still to notify a waiter, and those on their way to
\* the item or the slot, for each of the two condition variables.
PushNotifying == At({"push_unlock", "push_notify"})
PopComing     == At({"pop_lock", "pop_check", "pop_front", "pop_pop"})
PopNotifying  == At({"pop_unlock", "pop_notify"})
PushComing    == At({"push_lock", "push_check", "push_insert"})

\* The queue has finitely many callers, so those at given labels are counted.
LEMMA AtCounted ==
    /\ \A S : IsFiniteSet(At(S)) /\ Cardinality(At(S)) \in Nat
    /\ \A S : (IsFiniteSet(At(S)) /\ Cardinality(At(S)) \in Nat)'
<1>1. \A S \in SUBSET Threads : IsFiniteSet(S) /\ Cardinality(S) \in Nat
    BY QueueAssumption, FS_Subset, FS_CardinalityType
<1>2. \A S : At(S) \in SUBSET Threads /\ At(S)' \in SUBSET Threads
    BY DEF At
<1> QED BY <1>1, <1>2

\* A larger set of threads is counted higher.
LEMMA CountGrows ==
    ASSUME NEW S, NEW T, IsFiniteSet(T), S \subseteq T
    PROVE  Cardinality(S) <= Cardinality(T)
  BY FS_Subset

\* One thread more.
LEMMA CountGains ==
    ASSUME NEW S, NEW T, IsFiniteSet(T), NEW t, t \notin S, S \cup {t} \subseteq T
    PROVE  Cardinality(S) + 1 <= Cardinality(T)
<1>1. IsFiniteSet(S) /\ IsFiniteSet(S \cup {t})
    BY FS_Subset
<1>2. Cardinality(S \cup {t}) = Cardinality(S) + 1
    BY <1>1, FS_AddElement
<1> QED BY <1>2, CountGrows

\* At most one thread less.
LEMMA CountLoses ==
    ASSUME NEW S, NEW T, IsFiniteSet(S), IsFiniteSet(T), NEW t, S \ {t} \subseteq T
    PROVE  Cardinality(S) - 1 <= Cardinality(T)
<1>1. CASE t \in S
  <2>1. Cardinality(S \ {t}) = Cardinality(S) - 1
      BY <1>1, FS_RemoveElement
  <2> QED BY <2>1, CountGrows
<1>2. CASE t \notin S
  <2>1. S \subseteq T
      BY <1>2
  <2>2. Cardinality(S) \in Nat /\ Cardinality(T) \in Nat /\ Cardinality(S) <= Cardinality(T)
      BY <2>1, CountGrows, FS_CardinalityType
  <2> QED BY <2>2
<1> QED BY <1>1, <1>2
-----------------------------------------------------------------------------
\* Inserting an item leaves a notifier behind, a consumer that leaves takes an
\* item or finds none, and a notification sends a waiter in its own place.
LEMMA ConsumerStep ==
    TypeOK /\ TestedInv /\ NoLostWakeupOfConsumer /\ [Next]_vars => NoLostWakeupOfConsumer'
<1> DEFINE Covered == Len(queue_) <= Cardinality(PushNotifying) + Cardinality(PopComing)
<1> SUFFICES ASSUME TypeOK, TestedInv, NoLostWakeupOfConsumer, [Next]_vars,
                    cv_not_empty_' # {}
             PROVE  Covered'
    BY DEF NoLostWakeupOfConsumer, PushNotifying, PopComing
<1>0. pc \in [Threads -> Labels] /\ queue_ \in Seq(Items \cup {NoItem}) /\ Len(queue_) \in Nat
    BY LenProperties DEF TypeOK
<1>f. /\ IsFiniteSet(PushNotifying) /\ IsFiniteSet(PopComing)
      /\ IsFiniteSet(PushNotifying') /\ IsFiniteSet(PopComing')
      /\ Cardinality(PushNotifying) \in Nat /\ Cardinality(PopComing) \in Nat
      /\ Cardinality(PushNotifying)' \in Nat /\ Cardinality(PopComing)' \in Nat
    BY AtCounted DEF PushNotifying, PopComing
<1>i. cv_not_empty_ # {} => Covered
    BY DEF NoLostWakeupOfConsumer, PushNotifying, PopComing
<1>k. ASSUME cv_not_empty_ # {}, Len(queue_)' = Len(queue_),
             PushNotifying \subseteq PushNotifying', PopComing \subseteq PopComing'
      PROVE  Covered'
    BY <1>0, <1>f, <1>i, <1>k, CountGrows
<1>e. ASSUME queue_ = <<>>, queue_' = queue_
      PROVE  Covered'
    BY <1>e, <1>f, EmptySeq
<1> HIDE DEF Covered
<1>1. CASE UNCHANGED vars
    BY <1>1, <1>k DEF vars, cv_not_empty_, PushNotifying, PopComing, At
<1>2. ASSUME NEW t \in Threads, Calling(t)
      PROVE  Covered'
  <2>1. /\ cv_not_empty_ # {} /\ Len(queue_)' = Len(queue_)
        /\ PushNotifying \subseteq PushNotifying' /\ PopComing \subseteq PopComing'
      BY <1>0, <1>2 DEF Calling, PushCall, PopCall, ShutdownCall, Goto,
                        cv_not_empty_, PushNotifying, PopComing, At
  <2> QED BY <1>k, <2>1
<1>3. ASSUME NEW t \in Threads, Locking(t)
      PROVE  Covered'
  <2>1. /\ cv_not_empty_ # {} /\ Len(queue_)' = Len(queue_)
        /\ PushNotifying \subseteq PushNotifying' /\ PopComing \subseteq PopComing'
      BY <1>0, <1>3 DEF Locking, PushLock, PopLock, ShutdownLock, Acquire, Goto,
                        cv_not_empty_, PushNotifying, PopComing, At
  <2> QED BY <1>k, <2>1
<1>4. ASSUME NEW t \in Threads, Running(t)
      PROVE  Covered'
  <2>1. CASE PushWait(t) \/ PushRefused(t) \/ PushAdmitted(t) \/ PushUnlock(t)
    <3>1. /\ cv_not_empty_ # {} /\ Len(queue_)' = Len(queue_)
          /\ PushNotifying \subseteq PushNotifying' /\ PopComing \subseteq PopComing'
        BY <1>0, <2>1 DEF PushWait, PushRefused, PushAdmitted, PushUnlock, Release, Goto,
                          cv_not_empty_, PushNotifying, PopComing, At
    <3> QED BY <1>k, <3>1
  <2>2. CASE PushInsert(t)
    <3>1. /\ cv_not_empty_ # {} /\ t \notin PushNotifying
          /\ PushNotifying \cup {t} \subseteq PushNotifying' /\ PopComing \subseteq PopComing'
        BY <1>0, <2>2 DEF PushInsert, Goto, cv_not_empty_, PushNotifying, PopComing, At
    <3>2. /\ Cardinality(PushNotifying) + 1 <= Cardinality(PushNotifying')
          /\ Cardinality(PopComing) <= Cardinality(PopComing')
        BY <1>f, <3>1, CountGains, CountGrows
    <3>3. Len(queue_') = Len(queue_) + 1
        BY <1>0, <2>2 DEF PushInsert, TypeOK
    <3> QED BY <1>0, <1>f, <1>i, <3>1, <3>2, <3>3 DEF Covered
  <2>3. CASE PushNotify(t)
    <3>1. ASSUME cv_not_empty_ = {}
          PROVE  FALSE
        BY <1>0, <2>3, <3>1 DEF PushNotify, NotifyOne, Goto, cv_not_empty_
    <3>2. PICK w \in cv_not_empty_ : pc' = [pc EXCEPT ![t] = "idle", ![w] = "pop_lock"]
        BY <2>3, <3>1 DEF PushNotify, NotifyOne
    <3>3. /\ w \notin PopComing /\ PopComing \cup {w} \subseteq PopComing'
          /\ PushNotifying \ {t} \subseteq PushNotifying'
        BY <1>0, <2>3, <3>2 DEF PushNotify, cv_not_empty_, PushNotifying, PopComing, At
    <3>4. /\ Cardinality(PopComing) + 1 <= Cardinality(PopComing')
          /\ Cardinality(PushNotifying) - 1 <= Cardinality(PushNotifying')
        BY <1>f, <3>3, CountGains, CountLoses
    <3>5. Len(queue_') = Len(queue_)
        BY <2>3 DEF PushNotify
    <3> QED BY <1>0, <1>f, <1>i, <3>1, <3>4, <3>5 DEF Covered
  <2>4. CASE PopWait(t) \/ PopEmptyHanded(t)
      BY <1>e, <2>4 DEF PopWait, PopEmptyHanded, PopReady
  <2>5. CASE PopFront(t)
    <3>1. /\ cv_not_empty_ # {}
          /\ PushNotifying \subseteq PushNotifying' /\ PopComing \subseteq PopComing'
        BY <1>0, <2>5 DEF PopFront, Goto, cv_not_empty_, PushNotifying, PopComing, At
    <3>2. 1 \in 1 .. Len(queue_) /\ NoItem \in Items \cup {NoItem}
        BY <1>0, <2>5, EmptySeq DEF PopFront, TestedInv
    <3>3. Len(queue_)' = Len(queue_)
        BY <1>0, <2>5, <3>2, ExceptSeq DEF PopFront
    <3> QED BY <1>k, <3>1, <3>3
  <2>6. CASE PopPop(t)
    <3>1. cv_not_empty_ # {} /\ PopComing \ {t} \subseteq PopComing'
          /\ PushNotifying \subseteq PushNotifying'
        BY <1>0, <2>6 DEF PopPop, Goto, cv_not_empty_, PushNotifying, PopComing, At
    <3>2. /\ Cardinality(PopComing) - 1 <= Cardinality(PopComing')
          /\ Cardinality(PushNotifying) <= Cardinality(PushNotifying')
        BY <1>f, <3>1, CountLoses, CountGrows
    <3>3. Len(queue_') = Len(queue_) - 1
        BY <1>0, <2>6, HeadTailProperties DEF PopPop, TestedInv
    <3> QED BY <1>0, <1>f, <1>i, <3>1, <3>2, <3>3 DEF Covered
  <2>7. CASE PopAdmitted(t) \/ PopUnlock(t) \/ PopNotify(t)
    <3>1. /\ cv_not_empty_ # {} /\ Len(queue_)' = Len(queue_)
          /\ PushNotifying \subseteq PushNotifying' /\ PopComing \subseteq PopComing'
        BY <1>0, <2>7 DEF PopAdmitted, PopUnlock, PopNotify, NotifyOne, Release, Goto,
                          cv_not_full_, cv_not_empty_, PushNotifying, PopComing, At
    <3> QED BY <1>k, <3>1
  <2>8. CASE ShutdownSet(t) \/ ShutdownNotifyFull(t)
    <3>1. /\ cv_not_empty_ # {} /\ Len(queue_)' = Len(queue_)
          /\ PushNotifying \subseteq PushNotifying' /\ PopComing \subseteq PopComing'
        BY <1>0, <2>8 DEF ShutdownSet, ShutdownNotifyFull, NotifyAll, Release, Goto,
                          cv_not_full_, cv_not_empty_, PushNotifying, PopComing, At
    <3> QED BY <1>k, <3>1
  <2>9. CASE ShutdownNotifyEmpty(t)
    <3>1. cv_not_empty_' = {}
        BY <1>0, <2>9 DEF ShutdownNotifyEmpty, NotifyAll, cv_not_empty_
    <3> QED BY <3>1
  <2> QED BY <1>4, <2>1, <2>2, <2>3, <2>4, <2>5, <2>6, <2>7, <2>8, <2>9 DEF Running
<1>5. ASSUME NEW t \in Threads, PopTimeout(t) \/ SpuriousWakeup(t)
      PROVE  Covered'
  <2>1. /\ cv_not_empty_ # {} /\ Len(queue_)' = Len(queue_)
        /\ PushNotifying \subseteq PushNotifying' /\ PopComing \subseteq PopComing'
      BY <1>0, <1>5 DEF PopTimeout, SpuriousWakeup, Goto,
                        cv_not_empty_, PushNotifying, PopComing, At
  <2> QED BY <1>k, <2>1
<1> QED BY <1>1, <1>2, <1>3, <1>4, <1>5 DEF Next

\* No item waits beside a sleeping consumer without a thread that will take it
\* or has still to notify, however many threads share the queue.
THEOREM ConsumersAreWoken == Spec => []NoLostWakeupOfConsumer
<1>1. Init => NoLostWakeupOfConsumer
    BY DEF Init, NoLostWakeupOfConsumer, cv_not_empty_
<1>2. IInv => TypeOK /\ TestedInv
    BY DEF IInv
<1> QED BY <1>1, <1>2, ConsumerStep, Invariance, PTL DEF Spec
-----------------------------------------------------------------------------
\* Taking an item leaves a notifier behind, a producer that leaves fills a slot
\* or is refused, and a notification sends a waiter in its own place.
LEMMA ProducerStep ==
    TypeOK /\ TestedInv /\ NoLostWakeupOfProducer /\ [Next]_vars => NoLostWakeupOfProducer'
<1> DEFINE Waited == cv_not_full_ # {} /\ ~shutdown_requested_
           Covered == max_capacity_ - Len(queue_)
                          <= Cardinality(PopNotifying) + Cardinality(PushComing)
<1> SUFFICES ASSUME TypeOK, TestedInv, NoLostWakeupOfProducer, [Next]_vars, Waited'
             PROVE  Covered'
    BY DEF NoLostWakeupOfProducer, PopNotifying, PushComing
<1>0. /\ pc \in [Threads -> Labels] /\ shutdown_requested_ \in BOOLEAN
      /\ queue_ \in Seq(Items \cup {NoItem}) /\ Len(queue_) \in Nat
      /\ max_capacity_ \in Nat
    BY LenProperties, QueueAssumption DEF TypeOK
<1>f. /\ IsFiniteSet(PopNotifying) /\ IsFiniteSet(PushComing)
      /\ IsFiniteSet(PopNotifying') /\ IsFiniteSet(PushComing')
      /\ Cardinality(PopNotifying) \in Nat /\ Cardinality(PushComing) \in Nat
      /\ Cardinality(PopNotifying)' \in Nat /\ Cardinality(PushComing)' \in Nat
    BY AtCounted DEF PopNotifying, PushComing
<1>i. Waited => Covered
    BY DEF NoLostWakeupOfProducer, PopNotifying, PushComing
<1>k. ASSUME Waited, Len(queue_)' = Len(queue_),
             PopNotifying \subseteq PopNotifying', PushComing \subseteq PushComing'
      PROVE  Covered'
    BY <1>0, <1>f, <1>i, <1>k, CountGrows
<1> HIDE DEF Covered
<1>1. CASE UNCHANGED vars
    BY <1>1, <1>k DEF vars, cv_not_full_, PopNotifying, PushComing, At
<1>2. ASSUME NEW t \in Threads, Calling(t)
      PROVE  Covered'
  <2>1. /\ Waited /\ Len(queue_)' = Len(queue_)
        /\ PopNotifying \subseteq PopNotifying' /\ PushComing \subseteq PushComing'
      BY <1>0, <1>2 DEF Calling, PushCall, PopCall, ShutdownCall, Goto,
                        cv_not_full_, PopNotifying, PushComing, At
  <2> QED BY <1>k, <2>1
<1>3. ASSUME NEW t \in Threads, Locking(t)
      PROVE  Covered'
  <2>1. /\ Waited /\ Len(queue_)' = Len(queue_)
        /\ PopNotifying \subseteq PopNotifying' /\ PushComing \subseteq PushComing'
      BY <1>0, <1>3 DEF Locking, PushLock, PopLock, ShutdownLock, Acquire, Goto,
                        cv_not_full_, PopNotifying, PushComing, At
  <2> QED BY <1>k, <2>1
<1>4. ASSUME NEW t \in Threads, Running(t)
      PROVE  Covered'
  <2>1. CASE PushWait(t)
    <3>1. ~(Len(queue_) < max_capacity_) /\ Len(queue_)' = Len(queue_)
        BY <2>1 DEF PushWait, PushReady
    <3> QED BY <1>0, <1>f, <3>1 DEF Covered
  <2>2. CASE PushAdmitted(t) \/ PushUnlock(t) \/ PushNotify(t)
    <3>1. /\ Waited /\ Len(queue_)' = Len(queue_)
          /\ PopNotifying \subseteq PopNotifying' /\ PushComing \subseteq PushComing'
        BY <1>0, <2>2 DEF PushAdmitted, PushUnlock, PushNotify, NotifyOne, Release, Goto,
                          cv_not_empty_, cv_not_full_, PopNotifying, PushComing, At
    <3> QED BY <1>k, <3>1
  <2>3. CASE PushRefused(t) \/ ShutdownSet(t)
    <3>1. shutdown_requested_'
        BY <2>3 DEF PushRefused, ShutdownSet
    <3> QED BY <3>1
  <2>4. CASE PushInsert(t)
    <3>1. /\ Waited /\ PushComing \ {t} \subseteq PushComing'
          /\ PopNotifying \subseteq PopNotifying'
        BY <1>0, <2>4 DEF PushInsert, Goto, cv_not_full_, PopNotifying, PushComing, At
    <3>2. /\ Cardinality(PushComing) - 1 <= Cardinality(PushComing')
          /\ Cardinality(PopNotifying) <= Cardinality(PopNotifying')
        BY <1>f, <3>1, CountLoses, CountGrows
    <3>3. Len(queue_') = Len(queue_) + 1
        BY <1>0, <2>4 DEF PushInsert, TypeOK
    <3> QED BY <1>0, <1>f, <1>i, <3>1, <3>2, <3>3 DEF Covered
  <2>5. CASE PopWait(t) \/ PopEmptyHanded(t) \/ PopAdmitted(t) \/ PopUnlock(t)
    <3>1. /\ Waited /\ Len(queue_)' = Len(queue_)
          /\ PopNotifying \subseteq PopNotifying' /\ PushComing \subseteq PushComing'
        BY <1>0, <2>5 DEF PopWait, PopEmptyHanded, PopAdmitted, PopUnlock, Release, Goto,
                          cv_not_full_, PopNotifying, PushComing, At
    <3> QED BY <1>k, <3>1
  <2>6. CASE PopFront(t)
    <3>1. /\ Waited
          /\ PopNotifying \subseteq PopNotifying' /\ PushComing \subseteq PushComing'
        BY <1>0, <2>6 DEF PopFront, Goto, cv_not_full_, PopNotifying, PushComing, At
    <3>2. 1 \in 1 .. Len(queue_) /\ NoItem \in Items \cup {NoItem}
        BY <1>0, <2>6, EmptySeq DEF PopFront, TestedInv
    <3>3. Len(queue_)' = Len(queue_)
        BY <1>0, <2>6, <3>2, ExceptSeq DEF PopFront
    <3> QED BY <1>k, <3>1, <3>3
  <2>7. CASE PopPop(t)
    <3>1. /\ Waited /\ t \notin PopNotifying
          /\ PopNotifying \cup {t} \subseteq PopNotifying' /\ PushComing \subseteq PushComing'
        BY <1>0, <2>7 DEF PopPop, Goto, cv_not_full_, PopNotifying, PushComing, At
    <3>2. /\ Cardinality(PopNotifying) + 1 <= Cardinality(PopNotifying')
          /\ Cardinality(PushComing) <= Cardinality(PushComing')
        BY <1>f, <3>1, CountGains, CountGrows
    <3>3. Len(queue_') = Len(queue_) - 1
        BY <1>0, <2>7, HeadTailProperties DEF PopPop, TestedInv
    <3> QED BY <1>0, <1>f, <1>i, <3>1, <3>2, <3>3 DEF Covered
  <2>8. CASE PopNotify(t)
    <3>1. ASSUME cv_not_full_ = {}
          PROVE  FALSE
        BY <1>0, <2>8, <3>1 DEF PopNotify, NotifyOne, Goto, cv_not_full_
    <3>2. PICK w \in cv_not_full_ : pc' = [pc EXCEPT ![t] = "idle", ![w] = "push_lock"]
        BY <2>8, <3>1 DEF PopNotify, NotifyOne
    <3>3. /\ w \notin PushComing /\ PushComing \cup {w} \subseteq PushComing'
          /\ PopNotifying \ {t} \subseteq PopNotifying'
        BY <1>0, <2>8, <3>2 DEF PopNotify, cv_not_full_, PopNotifying, PushComing, At
    <3>4. /\ Cardinality(PushComing) + 1 <= Cardinality(PushComing')
          /\ Cardinality(PopNotifying) - 1 <= Cardinality(PopNotifying')
        BY <1>f, <3>3, CountGains, CountLoses
    <3>5. Len(queue_') = Len(queue_) /\ Waited
        BY <2>8, <3>1 DEF PopNotify
    <3> QED BY <1>0, <1>f, <1>i, <3>4, <3>5 DEF Covered
  <2>9. CASE ShutdownNotifyEmpty(t)
    <3>1. /\ Waited /\ Len(queue_)' = Len(queue_)
          /\ PopNotifying \subseteq PopNotifying' /\ PushComing \subseteq PushComing'
        BY <1>0, <2>9 DEF ShutdownNotifyEmpty, NotifyAll, cv_not_empty_,
                          cv_not_full_, PopNotifying, PushComing, At
    <3> QED BY <1>k, <3>1
  <2>10. CASE ShutdownNotifyFull(t)
    <3>1. cv_not_full_' = {}
        BY <1>0, <2>10 DEF ShutdownNotifyFull, NotifyAll, cv_not_full_
    <3> QED BY <3>1
  <2> QED BY <1>4, <2>1, <2>2, <2>3, <2>4, <2>5, <2>6, <2>7, <2>8, <2>9, <2>10 DEF Running
<1>5. ASSUME NEW t \in Threads, PopTimeout(t) \/ SpuriousWakeup(t)
      PROVE  Covered'
  <2>1. /\ Waited /\ Len(queue_)' = Len(queue_)
        /\ PopNotifying \subseteq PopNotifying' /\ PushComing \subseteq PushComing'
      BY <1>0, <1>5 DEF PopTimeout, SpuriousWakeup, Goto,
                        cv_not_full_, PopNotifying, PushComing, At
  <2> QED BY <1>k, <2>1
<1> QED BY <1>1, <1>2, <1>3, <1>4, <1>5 DEF Next

\* While the queue is open, no slot stays free beside a sleeping producer
\* without a producer on its way to it or a consumer that has still to notify.
THEOREM ProducersAreWoken == Spec => []NoLostWakeupOfProducer
<1>1. Init => NoLostWakeupOfProducer
    BY DEF Init, NoLostWakeupOfProducer, cv_not_full_
<1>2. IInv => TypeOK /\ TestedInv
    BY DEF IInv
<1> QED BY <1>1, <1>2, ProducerStep, Invariance, PTL DEF Spec
=============================================================================
