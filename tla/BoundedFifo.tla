---------------------------- MODULE BoundedFifo ----------------------------
(***************************************************************************)
(* What a bounded multi-producer multi-consumer queue promises, whatever   *)
(* locks and condition variables it is built from: items are accepted one  *)
(* at a time while there is room and the queue is open, and are delivered  *)
(* in the order of acceptance, each exactly once.  Closing the queue stops *)
(* acceptance and leaves delivery of what was accepted possible.           *)
(***************************************************************************)
EXTENDS Integers, Sequences

CONSTANTS Items,      \* what can be accepted
          Capacity    \* most items accepted and not yet delivered

VARIABLES accepted,    \* items accepted so far, oldest first
          delivered,   \* items delivered so far, oldest first
          closed       \* acceptance has ended

fifoVars == <<accepted, delivered, closed>>

FifoInit == /\ accepted = <<>>
            /\ delivered = <<>>
            /\ closed = FALSE

Accept == /\ ~closed
          /\ Len(accepted) - Len(delivered) < Capacity
          /\ \E x \in Items : accepted' = Append(accepted, x)
          /\ UNCHANGED <<delivered, closed>>

Deliver == /\ Len(delivered) < Len(accepted)
           /\ delivered' = Append(delivered, accepted[Len(delivered) + 1])
           /\ UNCHANGED <<accepted, closed>>

Close == /\ closed' = TRUE
         /\ UNCHANGED <<accepted, delivered>>

FifoNext == Accept \/ Deliver \/ Close

FifoSpec == FifoInit /\ [][FifoNext]_fifoVars
=============================================================================
