---------------------------- MODULE DurableStore ----------------------------
(***************************************************************************)
(* What the storage engine promises its callers, whatever locks, flags and *)
(* transactions it is built from: each call is answered at most once; the  *)
(* rows of a call enter the file together, at the moment that decides the  *)
(* answer "true"; a call answered "false" changes nothing; and nothing     *)
(* leaves the file.  The death of the process changes nothing here: the    *)
(* calls it interrupts are never answered.                                 *)
(***************************************************************************)
EXTENDS Integers, Sequences

CONSTANT Sizes        \* how many rows a call can carry

VARIABLES calls,      \* number of rows of each call so far
          committed,  \* rows in the file, named by call and place
          acked,      \* calls answered "true"
          nacked,     \* calls answered "false"
          astray      \* calls answered "true" whose rows went elsewhere

storeVars == <<calls, committed, acked, nacked, astray>>

Unanswered == DOMAIN calls \ (acked \cup nacked)

StoreInit == /\ calls = <<>>
             /\ committed = {}
             /\ acked = {} /\ nacked = {} /\ astray = {}

Issue(size) == /\ calls' = Append(calls, size)
               /\ UNCHANGED <<committed, acked, nacked, astray>>

Keep(n) == /\ committed' = committed \cup {<<n, i>> : i \in 1 .. calls[n]}
           /\ acked' = acked \cup {n}
           /\ UNCHANGED <<calls, nacked, astray>>

Refuse(n) == /\ nacked' = nacked \cup {n}
             /\ UNCHANGED <<calls, committed, acked, astray>>

\* What a store must not do: to answer "true" and keep nothing.
Misplace(n) == /\ acked' = acked \cup {n}
               /\ astray' = astray \cup {n}
               /\ UNCHANGED <<calls, committed, nacked>>

SoundNext == \/ \E size \in Sizes : Issue(size)
             \/ \E n \in Unanswered : Keep(n) \/ Refuse(n)

StoreNext == SoundNext \/ \E n \in Unanswered : calls[n] = 1 /\ Misplace(n)

\* A store that can be trusted, and one that may misplace a single insertion.
SoundSpec == StoreInit /\ [][SoundNext]_storeVars
StoreSpec == StoreInit /\ [][StoreNext]_storeVars
=============================================================================
