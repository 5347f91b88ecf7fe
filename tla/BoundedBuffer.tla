--------------------------- MODULE BoundedBuffer ---------------------------
(***************************************************************************)
(* What a client of the bounded buffer of project5/producer_consumer may   *)
(* rely on: a FIFO queue of at most Capacity items.  A producer offers one *)
(* item at a time and it enters the queue once; a consumer takes the item  *)
(* at the head.  The promise ends when the buffer is closed, which is when *)
(* two threads use it at once, the mutex that guards it being destroyed.   *)
(***************************************************************************)
EXTENDS Integers, Sequences

CONSTANTS Producers, Consumers, Items, Capacity, Vacant

VARIABLES queue,    \* the items in the buffer, oldest first
          offered,  \* the item a producer holds and has not stored yet
          taken,    \* the item a consumer has removed and not finished with
          closed    \* two calls have overlapped: nothing is promised any more

bvars == <<queue, offered, taken, closed>>

Init ==
  /\ queue = << >>
  /\ offered = [p \in Producers |-> Vacant]
  /\ taken = [c \in Consumers |-> Vacant]
  /\ closed = FALSE

Offer(p, v) ==
  /\ offered[p] = Vacant
  /\ offered' = [offered EXCEPT ![p] = v]
  /\ UNCHANGED <<queue, taken, closed>>

Put(p) ==
  /\ offered[p] # Vacant
  /\ Len(queue) < Capacity
  /\ queue' = Append(queue, offered[p])
  /\ offered' = [offered EXCEPT ![p] = Vacant]
  /\ UNCHANGED <<taken, closed>>

Take(c) ==
  /\ taken[c] = Vacant
  /\ queue # << >>
  /\ taken' = [taken EXCEPT ![c] = Head(queue)]
  /\ queue' = Tail(queue)
  /\ UNCHANGED <<offered, closed>>

Finish(c) ==
  /\ taken[c] # Vacant
  /\ taken' = [taken EXCEPT ![c] = Vacant]
  /\ UNCHANGED <<queue, offered, closed>>

Close ==
  /\ closed' = TRUE
  /\ UNCHANGED <<queue, offered, taken>>

Next ==
  \/ \E p \in Producers : Put(p) \/ \E v \in Items : Offer(p, v)
  \/ \E c \in Consumers : Take(c) \/ Finish(c)
  \/ Close
  \/ closed /\ closed'

Spec == Init /\ [][Next]_bvars

=============================================================================
