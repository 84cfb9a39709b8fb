---------------------------- MODULE BoundedFifo ----------------------------
(***************************************************************************)
(* What BoundedMpscMailbox promises its users: a queue of at most Capacity *)
(* entries.  A producer first reserves the next position and publishes it  *)
(* later; the consumer takes entries in reservation order and never skips  *)
(* a reserved entry that is not published yet.                             *)
(*                                                                         *)
(* Mailbox implements this specification, and Scheduler is built from two  *)
(* instances of its actions.                                               *)
(***************************************************************************)
EXTENDS Naturals, Sequences

CONSTANTS Values,     \* values that can be stored
          Capacity    \* number of usable slots

VARIABLES queue,      \* entries reserved and not yet released, in order
          delivered   \* values handed to the consumer, in order

vars == <<queue, delivered>>

Entries == [value : Values, ready : BOOLEAN]

Reserved(q, v) == Append(q, [value |-> v, ready |-> FALSE])

Published(q, i) == [q EXCEPT ![i] = [value |-> q[i].value, ready |-> TRUE]]

HeadReady(q) == q # <<>> /\ Head(q).ready
-----------------------------------------------------------------------------
Init == queue = <<>> /\ delivered = <<>>

Reserve(v) ==
  /\ Len(queue) < Capacity
  /\ queue' = Reserved(queue, v)
  /\ UNCHANGED delivered

Publish(v) ==
  \E i \in DOMAIN queue :
    /\ queue[i] = [value |-> v, ready |-> FALSE]
    /\ queue' = Published(queue, i)
    /\ UNCHANGED delivered

Pop ==
  /\ HeadReady(queue)
  /\ queue' = Tail(queue)
  /\ delivered' = Append(delivered, Head(queue).value)

\* The destructor drops what was published and never taken.
Drop ==
  /\ \A i \in DOMAIN queue : queue[i].ready
  /\ queue' = <<>>
  /\ UNCHANGED delivered

Next == (\E v \in Values : Reserve(v) \/ Publish(v)) \/ Pop \/ Drop

Spec == Init /\ [][Next]_vars
=============================================================================
