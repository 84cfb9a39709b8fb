------------------------------ MODULE Mailbox ------------------------------
(***************************************************************************)
(* BoundedMpscMailbox: a lock-free ring of Capacity slots, many producers, *)
(* one consumer.  One action per atomic access, so every interleaving of   *)
(* TryEmplace and TryPop is explored.  The relaxed loads of                *)
(* enqueue_position may return an older value than the current one, but    *)
(* never one older than the same thread saw before.  Loads and stores of a *)
(* slot sequence synchronize (acquire/release) and are taken as            *)
(* sequentially consistent.  Positions are unbounded: size_t is taken as   *)
(* never wrapping.                                                         *)
(***************************************************************************)
EXTENDS Naturals, Sequences

CONSTANTS Producers,   \* threads calling TryPush
          Capacity,    \* usable slots
          MaxPushes,   \* bound: TryPush calls per producer
          Empty        \* storage that holds no value

ASSUME CapacityAssumption == Capacity \in Nat /\ Capacity >= 2
ASSUME MaxPushesAssumption == MaxPushes \in Nat
ASSUME EmptyAssumption == Empty \notin Producers \X (1 .. MaxPushes)

VARIABLES
  enqueue_position, dequeue_position,
  sequence,      \* slot -> sequence
  storage,       \* slot -> value or Empty
  pc,            \* producer -> next atomic access
  position,      \* producer -> local copy of enqueue_position
  calls,         \* producer -> TryPush calls started
  cpc, taken,    \* consumer: next access, value moved out
  alive,         \* FALSE once the destructor ran
  reserved,      \* history: values in the order of their reservation
  delivered,     \* history: values TryPop returned, in order
  destroyed      \* history: values the destructor destroyed

shared == <<enqueue_position, dequeue_position, sequence, storage>>
vars == <<shared, pc, position, calls, cpc, taken, alive, reserved, delivered, destroyed>>

Slots == 0 .. Capacity - 1
SlotOf(q) == q % Capacity
Values == Producers \X (1 .. MaxPushes)

\* The value producer p's current call pushes.
ValueOf(p) == <<p, calls[p]>>

Init ==
  /\ enqueue_position = 0
  /\ dequeue_position = 0
  /\ sequence = [s \in Slots |-> s]
  /\ storage = [s \in Slots |-> Empty]
  /\ pc = [p \in Producers |-> "idle"]
  /\ position = [p \in Producers |-> 0]
  /\ calls = [p \in Producers |-> 0]
  /\ cpc = "idle"
  /\ taken = Empty
  /\ alive = TRUE
  /\ reserved = <<>>
  /\ delivered = <<>>
  /\ destroyed = {}
-----------------------------------------------------------------------------
(* TryEmplace *)

TryPush(p) ==
  /\ alive
  /\ pc[p] = "idle"
  /\ calls[p] < MaxPushes
  /\ calls' = [calls EXCEPT ![p] = @ + 1]
  /\ pc' = [pc EXCEPT ![p] = "load"]
  /\ UNCHANGED <<shared, position, cpc, taken, alive, reserved, delivered, destroyed>>

LoadPosition(p) ==
  /\ pc[p] = "load"
  /\ \E q \in position[p] .. enqueue_position : position' = [position EXCEPT ![p] = q]
  /\ pc' = [pc EXCEPT ![p] = "sequence"]
  /\ UNCHANGED <<shared, calls, cpc, taken, alive, reserved, delivered, destroyed>>

\* Faulty: takes an occupied slot for a free one.
LoadSequence_Occupied(p) ==
  LET s == sequence[SlotOf(position[p])] IN
  /\ pc[p] = "sequence"
  /\ \/ s <= position[p] /\ pc' = [pc EXCEPT ![p] = "exchange"]
     \/ s > position[p] /\ pc' = [pc EXCEPT ![p] = "load"]
  /\ UNCHANGED <<shared, position, calls, cpc, taken, alive, reserved, delivered, destroyed>>

\* Faulty: gives up on a position another producer has taken.
LoadSequence_GiveUp(p) ==
  LET s == sequence[SlotOf(position[p])] IN
  /\ pc[p] = "sequence"
  /\ pc' = [pc EXCEPT ![p] = IF s = position[p] THEN "exchange" ELSE "idle"]
  /\ UNCHANGED <<shared, position, calls, cpc, taken, alive, reserved, delivered, destroyed>>

\* What the slot's sequence tells the producer: the slot is free for the
\* position, the mailbox is full (return false), or the position is old.
LoadSequence(p) ==
  LET s == sequence[SlotOf(position[p])] IN
  /\ pc[p] = "sequence"
  /\ \/ s = position[p] /\ pc' = [pc EXCEPT ![p] = "exchange"]
     \/ s < position[p] /\ pc' = [pc EXCEPT ![p] = "idle"]
     \/ s > position[p] /\ pc' = [pc EXCEPT ![p] = "load"]
  /\ UNCHANGED <<shared, position, calls, cpc, taken, alive, reserved, delivered, destroyed>>

\* Faulty: a plain store instead of the compare-exchange.
CompareExchange_Store(p) ==
  /\ pc[p] = "exchange"
  /\ enqueue_position' = position[p] + 1
  /\ reserved' = Append(reserved, ValueOf(p))
  /\ pc' = [pc EXCEPT ![p] = "construct"]
  /\ UNCHANGED <<dequeue_position, sequence, storage, position, calls, cpc, taken, alive,
                 delivered, destroyed>>

\* compare_exchange_weak: success reserves the position; failure, possible
\* even when the position is current, refreshes the local copy.
CompareExchange(p) ==
  /\ pc[p] = "exchange"
  /\ \/ /\ enqueue_position = position[p]
        /\ enqueue_position' = position[p] + 1
        /\ reserved' = Append(reserved, ValueOf(p))
        /\ pc' = [pc EXCEPT ![p] = "construct"]
        /\ UNCHANGED position
     \/ /\ \E q \in position[p] .. enqueue_position : position' = [position EXCEPT ![p] = q]
        /\ pc' = [pc EXCEPT ![p] = "sequence"]
        /\ UNCHANGED <<enqueue_position, reserved>>
  /\ UNCHANGED <<dequeue_position, sequence, storage, calls, cpc, taken, alive,
                 delivered, destroyed>>

Construct(p) ==
  /\ pc[p] = "construct"
  /\ storage' = [storage EXCEPT ![SlotOf(position[p])] = ValueOf(p)]
  /\ pc' = [pc EXCEPT ![p] = "publish"]
  /\ UNCHANGED <<enqueue_position, dequeue_position, sequence, position, calls, cpc, taken,
                 alive, reserved, delivered, destroyed>>

Publish(p) ==
  /\ pc[p] = "publish"
  /\ sequence' = [sequence EXCEPT ![SlotOf(position[p])] = position[p] + 1]
  /\ pc' = [pc EXCEPT ![p] = "idle"]
  /\ UNCHANGED <<enqueue_position, dequeue_position, storage, position, calls, cpc, taken,
                 alive, reserved, delivered, destroyed>>
-----------------------------------------------------------------------------
(* TryPop.  A call that finds the head unpublished returns nullopt and     *)
(* changes nothing.                                                        *)

HeadPublished == sequence[SlotOf(dequeue_position)] = dequeue_position + 1

PopCheck ==
  /\ alive
  /\ cpc = "idle"
  /\ HeadPublished
  /\ cpc' = "move"
  /\ UNCHANGED <<shared, pc, position, calls, taken, alive, reserved, delivered, destroyed>>

PopMove ==
  /\ cpc = "move"
  /\ taken' = storage[SlotOf(dequeue_position)]
  /\ storage' = [storage EXCEPT ![SlotOf(dequeue_position)] = Empty]
  /\ cpc' = "release"
  /\ UNCHANGED <<enqueue_position, dequeue_position, sequence, pc, position, calls, alive,
                 reserved, delivered, destroyed>>

PopRelease ==
  /\ cpc = "release"
  /\ sequence' = [sequence EXCEPT ![SlotOf(dequeue_position)] = dequeue_position + Capacity]
  /\ delivered' = Append(delivered, taken)
  /\ taken' = Empty
  /\ cpc' = "advance"
  /\ UNCHANGED <<enqueue_position, dequeue_position, storage, pc, position, calls, alive,
                 reserved, destroyed>>

PopAdvance ==
  /\ cpc = "advance"
  /\ dequeue_position' = dequeue_position + 1
  /\ cpc' = "idle"
  /\ UNCHANGED <<enqueue_position, sequence, storage, pc, position, calls, taken, alive,
                 reserved, delivered, destroyed>>
-----------------------------------------------------------------------------
(* Destructor: the owner has stopped every producer and the consumer.      *)

\* The run of published positions DestroyRemaining walks over.
PublishedRun ==
  {q \in dequeue_position .. enqueue_position :
     \A r \in dequeue_position .. q : sequence[SlotOf(r)] = r + 1}

DestroyRemaining ==
  /\ alive
  /\ cpc = "idle"
  /\ \A p \in Producers : pc[p] = "idle"
  /\ alive' = FALSE
  /\ destroyed' = {storage[SlotOf(q)] : q \in PublishedRun}
  /\ storage' = [s \in Slots |-> IF \E q \in PublishedRun : SlotOf(q) = s THEN Empty ELSE storage[s]]
  /\ sequence' = [s \in Slots |->
                    IF \E q \in PublishedRun : SlotOf(q) = s THEN sequence[s] - 1 + Capacity
                    ELSE sequence[s]]
  /\ \E n \in dequeue_position .. enqueue_position :
       /\ PublishedRun = dequeue_position .. n - 1
       /\ dequeue_position' = n
  /\ UNCHANGED <<enqueue_position, pc, position, calls, cpc, taken, reserved, delivered>>
-----------------------------------------------------------------------------
Producing(p) ==
  TryPush(p) \/ LoadPosition(p) \/ LoadSequence(p) \/ CompareExchange(p) \/ Construct(p)
    \/ Publish(p)

Consuming == PopCheck \/ PopMove \/ PopRelease \/ PopAdvance

\* After its destruction the mailbox is not used any more.
Gone == ~alive /\ UNCHANGED vars

Next == (\E p \in Producers : Producing(p)) \/ Consuming \/ DestroyRemaining \/ Gone

Spec == Init /\ [][Next]_vars
-----------------------------------------------------------------------------
(* Properties *)

TypeOK ==
  /\ enqueue_position \in Nat
  /\ dequeue_position \in Nat
  /\ sequence \in [Slots -> Nat]
  /\ storage \in [Slots -> Values \cup {Empty}]
  /\ pc \in [Producers -> {"idle", "load", "sequence", "exchange", "construct", "publish"}]
  /\ position \in [Producers -> Nat]
  /\ calls \in [Producers -> 0 .. MaxPushes]
  /\ cpc \in {"idle", "move", "release", "advance"}
  /\ taken \in Values \cup {Empty}
  /\ alive \in BOOLEAN
  /\ reserved \in Seq(Values)
  /\ delivered \in Seq(Values)
  /\ destroyed \in SUBSET Values

\* Positions whose slot the consumer has released.
Released == IF cpc = "advance" THEN dequeue_position + 1 ELSE dequeue_position

Filling(p) == pc[p] \in {"construct", "publish"}

\* TryPop hands values out in the order in which TryEmplace reserved their
\* positions: nothing is lost, duplicated or reordered, in every interleaving
\* of the compare-exchanges, constructions and publications.
FifoByReservation ==
  /\ Len(delivered) <= Len(reserved)
  /\ \A i \in 1 .. Len(delivered) : delivered[i] = reserved[i]

\* The storage of a slot has one user at a time: a producer constructs only
\* into empty storage, the consumer moves only out of constructed storage, and
\* no two of them work on the same slot (the placement new and the move in the
\* code are not atomic).
ExclusiveStorage ==
  /\ \A p \in Producers : pc[p] = "construct" => storage[SlotOf(position[p])] = Empty
  /\ cpc = "move" => storage[SlotOf(dequeue_position)] # Empty
  /\ \A p, r \in Producers :
       Filling(p) /\ Filling(r) /\ p # r => SlotOf(position[p]) # SlotOf(position[r])
  /\ \A p \in Producers :
       Filling(p) /\ cpc \in {"move", "release"} =>
         SlotOf(position[p]) # SlotOf(dequeue_position)

\* TryEmplace returns false only at a moment when all Capacity slots are
\* reserved and not released, although it decides on a position that other
\* producers may have moved on from.
RejectsOnlyWhenFull ==
  [][\A p \in Producers :
       pc[p] = "sequence" /\ pc'[p] = "idle" => enqueue_position = Released + Capacity]_vars

\* The destructor destroys every value that was pushed and not popped, once,
\* and leaves no value in the slots.
DestroysTheRest ==
  ~alive =>
    /\ \A s \in Slots : storage[s] = Empty
    /\ destroyed = {reserved[i] : i \in Len(delivered) + 1 .. Len(reserved)}

\* The positions the ring can currently hold.
Window == Released .. Released + Capacity - 1

\* What a slot's sequence says about the position of the window it stands for:
\* free, reserved by exactly one producer, or published.
SlotState(q) ==
  LET s == SlotOf(q) IN
  /\ q >= enqueue_position => sequence[s] = q /\ storage[s] = Empty
  /\ q < enqueue_position =>
       \/ sequence[s] = q /\ \E p \in Producers : Filling(p) /\ position[p] = q
       \/ /\ sequence[s] = q + 1
          /\ storage[s] = IF cpc = "release" /\ q = dequeue_position THEN Empty
                          ELSE reserved[q + 1]

\* What a producer that reserved a position and did not publish it yet owns.
FillingState(p) ==
  /\ position[p] \in Released .. enqueue_position - 1
  /\ sequence[SlotOf(position[p])] = position[p]
  /\ storage[SlotOf(position[p])] = IF pc[p] = "construct" THEN Empty ELSE ValueOf(p)
  /\ reserved[position[p] + 1] = ValueOf(p)
  /\ \A r \in Producers : Filling(r) /\ position[r] = position[p] => r = p

\* The ring in every state between two atomic accesses; the inductive
\* strengthening of the invariants above.
Histories ==
  /\ Len(reserved) = enqueue_position
  /\ FifoByReservation
  /\ alive => Len(delivered) = Released

Bounds ==
  /\ \A p \in Producers : position[p] <= enqueue_position
  /\ \A p \in Producers : pc[p] # "idle" => calls[p] > 0
  /\ IF alive THEN Released <= enqueue_position /\ enqueue_position <= Released + Capacity
              ELSE cpc = "idle" /\ \A p \in Producers : pc[p] = "idle"

SlotsInv == alive => \A q \in Window : SlotState(q)

FillingInv == \A p \in Producers : Filling(p) => FillingState(p)

\* A producer about to exchange a position that is still current has a free
\* slot waiting for it.
ExchangeInv ==
  \A p \in Producers :
    pc[p] = "exchange" /\ position[p] = enqueue_position => enqueue_position < Released + Capacity

HeadInv ==
  /\ cpc \in {"move", "release"} =>
       /\ dequeue_position < enqueue_position
       /\ sequence[SlotOf(dequeue_position)] = dequeue_position + 1
  /\ cpc = "release" => taken = reserved[dequeue_position + 1]

RingInv == Histories /\ Bounds /\ SlotsInv /\ FillingInv /\ ExchangeInv /\ HeadInv

\* The mailbox implements BoundedFifo.  An entry leaves the abstract queue when
\* the consumer releases its slot.
FifoQueue ==
  [i \in 1 .. enqueue_position - Released |->
     [value |-> reserved[Released + i],
      ready |-> sequence[SlotOf(Released + i - 1)] = Released + i]]

Fifo == INSTANCE BoundedFifo WITH queue <- FifoQueue

\* Every step of the ring is a step of the bounded FIFO queue or invisible.
ImplementsFifo == Fifo!Spec

\* What becomes of a command: it has a slot to itself while it is stored, leaves in
\* the order in which positions were reserved, and is destroyed with the mailbox if it
\* was still in it.
CommandsKept == FifoByReservation /\ ExclusiveStorage /\ DestroysTheRest
=============================================================================
