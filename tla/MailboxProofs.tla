--------------------------- MODULE MailboxProofs ---------------------------
(* Theorems about Mailbox, for every capacity and every set of producers.  *)
EXTENDS Mailbox, Integers, TLAPS

\* Division with remainder, as the provers know it.
LEMMA DivMod ==
  ASSUME NEW C \in Nat, C > 0, NEW a \in Nat
  PROVE  /\ a % C \in 0 .. C - 1
         /\ a \div C \in Nat
         /\ a = C * (a \div C) + (a % C)
OBVIOUS

\* Multiples of C that differ are at least C apart.
LEMMA MultiplesApart ==
  ASSUME NEW C \in Nat, C > 0, NEW x \in Int, NEW y \in Int, x > y
  PROVE  C * x >= C * y + C
OBVIOUS

\* Two positions less than C apart with the same remainder are the same.
LEMMA SameRemainder ==
  ASSUME NEW C \in Nat, C > 0, NEW a \in Nat, NEW b \in Nat,
         a % C = b % C, a - b < C, b - a < C
  PROVE  a = b
<1>1. /\ a = C * (a \div C) + (a % C) /\ a \div C \in Nat
      /\ b = C * (b \div C) + (b % C) /\ b \div C \in Nat
  BY DivMod
<1>2. CASE a \div C > b \div C
  BY <1>1, <1>2, MultiplesApart
<1>3. CASE a \div C < b \div C
  BY <1>1, <1>3, MultiplesApart
<1>4. CASE a \div C = b \div C
  BY <1>1, <1>4
<1> QED BY <1>1, <1>2, <1>3, <1>4

\* Positions C apart have the same remainder.
LEMMA NextRemainder ==
  ASSUME NEW C \in Nat, C > 0, NEW a \in Nat
  PROVE  (a + C) % C = a % C
<1>1. /\ a = C * (a \div C) + (a % C) /\ a \div C \in Nat /\ a % C \in 0 .. C - 1
      /\ a + C = C * ((a + C) \div C) + ((a + C) % C)
      /\ (a + C) \div C \in Nat /\ (a + C) % C \in 0 .. C - 1
  BY DivMod
<1>2. CASE a \div C + 1 > (a + C) \div C
  BY <1>1, <1>2, MultiplesApart
<1>3. CASE a \div C + 1 < (a + C) \div C
  BY <1>1, <1>3, MultiplesApart
<1>4. CASE a \div C + 1 = (a + C) \div C
  BY <1>1, <1>4, MultiplesApart
<1> QED BY <1>1, <1>2, <1>3, <1>4

\* The remainder of a number written as a multiple and a rest.
LEMMA RemainderOf ==
  ASSUME NEW C \in Nat, C > 0, NEW x \in Nat, NEW s \in 0 .. C - 1
  PROVE  C * x + s \in Nat /\ (C * x + s) % C = s
<1> DEFINE a == C * x + s
<1>0. a \in Nat
  OBVIOUS
<1>1. a = C * (a \div C) + (a % C) /\ a \div C \in Nat /\ a % C \in 0 .. C - 1
  BY <1>0, DivMod
<1>2. CASE a \div C > x
  BY <1>0, <1>1, <1>2, MultiplesApart
<1>3. CASE a \div C < x
  BY <1>0, <1>1, <1>3, MultiplesApart
<1>4. CASE a \div C = x
  BY <1>0, <1>1, <1>4
<1> QED BY <1>1, <1>2, <1>3, <1>4

\* Any C consecutive positions have every remainder.
LEMMA EveryRemainder ==
  ASSUME NEW C \in Nat, C > 0, NEW a \in Nat, NEW s \in 0 .. C - 1
  PROVE  \E q \in a .. a + C - 1 : q % C = s
<1> DEFINE d == a \div C
           m == a % C
<1>1. a = C * d + m /\ d \in Nat /\ m \in 0 .. C - 1
  BY DivMod
<1>2. CASE s >= m
  <2>1. C * d + s \in a .. a + C - 1
    BY <1>1, <1>2
  <2> QED BY <1>1, <2>1, RemainderOf
<1>3. CASE s < m
  <2>1. C * (d + 1) + s \in a .. a + C - 1
    BY <1>1, <1>3
  <2>2. \A x \in Nat : (C * x + s) % C = s
    BY RemainderOf
  <2>3. d + 1 \in Nat
    BY <1>1
  <2> QED BY <2>1, <2>2, <2>3
<1> QED BY <1>1, <1>2, <1>3

\* What the proofs below use of the mapping from positions to slots: it hits
\* the slots, is one-to-one on any Capacity consecutive positions, and has
\* period Capacity.
LEMMA SlotFacts ==
  /\ \A q \in Nat : SlotOf(q) \in Slots
  /\ \A q, r \in Nat : SlotOf(q) = SlotOf(r) /\ q - r < Capacity /\ r - q < Capacity => q = r
  /\ \A q \in Nat : SlotOf(q + Capacity) = SlotOf(q)
  /\ \A q \in Slots : SlotOf(q) = q
<1>0. Capacity \in Nat /\ Capacity > 0
  BY CapacityAssumption
<1>1. ASSUME NEW q \in Nat PROVE SlotOf(q) \in Slots
  BY <1>0, DivMod DEF SlotOf, Slots
<1>2. ASSUME NEW q \in Nat, NEW r \in Nat,
             SlotOf(q) = SlotOf(r), q - r < Capacity, r - q < Capacity
      PROVE  q = r
  BY <1>0, <1>2, SameRemainder DEF SlotOf
<1>3. ASSUME NEW q \in Nat PROVE SlotOf(q + Capacity) = SlotOf(q)
  BY <1>0, NextRemainder DEF SlotOf
<1>4. ASSUME NEW q \in Slots PROVE SlotOf(q) = q
  <2>1. /\ q \in Nat /\ q < Capacity
        /\ q % Capacity \in 0 .. Capacity - 1
        /\ q \div Capacity \in Nat
        /\ q = Capacity * (q \div Capacity) + (q % Capacity)
    BY <1>0, DivMod DEF Slots
  <2>2. CASE q \div Capacity > 0
    <3>1. Capacity * (q \div Capacity) >= Capacity * 0 + Capacity
      BY <1>0, <2>1, <2>2, MultiplesApart
    <3> QED BY <1>0, <2>1, <3>1
  <2>3. CASE q \div Capacity = 0
    BY <1>0, <2>1, <2>3 DEF SlotOf
  <2> QED BY <2>1, <2>2, <2>3
<1> QED BY <1>1, <1>2, <1>3, <1>4
-----------------------------------------------------------------------------
Inv == TypeOK /\ RingInv

\* A new mailbox: every slot is free for its first position.
LEMMA InitInv == Init => Inv
<1> SUFFICES ASSUME Init PROVE Inv
  OBVIOUS
<1> USE DEF Init
<1>1. TypeOK
  BY CapacityAssumption, MaxPushesAssumption DEF TypeOK, Slots, Values
<1>2. \A q \in Window : q \in Slots /\ SlotOf(q) = q
  <2>1. Window = Slots
    BY CapacityAssumption DEF Window, Released, Slots
  <2> QED BY <2>1, SlotFacts
<1>3. RingInv
  BY <1>2, CapacityAssumption
     DEF RingInv, Histories, Bounds, SlotsInv, FillingInv, ExchangeInv, HeadInv,
         FifoByReservation, Released, Window, SlotState, Filling
<1> QED BY <1>1, <1>3 DEF Inv

\* Steps that touch neither the ring nor a producer that holds a reservation.
LEMMA LocalStep ==
  ASSUME SlotsInv, FillingInv, HeadInv,
         UNCHANGED <<shared, cpc, taken, alive, reserved, delivered>>,
         \A r \in Producers : Filling(r)' = Filling(r),
         \A r \in Producers : Filling(r) =>
           pc'[r] = pc[r] /\ position'[r] = position[r] /\ calls'[r] = calls[r]
  PROVE  SlotsInv' /\ FillingInv' /\ HeadInv'
<1>1. Released' = Released /\ Window' = Window
  BY DEF Released, Window, shared
<1>2. SlotsInv'
  BY <1>1 DEF SlotsInv, SlotState, shared
<1>3. FillingInv'
  BY <1>1 DEF FillingInv, FillingState, ValueOf, shared
<1>4. HeadInv'
  BY DEF HeadInv, shared
<1> QED BY <1>2, <1>3, <1>4

LEMMA TryPushInv == ASSUME Inv, NEW p \in Producers, TryPush(p) PROVE Inv'
<1> USE MaxPushesAssumption DEF Inv, RingInv
<1>1. TypeOK'
  BY SMTT(30) DEF TypeOK, TryPush, shared, Values
<1>2. SlotsInv' /\ FillingInv' /\ HeadInv'
  BY LocalStep DEF TryPush, Filling, TypeOK
<1>3. Histories' /\ Bounds' /\ ExchangeInv'
  BY DEF Histories, Bounds, ExchangeInv, FifoByReservation, Released, TryPush, TypeOK, shared
<1> QED BY <1>1, <1>2, <1>3

LEMMA LoadPositionInv == ASSUME Inv, NEW p \in Producers, LoadPosition(p) PROVE Inv'
<1> USE DEF Inv, RingInv
<1>1. TypeOK'
  BY DEF TypeOK, LoadPosition, shared
<1>2. SlotsInv' /\ FillingInv' /\ HeadInv'
  BY LocalStep DEF LoadPosition, Filling, TypeOK
<1>3. Histories' /\ Bounds' /\ ExchangeInv'
  BY DEF Histories, Bounds, ExchangeInv, FifoByReservation, Released, LoadPosition, TypeOK, shared
<1> QED BY <1>1, <1>2, <1>3

\* The slot of the next position is free only if the ring is not full: a full
\* ring has the oldest unreleased position in that slot.
LEMMA FullSlot ==
  ASSUME Inv, alive, enqueue_position = Released + Capacity
  PROVE  sequence[SlotOf(enqueue_position)] \in {Released, Released + 1}
<1> USE CapacityAssumption DEF Inv, RingInv
<1>1. Released \in Window /\ Released \in Nat /\ Released < enqueue_position
  BY DEF Released, Window, TypeOK
<1>2. SlotOf(enqueue_position) = SlotOf(Released)
  BY <1>1, SlotFacts
<1>3. SlotState(Released)
  BY <1>1 DEF SlotsInv
<1> QED BY <1>1, <1>2, <1>3 DEF SlotState, TypeOK

LEMMA LoadSequenceInv == ASSUME Inv, NEW p \in Producers, LoadSequence(p) PROVE Inv'
<1> USE CapacityAssumption DEF Inv, RingInv
<1>1. TypeOK'
  BY DEF TypeOK, LoadSequence, shared
<1>2. SlotsInv' /\ FillingInv' /\ HeadInv'
  BY LocalStep DEF LoadSequence, Filling, TypeOK
<1>3. Histories' /\ Bounds'
  BY DEF Histories, Bounds, FifoByReservation, Released, LoadSequence, TypeOK, shared
<1>4. ExchangeInv'
  <2>1. alive /\ Released \in Nat /\ Released' = Released
    BY DEF LoadSequence, Bounds, TypeOK, Released, shared
  <2>2. pc'[p] = "exchange" /\ position'[p] = enqueue_position =>
          enqueue_position < Released + Capacity
    BY <2>1, FullSlot DEF LoadSequence, Bounds, TypeOK
  <2> QED BY <2>1, <2>2 DEF ExchangeInv, LoadSequence, TypeOK, shared
<1> QED BY <1>1, <1>2, <1>3, <1>4

\* The slot at the tail is free for the next position.
LEMMA TailSlot ==
  ASSUME enqueue_position \in Nat, SlotState(enqueue_position)
  PROVE  sequence[SlotOf(enqueue_position)] = enqueue_position
BY DEF SlotState

\* A call under way pushes a proper value.
LEMMA ValueType ==
  ASSUME TypeOK, Bounds, NEW p \in Producers, pc[p] # "idle"
  PROVE  ValueOf(p) \in Values
<1>1. calls[p] \in 1 .. MaxPushes
  BY MaxPushesAssumption DEF Bounds, TypeOK
<1> QED BY <1>1 DEF ValueOf, Values

\* A successful compare-exchange turns the first free position of the window
\* into a reservation of p, and disturbs no other position.
LEMMA CompareExchangeInv == ASSUME Inv, NEW p \in Producers, CompareExchange(p) PROVE Inv'
<1> USE CapacityAssumption DEF Inv, RingInv
<1>0. alive /\ Released \in Nat /\ Released' = Released /\ Window' = Window
  BY DEF CompareExchange, Bounds, TypeOK, Released, Window
<1>1. CASE /\ \E q \in position[p] .. enqueue_position : position' = [position EXCEPT ![p] = q]
           /\ pc' = [pc EXCEPT ![p] = "sequence"]
           /\ UNCHANGED <<enqueue_position, reserved>>
  <2>1. PICK q \in position[p] .. enqueue_position : position' = [position EXCEPT ![p] = q]
    BY <1>1
  <2>2. UNCHANGED <<dequeue_position, sequence, storage, calls, cpc, taken, alive, delivered, destroyed>>
    BY DEF CompareExchange
  <2>3. TypeOK'
    BY <1>1, <2>1, <2>2 DEF TypeOK
  <2>4. SlotsInv' /\ FillingInv' /\ HeadInv'
    BY <1>1, <2>1, <2>2, LocalStep DEF CompareExchange, Filling, TypeOK, shared
  <2>5. Histories'
    BY <1>0, <1>1, <2>2 DEF Histories, FifoByReservation
  <2>6. Bounds' /\ ExchangeInv'
    BY <1>0, <1>1, <2>1, <2>2 DEF Bounds, ExchangeInv, TypeOK, CompareExchange
  <2> QED BY <2>3, <2>4, <2>5, <2>6
<1>2. CASE /\ enqueue_position = position[p]
           /\ enqueue_position' = position[p] + 1
           /\ reserved' = Append(reserved, ValueOf(p))
           /\ pc' = [pc EXCEPT ![p] = "construct"]
           /\ UNCHANGED position
  <2> USE <1>0, <1>2
  <2>1. UNCHANGED <<dequeue_position, sequence, storage, calls, cpc, taken, alive, delivered, destroyed>>
    BY DEF CompareExchange
  <2>2. ValueOf(p) \in Values /\ enqueue_position < Released + Capacity
    <3>1. pc[p] = "exchange"
      BY DEF CompareExchange
    <3>2. ValueOf(p) \in Values
      BY <3>1, ValueType
    <3> QED BY <3>1, <3>2 DEF ExchangeInv
  <2>3. /\ Len(reserved') = Len(reserved) + 1
        /\ \A i \in 1 .. Len(reserved) : reserved'[i] = reserved[i]
        /\ reserved'[Len(reserved) + 1] = ValueOf(p)
    BY <2>2 DEF TypeOK
  <2>4. TypeOK'
    BY <2>1, <2>2 DEF TypeOK
  <2>5. Histories'
    BY <2>1, <2>3 DEF Histories, FifoByReservation, TypeOK
  <2>6. Bounds' /\ ExchangeInv'
    <3>1. \A r \in Producers : position'[r] <= enqueue_position /\ position'[r] \in Nat
      BY DEF Bounds, TypeOK
    <3>2. \A r \in Producers : pc'[r] # "idle" => calls'[r] > 0
      BY <2>1 DEF Bounds, TypeOK, CompareExchange
    <3> QED BY <2>1, <2>2, <3>1, <3>2 DEF Bounds, ExchangeInv, TypeOK
  <2>7. sequence[SlotOf(enqueue_position)] = enqueue_position /\ storage[SlotOf(enqueue_position)] = Empty
    <3>1. enqueue_position \in Window
      BY <2>2 DEF Window, Bounds, TypeOK
    <3> QED BY <3>1 DEF SlotsInv, SlotState, TypeOK
  <2>8. \A r \in Producers : Filling(r)' <=> (Filling(r) \/ r = p)
    BY DEF Filling, TypeOK
  <2>9. SlotsInv'
    <3> SUFFICES ASSUME NEW q \in Window PROVE SlotState(q)'
      BY DEF SlotsInv
    <3>1. SlotState(q) /\ q \in Nat
      BY DEF SlotsInv, Window
    <3>2. CASE q = enqueue_position
      BY <2>1, <2>7, <2>8, <3>1, <3>2 DEF SlotState, TypeOK
    <3>3. CASE q > enqueue_position
      BY <2>1, <3>1, <3>3 DEF SlotState, TypeOK
    <3>4. CASE q < enqueue_position
      <4>1. reserved'[q + 1] = reserved[q + 1]
        BY <2>3, <3>1, <3>4 DEF Histories, TypeOK
      <4>2. (\E t \in Producers : Filling(t) /\ position[t] = q) =>
              (\E t \in Producers : Filling(t)' /\ position'[t] = q)
        BY <2>8
      <4> QED BY <2>1, <3>1, <3>4, <4>1, <4>2 DEF SlotState, TypeOK
    <3> QED BY <3>1, <3>2, <3>3, <3>4 DEF TypeOK
  <2>10. FillingInv'
    <3> SUFFICES ASSUME NEW r \in Producers, Filling(r)' PROVE FillingState(r)'
      BY DEF FillingInv
    <3>1. CASE r = p
      <4>1. \A t \in Producers : Filling(t) => position[t] < enqueue_position
        BY DEF FillingInv, FillingState, TypeOK
      <4>2. reserved'[position'[p] + 1] = ValueOf(p)'
        BY <2>1, <2>3 DEF Histories, ValueOf
      <4>3. position'[p] \in Released .. enqueue_position' - 1
        BY DEF TypeOK, Bounds
      <4>4. ASSUME NEW t \in Producers, Filling(t)', position'[t] = position'[p] PROVE t = p
        <5>1. CASE Filling(t)
          <6>1. position[t] < enqueue_position
            BY <4>1, <5>1
          <6> QED BY <4>4, <6>1 DEF TypeOK
        <5> QED BY <2>8, <4>4, <5>1
      <4> QED BY <2>1, <2>7, <3>1, <4>2, <4>3, <4>4 DEF FillingState, TypeOK
    <3>2. CASE r # p
      <4>1. Filling(r) /\ FillingState(r) /\ pc'[r] = pc[r]
        BY <2>8, <3>2 DEF FillingInv, TypeOK
      <4>2. position[r] \in Nat /\ position[r] >= Released /\ position[r] < enqueue_position
        BY <4>1 DEF FillingState, TypeOK
      <4>3. reserved'[position'[r] + 1] = ValueOf(r)'
        BY <2>1, <2>3, <4>1, <4>2 DEF FillingState, Histories, ValueOf, TypeOK
      <4>4. ASSUME NEW t \in Producers, Filling(t)', position'[t] = position'[r] PROVE t = r
        BY <2>8, <4>1, <4>2, <4>4 DEF FillingState
      <4>5. position'[r] \in Released' .. enqueue_position' - 1
        BY <4>2 DEF TypeOK
      <4> QED BY <2>1, <4>1, <4>3, <4>4, <4>5 DEF FillingState, ValueOf
    <3> QED BY <3>1, <3>2
  <2>11. HeadInv'
    BY <2>1, <2>3 DEF HeadInv, TypeOK, Histories
  <2> QED BY <2>4, <2>5, <2>6, <2>9, <2>10, <2>11
<1> QED BY <1>1, <1>2 DEF CompareExchange

\* Two positions in use at the same time lie in different slots.
LEMMA WindowSlots ==
  ASSUME TypeOK, NEW q \in Window, NEW r \in Window, SlotOf(q) = SlotOf(r)
  PROVE  q = r
<1>1. q \in Nat /\ r \in Nat /\ q - r < Capacity /\ r - q < Capacity
  BY CapacityAssumption DEF Window, Released, TypeOK
<1> QED BY <1>1, SlotFacts

\* The slot of a position in use.
LEMMA WindowSlot ==
  ASSUME TypeOK, NEW q \in Window
  PROVE  q \in Nat /\ SlotOf(q) \in Slots
<1>1. q \in Nat
  BY CapacityAssumption DEF Window, Released, TypeOK
<1> QED BY <1>1, SlotFacts

\* The position of a reservation is in the window, reserved and not published.
LEMMA FillingWindow ==
  ASSUME Inv, NEW p \in Producers, Filling(p)
  PROVE  /\ alive /\ FillingState(p) /\ position[p] \in Window /\ position[p] < enqueue_position
         /\ SlotOf(position[p]) \in Slots
<1>1. alive /\ FillingState(p)
  BY DEF Inv, RingInv, FillingInv, Filling, Bounds
<1>2. position[p] \in Window /\ position[p] < enqueue_position
  BY <1>1, CapacityAssumption DEF Inv, RingInv, FillingState, Bounds, TypeOK, Window, Released
<1> QED BY <1>1, <1>2, SlotFacts DEF Inv, TypeOK

\* Distinct reservations lie in distinct slots.
LEMMA FillingSlots ==
  ASSUME Inv, NEW p \in Producers, Filling(p), NEW r \in Producers, Filling(r), r # p
  PROVE  SlotOf(position[r]) # SlotOf(position[p])
<1>1. position[r] \in Window /\ position[p] \in Window /\ FillingState(p)
  BY FillingWindow
<1>2. position[r] # position[p]
  BY <1>1 DEF FillingState
<1> QED BY <1>1, <1>2, WindowSlots DEF Inv

\* Every slot stands for one position of the window, and its sequence is that
\* position or the next one.
LEMMA WindowCovers ==
  ASSUME TypeOK, NEW s \in Slots
  PROVE  \E q \in Window : SlotOf(q) = s
<1>1. Released \in Nat /\ Capacity \in Nat /\ Capacity > 0
  BY CapacityAssumption DEF TypeOK, Released
<1>2. \E q \in Released .. Released + Capacity - 1 : q % Capacity = s
  BY <1>1, EveryRemainder DEF Slots
<1> QED BY <1>2 DEF Window, SlotOf

LEMMA ConstructInv == ASSUME Inv, NEW p \in Producers, Construct(p) PROVE Inv'
<1> USE DEF Inv, RingInv
<1>1. /\ pc[p] = "construct" /\ Filling(p)
      /\ storage' = [storage EXCEPT ![SlotOf(position[p])] = ValueOf(p)]
      /\ pc' = [pc EXCEPT ![p] = "publish"]
      /\ UNCHANGED <<enqueue_position, dequeue_position, sequence, position, calls, cpc, taken,
                     alive, reserved, delivered, destroyed>>
  BY DEF Construct, Filling
<1>2. Released' = Released /\ Window' = Window
  BY <1>1 DEF Released, Window
<1>3. FillingState(p) /\ position[p] \in Window /\ SlotOf(position[p]) \in Slots
  BY <1>1, FillingWindow
<1>4. \A r \in Producers : Filling(r)' <=> Filling(r)
  BY <1>1 DEF Filling, TypeOK
<1>5. ValueOf(p) \in Values
  BY <1>1, ValueType
<1>6. TypeOK'
  BY <1>1, <1>3, <1>5 DEF TypeOK
<1>7. Histories' /\ Bounds' /\ ExchangeInv' /\ HeadInv'
  BY <1>1, <1>2 DEF Histories, Bounds, ExchangeInv, HeadInv, FifoByReservation, TypeOK
<1>8. SlotsInv'
  <2> SUFFICES ASSUME alive, NEW q \in Window PROVE SlotState(q)'
    BY <1>1, <1>2 DEF SlotsInv
  <2>1. SlotState(q) /\ SlotOf(q) \in Slots
    BY WindowSlot DEF SlotsInv
  <2>2. CASE q = position[p]
    BY <1>1, <1>3, <1>4, <2>2 DEF SlotState, FillingState, TypeOK
  <2>3. CASE q # position[p]
    <3>1. storage'[SlotOf(q)] = storage[SlotOf(q)]
      BY <1>1, <1>3, <2>1, <2>3, WindowSlots DEF TypeOK
    <3> QED BY <1>1, <1>4, <2>1, <3>1 DEF SlotState
  <2> QED BY <2>2, <2>3
<1>9. FillingInv'
  <2> SUFFICES ASSUME NEW r \in Producers, Filling(r)' PROVE FillingState(r)'
    BY DEF FillingInv
  <2>1. Filling(r) /\ FillingState(r) /\ SlotOf(position[r]) \in Slots
    BY <1>4, FillingWindow
  <2>2. CASE r = p
    BY <1>1, <1>2, <1>3, <1>4, <2>2 DEF FillingState, ValueOf, TypeOK
  <2>3. CASE r # p
    <3>1. storage'[SlotOf(position[r])] = storage[SlotOf(position[r])] /\ pc'[r] = pc[r]
      BY <1>1, <1>3, <2>1, <2>3, FillingSlots DEF TypeOK
    <3> QED BY <1>1, <1>2, <1>4, <2>1, <3>1 DEF FillingState, ValueOf
  <2> QED BY <2>2, <2>3
<1> QED BY <1>6, <1>7, <1>8, <1>9

\* While the consumer works on the head, the head is in the window and is
\* nobody's reservation.
LEMMA HeadWindow ==
  ASSUME Inv, cpc \in {"move", "release"}
  PROVE  /\ alive /\ dequeue_position \in Window /\ SlotState(dequeue_position)
         /\ SlotOf(dequeue_position) \in Slots
         /\ dequeue_position < enqueue_position
         /\ sequence[SlotOf(dequeue_position)] = dequeue_position + 1
         /\ \A p \in Producers : Filling(p) =>
              position[p] # dequeue_position /\ SlotOf(position[p]) # SlotOf(dequeue_position)
<1> USE CapacityAssumption DEF Inv, RingInv
<1>1. alive /\ dequeue_position \in Window
  BY DEF Bounds, Window, Released, TypeOK
<1>2. SlotState(dequeue_position) /\ SlotOf(dequeue_position) \in Slots
  BY <1>1, SlotFacts DEF SlotsInv, TypeOK
<1>3. dequeue_position < enqueue_position /\ sequence[SlotOf(dequeue_position)] = dequeue_position + 1
  BY DEF HeadInv
<1>4. ASSUME NEW p \in Producers, Filling(p)
      PROVE  position[p] # dequeue_position /\ SlotOf(position[p]) # SlotOf(dequeue_position)
  <2>1. FillingState(p) /\ position[p] \in Window
    BY <1>4, FillingWindow
  <2>2. position[p] # dequeue_position
    BY <1>3, <2>1 DEF FillingState, TypeOK
  <2> QED BY <1>1, <2>1, <2>2, WindowSlots
<1> QED BY <1>1, <1>2, <1>3, <1>4

LEMMA PublishInv == ASSUME Inv, NEW p \in Producers, Publish(p) PROVE Inv'
<1> USE DEF Inv, RingInv
<1>1. /\ pc[p] = "publish" /\ Filling(p)
      /\ sequence' = [sequence EXCEPT ![SlotOf(position[p])] = position[p] + 1]
      /\ pc' = [pc EXCEPT ![p] = "idle"]
      /\ UNCHANGED <<enqueue_position, dequeue_position, storage, position, calls, cpc, taken,
                     alive, reserved, delivered, destroyed>>
  BY DEF Publish, Filling
<1>2. Released' = Released /\ Window' = Window
  BY <1>1 DEF Released, Window
<1>3. /\ alive /\ FillingState(p) /\ position[p] \in Window /\ position[p] < enqueue_position
      /\ SlotOf(position[p]) \in Slots
  BY <1>1, FillingWindow
<1>4. \A r \in Producers : Filling(r)' <=> (Filling(r) /\ r # p)
  BY <1>1 DEF Filling, TypeOK
<1>5. TypeOK'
  BY <1>1, <1>3 DEF TypeOK
<1>6. Histories' /\ Bounds' /\ ExchangeInv'
  BY <1>1, <1>2, <1>3 DEF Histories, Bounds, ExchangeInv, FifoByReservation, TypeOK
<1>7. HeadInv'
  <2>1. CASE cpc \in {"move", "release"}
    <3>1. sequence'[SlotOf(dequeue_position)] = sequence[SlotOf(dequeue_position)]
      BY <1>1, <1>3, <2>1, HeadWindow DEF TypeOK
    <3> QED BY <1>1, <3>1 DEF HeadInv
  <2>2. CASE cpc \notin {"move", "release"}
    BY <1>1, <2>2 DEF HeadInv
  <2> QED BY <2>1, <2>2
<1>8. SlotsInv'
  <2> SUFFICES ASSUME NEW q \in Window PROVE SlotState(q)'
    BY <1>1, <1>2 DEF SlotsInv
  <2>1. SlotState(q) /\ SlotOf(q) \in Slots
    BY <1>3, WindowSlot DEF SlotsInv
  <2>2. CASE q = position[p]
    <3>1. ~ (cpc = "release" /\ q = dequeue_position)
      BY <1>1, <2>2, HeadWindow
    <3>2. storage[SlotOf(q)] = reserved[q + 1]
      BY <1>1, <1>3, <2>2 DEF FillingState
    <3> QED BY <1>1, <1>3, <2>1, <2>2, <3>1, <3>2 DEF SlotState, TypeOK
  <2>3. CASE q # position[p]
    <3>1. sequence'[SlotOf(q)] = sequence[SlotOf(q)]
      BY <1>1, <1>3, <2>1, <2>3, WindowSlots DEF TypeOK
    <3>2. (\E t \in Producers : Filling(t) /\ position[t] = q) =>
            (\E t \in Producers : Filling(t)' /\ position'[t] = q)
      BY <1>1, <1>4, <2>3
    <3> QED BY <1>1, <2>1, <3>1, <3>2 DEF SlotState
  <2> QED BY <2>2, <2>3
<1>9. FillingInv'
  <2> SUFFICES ASSUME NEW r \in Producers, Filling(r)' PROVE FillingState(r)'
    BY DEF FillingInv
  <2>1. Filling(r) /\ r # p /\ FillingState(r) /\ SlotOf(position[r]) \in Slots
    BY <1>4, FillingWindow
  <2>2. sequence'[SlotOf(position[r])] = sequence[SlotOf(position[r])] /\ pc'[r] = pc[r]
    BY <1>1, <1>3, <2>1, FillingSlots DEF TypeOK
  <2> QED BY <1>1, <1>2, <1>4, <2>1, <2>2 DEF FillingState, ValueOf
<1> QED BY <1>5, <1>6, <1>7, <1>8, <1>9
-----------------------------------------------------------------------------
LEMMA PopCheckInv == ASSUME Inv, PopCheck PROVE Inv'
<1> USE CapacityAssumption DEF Inv, RingInv
<1>1. /\ alive /\ cpc = "idle" /\ cpc' = "move" /\ HeadPublished
      /\ UNCHANGED <<shared, pc, position, calls, taken, alive, reserved, delivered, destroyed>>
  BY DEF PopCheck
<1>2. Released' = Released /\ Window' = Window
  BY <1>1 DEF Released, Window, shared
<1>3. TypeOK'
  BY <1>1 DEF TypeOK, shared
<1>4. Histories' /\ Bounds' /\ ExchangeInv'
  BY <1>1, <1>2 DEF Histories, Bounds, ExchangeInv, FifoByReservation, shared
<1>5. SlotsInv'
  BY <1>1, <1>2 DEF SlotsInv, SlotState, Filling, shared
<1>6. FillingInv'
  BY <1>1, <1>2 DEF FillingInv, FillingState, Filling, ValueOf, shared
<1>7. HeadInv'
  <2>1. dequeue_position \in Window
    BY <1>1 DEF Window, Released, TypeOK
  <2>2. dequeue_position < enqueue_position
    BY <1>1, <2>1 DEF SlotsInv, SlotState, HeadPublished, TypeOK
  <2> QED BY <1>1, <2>2 DEF HeadInv, HeadPublished, shared
<1> QED BY <1>3, <1>4, <1>5, <1>6, <1>7

LEMMA PopMoveInv == ASSUME Inv, PopMove PROVE Inv'
<1> USE CapacityAssumption DEF Inv, RingInv
<1>1. /\ cpc = "move" /\ cpc' = "release"
      /\ taken' = storage[SlotOf(dequeue_position)]
      /\ storage' = [storage EXCEPT ![SlotOf(dequeue_position)] = Empty]
      /\ UNCHANGED <<enqueue_position, dequeue_position, sequence, pc, position, calls, alive,
                     reserved, delivered, destroyed>>
  BY DEF PopMove
<1>2. Released' = Released /\ Window' = Window
  BY <1>1 DEF Released, Window
<1>3. /\ alive /\ dequeue_position \in Window /\ SlotState(dequeue_position)
      /\ SlotOf(dequeue_position) \in Slots
      /\ dequeue_position < enqueue_position
      /\ sequence[SlotOf(dequeue_position)] = dequeue_position + 1
      /\ \A p \in Producers : Filling(p) => SlotOf(position[p]) # SlotOf(dequeue_position)
  BY <1>1, HeadWindow
<1>4. storage[SlotOf(dequeue_position)] = reserved[dequeue_position + 1]
  BY <1>1, <1>3 DEF SlotState, TypeOK
<1>5. TypeOK'
  BY <1>1, <1>3 DEF TypeOK
<1>6. Histories' /\ Bounds' /\ ExchangeInv'
  BY <1>1, <1>2, <1>3 DEF Histories, Bounds, ExchangeInv, FifoByReservation
<1>7. SlotsInv'
  <2> SUFFICES ASSUME NEW q \in Window PROVE SlotState(q)'
    BY <1>1, <1>2 DEF SlotsInv
  <2>1. SlotState(q) /\ SlotOf(q) \in Slots
    BY <1>3, WindowSlot DEF SlotsInv
  <2>2. CASE q = dequeue_position
    BY <1>1, <1>3, <2>2 DEF SlotState, TypeOK
  <2>3. CASE q # dequeue_position
    <3>1. storage'[SlotOf(q)] = storage[SlotOf(q)]
      BY <1>1, <1>3, <2>1, <2>3, WindowSlots DEF TypeOK
    <3> QED BY <1>1, <2>1, <2>3, <3>1 DEF SlotState, Filling
  <2> QED BY <2>2, <2>3
<1>8. FillingInv'
  <2> SUFFICES ASSUME NEW r \in Producers, Filling(r)' PROVE FillingState(r)'
    BY DEF FillingInv
  <2>1. Filling(r) /\ FillingState(r) /\ SlotOf(position[r]) \in Slots
    BY <1>1, FillingWindow DEF Filling
  <2>2. storage'[SlotOf(position[r])] = storage[SlotOf(position[r])]
    BY <1>1, <1>3, <2>1 DEF TypeOK
  <2> QED BY <1>1, <1>2, <2>1, <2>2 DEF FillingState, Filling, ValueOf
<1>9. HeadInv'
  BY <1>1, <1>3, <1>4 DEF HeadInv
<1> QED BY <1>5, <1>6, <1>7, <1>8, <1>9

\* Releasing the head moves the window on: the head's slot becomes the free
\* slot of the position Capacity further.
LEMMA PopReleaseInv == ASSUME Inv, PopRelease PROVE Inv'
<1> USE CapacityAssumption DEF Inv, RingInv
<1>1. /\ cpc = "release" /\ cpc' = "advance"
      /\ sequence' = [sequence EXCEPT ![SlotOf(dequeue_position)] = dequeue_position + Capacity]
      /\ delivered' = Append(delivered, taken)
      /\ taken' = Empty
      /\ UNCHANGED <<enqueue_position, dequeue_position, storage, pc, position, calls, alive,
                     reserved, destroyed>>
  BY DEF PopRelease
<1>2. /\ Released = dequeue_position /\ Released' = dequeue_position + 1
      /\ Window = dequeue_position .. dequeue_position + Capacity - 1
      /\ Window' = dequeue_position + 1 .. dequeue_position + 1 + Capacity - 1
      /\ dequeue_position \in Nat
  BY <1>1 DEF Released, Window, TypeOK
<1>3. /\ alive /\ dequeue_position \in Window /\ SlotState(dequeue_position)
      /\ SlotOf(dequeue_position) \in Slots
      /\ dequeue_position < enqueue_position
      /\ sequence[SlotOf(dequeue_position)] = dequeue_position + 1
      /\ \A p \in Producers : Filling(p) =>
           position[p] # dequeue_position /\ SlotOf(position[p]) # SlotOf(dequeue_position)
  BY <1>1, HeadWindow
<1>4. storage[SlotOf(dequeue_position)] = Empty
  BY <1>1, <1>3 DEF SlotState, TypeOK
<1>5. Len(delivered) = dequeue_position /\ Len(reserved) = enqueue_position
  BY <1>2, <1>3 DEF Histories
<1>6. taken = reserved[dequeue_position + 1] /\ taken \in Values
  BY <1>1, <1>2, <1>3, <1>5 DEF HeadInv, TypeOK
<1>7. TypeOK'
  BY <1>1, <1>2, <1>3, <1>6 DEF TypeOK
<1>8. Histories'
  <2>1. /\ Len(delivered') = Len(delivered) + 1
        /\ \A i \in 1 .. Len(delivered) : delivered'[i] = delivered[i]
        /\ delivered'[Len(delivered) + 1] = taken
    BY <1>1, <1>6 DEF TypeOK
  <2>2. ASSUME NEW i \in 1 .. Len(delivered') PROVE delivered'[i] = reserved[i]
    <3>1. i \in 1 .. Len(delivered) \/ i = Len(delivered) + 1
      BY <2>1, <1>2, <1>5
    <3> QED BY <1>5, <1>6, <2>1, <3>1 DEF Histories, FifoByReservation
  <2> QED BY <1>1, <1>2, <1>3, <1>5, <2>1, <2>2, SMTT(30) DEF Histories, FifoByReservation, TypeOK
<1>9. Bounds' /\ ExchangeInv' /\ HeadInv'
  BY <1>1, <1>2, <1>3 DEF Bounds, ExchangeInv, HeadInv, TypeOK
<1>10. SlotsInv'
  <2> SUFFICES ASSUME NEW q \in Window' PROVE SlotState(q)'
    BY <1>1, <1>2 DEF SlotsInv
  <2>1. CASE q = dequeue_position + Capacity
    <3>1. SlotOf(q) = SlotOf(dequeue_position) /\ enqueue_position <= q /\ q \in Nat
      BY <1>2, <1>3, <2>1, SlotFacts DEF Bounds
    <3> QED BY <1>1, <1>3, <1>4, <2>1, <3>1 DEF SlotState, TypeOK
  <2>2. CASE q # dequeue_position + Capacity
    <3>1. q \in Window /\ q # dequeue_position
      BY <1>2, <2>2
    <3>2. SlotState(q) /\ SlotOf(q) \in Slots
      BY <1>3, <3>1, WindowSlot DEF SlotsInv
    <3>3. sequence'[SlotOf(q)] = sequence[SlotOf(q)]
      BY <1>1, <1>3, <3>1, <3>2, WindowSlots DEF TypeOK
    <3> QED BY <1>1, <3>1, <3>2, <3>3 DEF SlotState, Filling
  <2> QED BY <2>1, <2>2
<1>11. FillingInv'
  <2> SUFFICES ASSUME NEW r \in Producers, Filling(r)' PROVE FillingState(r)'
    BY DEF FillingInv
  <2>1. Filling(r) /\ FillingState(r) /\ SlotOf(position[r]) \in Slots
    BY <1>1, FillingWindow DEF Filling
  <2>2. sequence'[SlotOf(position[r])] = sequence[SlotOf(position[r])]
    BY <1>1, <1>3, <2>1 DEF TypeOK
  <2>3. position'[r] \in Released' .. enqueue_position' - 1
    BY <1>1, <1>2, <1>3, <2>1, SMTT(30) DEF FillingState, TypeOK
  <2> QED BY <1>1, <2>1, <2>2, <2>3 DEF FillingState, Filling, ValueOf
<1> QED BY <1>7, <1>8, <1>9, <1>10, <1>11

LEMMA PopAdvanceInv == ASSUME Inv, PopAdvance PROVE Inv'
<1> USE DEF Inv, RingInv
<1>1. /\ cpc = "advance" /\ cpc' = "idle" /\ dequeue_position' = dequeue_position + 1
      /\ UNCHANGED <<enqueue_position, sequence, storage, pc, position, calls, taken, alive,
                     reserved, delivered, destroyed>>
  BY DEF PopAdvance
<1>2. Released' = Released /\ Window' = Window
  BY <1>1 DEF Released, Window
<1>3. TypeOK'
  BY <1>1 DEF TypeOK
<1>4. Histories' /\ Bounds' /\ ExchangeInv' /\ HeadInv'
  BY <1>1, <1>2 DEF Histories, Bounds, ExchangeInv, HeadInv, FifoByReservation
<1>5. SlotsInv'
  BY <1>1, <1>2 DEF SlotsInv, SlotState, Filling
<1>6. FillingInv'
  BY <1>1, <1>2 DEF FillingInv, FillingState, Filling, ValueOf
<1> QED BY <1>3, <1>4, <1>5, <1>6

\* With every producer idle, everything reserved is published, so the
\* destructor finds only values.
LEMMA DestroyInv == ASSUME Inv, DestroyRemaining PROVE Inv'
<1> USE CapacityAssumption DEF Inv, RingInv
<1>1. /\ alive /\ cpc = "idle" /\ \A p \in Producers : pc[p] = "idle"
      /\ ~alive' /\ alive' \in BOOLEAN
      /\ UNCHANGED <<enqueue_position, pc, position, calls, cpc, taken, reserved, delivered>>
  BY DEF DestroyRemaining
<1>2. RingInv'
  BY <1>1 DEF Histories, Bounds, SlotsInv, FillingInv, ExchangeInv, HeadInv, FifoByReservation, Filling
<1>3. ASSUME NEW q \in PublishedRun
      PROVE  /\ q \in Nat /\ sequence[SlotOf(q)] = q + 1 /\ q \in Window
             /\ storage[SlotOf(q)] \in Values
  <2>1. q \in Nat /\ sequence[SlotOf(q)] = q + 1 /\ q \in dequeue_position .. enqueue_position
    BY DEF PublishedRun, TypeOK
  <2>2. Released = dequeue_position /\ Released \in Nat
    BY <1>1 DEF Released, TypeOK
  <2>3. q # Released + Capacity
    <3>1. CASE q = enqueue_position /\ q = Released + Capacity
      BY <1>1, <2>1, <2>2, <3>1, FullSlot
    <3> QED BY <1>1, <2>1, <2>2, <3>1 DEF Bounds, TypeOK
  <2>4. q \in Window
    BY <1>1, <2>1, <2>2, <2>3 DEF Window, Bounds, TypeOK
  <2>5. q < enqueue_position /\ storage[SlotOf(q)] = reserved[q + 1]
    BY <1>1, <2>1, <2>4 DEF SlotsInv, SlotState, TypeOK
  <2>6. reserved[q + 1] \in Values
    BY <2>1, <2>5 DEF Histories, TypeOK
  <2> QED BY <2>1, <2>4, <2>5, <2>6
<1>4. destroyed' \in SUBSET Values
  BY <1>3 DEF DestroyRemaining
<1>5. storage' \in [Slots -> Values \cup {Empty}]
  BY DEF DestroyRemaining, TypeOK
<1>6. sequence' \in [Slots -> Nat]
  <2>1. sequence' = [s \in Slots |->
                       IF \E q \in PublishedRun : SlotOf(q) = s THEN sequence[s] - 1 + Capacity
                       ELSE sequence[s]]
    BY DEF DestroyRemaining
  <2>2. \A s \in Slots : sequence[s] \in Nat
    BY DEF TypeOK
  <2>3. ASSUME NEW s \in Slots PROVE sequence'[s] \in Nat
    BY <1>3, <2>1, <2>2
  <2> QED BY <2>1, <2>3
<1>7. dequeue_position' \in Nat
  BY DEF DestroyRemaining, TypeOK
<1>8. TypeOK'
  BY <1>1, <1>4, <1>5, <1>6, <1>7 DEF TypeOK
<1> QED BY <1>2, <1>8

LEMMA NextInv == Inv /\ [Next]_vars => Inv'
<1> SUFFICES ASSUME Inv, [Next]_vars PROVE Inv'
  OBVIOUS
<1>1. ASSUME NEW p \in Producers, Producing(p) PROVE Inv'
  BY <1>1, TryPushInv, LoadPositionInv, LoadSequenceInv, CompareExchangeInv, ConstructInv, PublishInv
     DEF Producing
<1>2. CASE Consuming
  BY <1>2, PopCheckInv, PopMoveInv, PopReleaseInv, PopAdvanceInv DEF Consuming
<1>3. CASE DestroyRemaining
  BY <1>3, DestroyInv
<1>4. CASE UNCHANGED vars
  <2>1. TypeOK'
    BY <1>4 DEF Inv, vars, shared, TypeOK
  <2>2. RingInv'
    BY <1>4, SMTT(30) DEF Inv, vars, shared, RingInv, Histories, Bounds, SlotsInv, FillingInv, ExchangeInv, HeadInv,
       FifoByReservation, Released, Window, SlotState, FillingState, Filling, ValueOf
  <2> QED BY <2>1, <2>2 DEF Inv
<1> QED BY <1>1, <1>2, <1>3, <1>4 DEF Next, Gone

\* The ring stays in order in every behaviour of TryEmplace, TryPop and the
\* destructor.
THEOREM RingOrder == Spec => [](TypeOK /\ RingInv)
<1>1. Inv /\ [Next]_vars => Inv'
  BY NextInv
<1> QED BY <1>1, InitInv, PTL DEF Spec, Inv

\* TryPop returns values in the order TryEmplace reserved their positions.
THEOREM Fifo_ByReservation == Spec => []FifoByReservation
<1>1. TypeOK /\ RingInv => FifoByReservation
  BY DEF RingInv, Histories
<1> QED BY <1>1, RingOrder, PTL

\* No slot's storage is used by two threads at the same time.
THEOREM Exclusive_Storage == Spec => []ExclusiveStorage
<1>1. Inv => ExclusiveStorage
  <2> SUFFICES ASSUME Inv PROVE ExclusiveStorage
    OBVIOUS
  <2>1. ASSUME NEW p \in Producers, pc[p] = "construct" PROVE storage[SlotOf(position[p])] = Empty
    BY <2>1, FillingWindow DEF Filling, FillingState
  <2>2. ASSUME cpc = "move" PROVE storage[SlotOf(dequeue_position)] # Empty
    <3>1. /\ SlotState(dequeue_position) /\ dequeue_position < enqueue_position
          /\ sequence[SlotOf(dequeue_position)] = dequeue_position + 1
      BY <2>2, HeadWindow
    <3>2. storage[SlotOf(dequeue_position)] = reserved[dequeue_position + 1]
      BY <2>2, <3>1 DEF SlotState, Inv, TypeOK
    <3>3. reserved[dequeue_position + 1] \in Values
      BY <3>1 DEF Inv, RingInv, Histories, TypeOK
    <3> QED BY <3>2, <3>3, EmptyAssumption DEF Values
  <2>3. ASSUME NEW p \in Producers, NEW r \in Producers, Filling(p), Filling(r), p # r
        PROVE  SlotOf(position[p]) # SlotOf(position[r])
    BY <2>3, FillingSlots
  <2>4. ASSUME NEW p \in Producers, Filling(p), cpc \in {"move", "release"}
        PROVE  SlotOf(position[p]) # SlotOf(dequeue_position)
    BY <2>4, HeadWindow
  <2> QED BY <2>1, <2>2, <2>3, <2>4 DEF ExclusiveStorage
<1> QED BY <1>1, RingOrder, PTL DEF Inv

\* TryEmplace returns false only when the mailbox is full at that moment.
THEOREM Rejects_OnlyWhenFull == Spec => RejectsOnlyWhenFull
<1>1. ASSUME Inv, [Next]_vars, NEW p \in Producers, pc[p] = "sequence", pc'[p] = "idle"
      PROVE  enqueue_position = Released + Capacity
  <2>1. LoadSequence(p)
    <3>1. ASSUME NEW r \in Producers, Producing(r) PROVE LoadSequence(p)
      BY <1>1, <3>1 DEF Producing, TryPush, LoadPosition, LoadSequence, CompareExchange, Construct,
         Publish, Inv, TypeOK
    <3>2. ~ (\E r \in Producers : Producing(r)) => pc' = pc
      BY <1>1 DEF Next, Consuming, PopCheck, PopMove, PopRelease, PopAdvance, DestroyRemaining, Gone, vars
    <3> QED BY <1>1, <3>1, <3>2
  <2>2. alive /\ position[p] <= enqueue_position /\ position[p] \in Nat /\ Released \in Nat
    BY <1>1 DEF Inv, RingInv, Bounds, TypeOK, Released
  <2>3. sequence[SlotOf(position[p])] < position[p]
    BY <1>1, <2>1 DEF LoadSequence, Inv, TypeOK
  <2>4. position[p] >= Released + Capacity
    <3> SUFFICES ASSUME position[p] < Released + Capacity PROVE FALSE
      BY <2>2, CapacityAssumption
    <3>1. SlotOf(position[p]) \in Slots
      BY <2>2, SlotFacts
    <3>2. PICK q \in Window : SlotOf(q) = SlotOf(position[p])
      BY <1>1, <3>1, WindowCovers DEF Inv
    <3>3. SlotState(q) /\ q \in Nat /\ q >= Released
      BY <1>1, <2>2, <3>2, CapacityAssumption DEF Inv, RingInv, SlotsInv, Window
    <3>4. sequence[SlotOf(position[p])] >= q
      BY <1>1, <3>2, <3>3 DEF SlotState, Inv, TypeOK
    <3>5. CASE position[p] < Released
      BY <1>1, <2>2, <2>3, <3>1, <3>3, <3>4, <3>5 DEF Inv, TypeOK
    <3>6. CASE position[p] >= Released
      <4>1. position[p] \in Window
        BY <2>2, <3>6, CapacityAssumption DEF Window
      <4>2. q = position[p]
        BY <1>1, <3>2, <4>1, WindowSlots DEF Inv
      <4> QED BY <1>1, <2>2, <2>3, <3>1, <3>4, <4>2 DEF Inv, TypeOK
    <3> QED BY <2>2, <3>5, <3>6
  <2> QED BY <1>1, <2>2, <2>4, CapacityAssumption DEF Inv, RingInv, Bounds, TypeOK
<1>2. Inv /\ [Next]_vars =>
        [\A p \in Producers :
           pc[p] = "sequence" /\ pc'[p] = "idle" => enqueue_position = Released + Capacity]_vars
  BY <1>1
<1> QED BY <1>2, RingOrder, PTL DEF Inv, RejectsOnlyWhenFull, Spec
-----------------------------------------------------------------------------
\* When the destructor runs, exactly the positions between the two cursors are
\* published.
LEMMA RunIsTheRest ==
  ASSUME Inv, DestroyRemaining
  PROVE  /\ PublishedRun = dequeue_position .. enqueue_position - 1
         /\ \A q \in PublishedRun : q \in Window /\ q < enqueue_position
                                   /\ storage[SlotOf(q)] = reserved[q + 1]
<1> USE CapacityAssumption DEF Inv, RingInv
<1>1. /\ alive /\ cpc = "idle" /\ \A p \in Producers : ~Filling(p)
      /\ Released = dequeue_position
      /\ dequeue_position \in Nat /\ enqueue_position \in Nat
      /\ dequeue_position <= enqueue_position /\ enqueue_position <= dequeue_position + Capacity
  BY DEF DestroyRemaining, Filling, Released, Bounds, TypeOK
<1>2. ASSUME NEW q \in dequeue_position .. enqueue_position - 1
      PROVE  q \in Window /\ sequence[SlotOf(q)] = q + 1 /\ storage[SlotOf(q)] = reserved[q + 1]
  <2>1. q \in Window /\ q \in Nat /\ q < enqueue_position
    BY <1>1 DEF Window
  <2>2. SlotState(q)
    BY <1>1, <2>1 DEF SlotsInv
  <2> QED BY <1>1, <2>1, <2>2 DEF SlotState
<1>3. sequence[SlotOf(enqueue_position)] # enqueue_position + 1
  <2>1. CASE enqueue_position = dequeue_position + Capacity
    BY <1>1, <2>1, FullSlot
  <2>2. CASE enqueue_position < dequeue_position + Capacity
    <3>1. enqueue_position \in Window
      BY <1>1, <2>2 DEF Window
    <3> QED BY <1>1, <3>1 DEF SlotsInv, SlotState
  <2> QED BY <1>1, <2>1, <2>2
<1>4. PublishedRun = dequeue_position .. enqueue_position - 1
  <2>1. ASSUME NEW q \in PublishedRun PROVE q \in dequeue_position .. enqueue_position - 1
    BY <1>1, <1>3 DEF PublishedRun
  <2>2. ASSUME NEW q \in dequeue_position .. enqueue_position - 1 PROVE q \in PublishedRun
    <3>1. \A r \in dequeue_position .. q : r \in dequeue_position .. enqueue_position - 1
      BY <1>1
    <3>2. q \in dequeue_position .. enqueue_position
      BY <1>1
    <3> QED BY <1>2, <3>1, <3>2 DEF PublishedRun
  <2> QED BY <2>1, <2>2
<1> QED BY <1>1, <1>2, <1>4

\* The destructor destroys what was pushed and not popped, and nothing else.
THEOREM Destroys_TheRest == Spec => []DestroysTheRest
<1>1. Init => DestroysTheRest
  BY DEF Init, DestroysTheRest
<1>2. Inv /\ [Next]_vars /\ DestroysTheRest => DestroysTheRest'
  <2> SUFFICES ASSUME Inv, [Next]_vars, DestroysTheRest PROVE DestroysTheRest'
    OBVIOUS
  <2>1. CASE DestroyRemaining
    <3> USE CapacityAssumption
    <3>1. /\ alive /\ cpc = "idle" /\ Len(delivered) = dequeue_position
          /\ Len(reserved) = enqueue_position /\ Released = dequeue_position
          /\ dequeue_position \in Nat /\ enqueue_position \in Nat
          /\ destroyed' = {storage[SlotOf(q)] : q \in PublishedRun}
          /\ UNCHANGED <<reserved, delivered>>
      BY <2>1 DEF DestroyRemaining, Inv, RingInv, Histories, Released, TypeOK
    <3>2. /\ PublishedRun = dequeue_position .. enqueue_position - 1
          /\ \A q \in PublishedRun : q \in Window /\ storage[SlotOf(q)] = reserved[q + 1]
      BY <2>1, RunIsTheRest
    <3>3. ASSUME NEW s \in Slots PROVE storage'[s] = Empty
      <4>1. storage'[s] = IF \E q \in PublishedRun : SlotOf(q) = s THEN Empty ELSE storage[s]
        BY <2>1 DEF DestroyRemaining
      <4>2. PICK q \in Window : SlotOf(q) = s
        BY WindowCovers DEF Inv
      <4>3. CASE q < enqueue_position
        <5>1. q \in PublishedRun
          BY <3>1, <3>2, <4>3 DEF Window
        <5> QED BY <4>1, <4>2, <5>1
      <4>4. CASE q >= enqueue_position
        BY <3>1, <4>1, <4>2, <4>4 DEF Inv, RingInv, SlotsInv, SlotState
      <4> QED BY <3>1, <4>3, <4>4 DEF Window
    <3>4. destroyed' = {reserved[i] : i \in Len(delivered) + 1 .. Len(reserved)}
      <4>1. destroyed' = {reserved[q + 1] : q \in dequeue_position .. enqueue_position - 1}
        BY <3>1, <3>2
      <4>2. ASSUME NEW v
            PROVE  (\E q \in dequeue_position .. enqueue_position - 1 : v = reserved[q + 1])
                     <=> (\E i \in dequeue_position + 1 .. enqueue_position : v = reserved[i])
        <5>1. \A q \in dequeue_position .. enqueue_position - 1 :
                q + 1 \in dequeue_position + 1 .. enqueue_position
          BY <3>1
        <5>2. \A i \in dequeue_position + 1 .. enqueue_position :
                i - 1 \in dequeue_position .. enqueue_position - 1 /\ (i - 1) + 1 = i
          BY <3>1
        <5> QED BY <5>1, <5>2
      <4> QED BY <3>1, <4>1, <4>2
    <3> QED BY <3>1, <3>3, <3>4 DEF DestroysTheRest
  <2>2. CASE Next /\ ~DestroyRemaining /\ ~Gone
    <3>1. CASE \E p \in Producers : Producing(p)
      <4>1. PICK p \in Producers : Producing(p)
        BY <3>1
      <4>2. alive' = alive /\ (alive \/ pc[p] # "idle")
        BY <4>1 DEF Producing, TryPush, LoadPosition, LoadSequence, CompareExchange, Construct, Publish
      <4> QED BY <4>2 DEF Inv, RingInv, Bounds, DestroysTheRest
    <3>2. CASE Consuming
      <4>1. alive' = alive /\ (alive \/ cpc # "idle")
        BY <3>2 DEF Consuming, PopCheck, PopMove, PopRelease, PopAdvance
      <4> QED BY <4>1 DEF Inv, RingInv, Bounds, DestroysTheRest
    <3> QED BY <2>2, <3>1, <3>2 DEF Next
  <2>3. CASE UNCHANGED vars
    BY <2>3 DEF DestroysTheRest, vars, shared
  <2> QED BY <2>1, <2>2, <2>3 DEF Gone
<1> QED BY <1>1, <1>2, RingOrder, PTL DEF Spec, Inv

\* A command has a slot to itself while it is stored, leaves in the order of the
\* reservations, and is destroyed with the mailbox if it was still in it.
THEOREM Commands_Kept == Spec => []CommandsKept
BY Fifo_ByReservation, Exclusive_Storage, Destroys_TheRest, PTL DEF CommandsKept
-----------------------------------------------------------------------------
(* The refinement of BoundedFifo *)

LEMMA SeqEqual ==
  ASSUME NEW S, NEW s \in Seq(S), NEW t \in Seq(S), Len(s) = Len(t),
         \A i \in 1 .. Len(s) : s[i] = t[i]
  PROVE  s = t
OBVIOUS

LEMMA SeqOfFunction ==
  ASSUME NEW S, NEW n \in Nat, NEW f \in [1 .. n -> S]
  PROVE  f \in Seq(S) /\ Len(f) = n
OBVIOUS

\* The entries for the positions R .. E - 1.
EntriesOf(R, E, res, sq) ==
  [i \in 1 .. E - R |-> [value |-> res[R + i], ready |-> sq[SlotOf(R + i - 1)] = R + i]]

IsQueue(f, R, E, res, sq) ==
  /\ f \in Seq(Fifo!Entries)
  /\ Len(f) = E - R
  /\ DOMAIN f = 1 .. E - R
  /\ \A i \in 1 .. E - R :
       f[i] = [value |-> res[R + i], ready |-> sq[SlotOf(R + i - 1)] = R + i]

LEMMA EntriesType ==
  ASSUME NEW R \in Nat, NEW E \in Nat, R <= E, NEW res \in Seq(Values), Len(res) = E, NEW sq
  PROVE  IsQueue(EntriesOf(R, E, res, sq), R, E, res, sq)
<1>1. \A i \in 1 .. E - R : res[R + i] \in Values
  OBVIOUS
<1>2. \A i \in 1 .. E - R :
        [value |-> res[R + i], ready |-> sq[SlotOf(R + i - 1)] = R + i] \in Fifo!Entries
  BY <1>1 DEF Fifo!Entries
<1>3. EntriesOf(R, E, res, sq) \in [1 .. E - R -> Fifo!Entries]
  BY <1>2 DEF EntriesOf
<1>4. E - R \in Nat
  OBVIOUS
<1>5. EntriesOf(R, E, res, sq) \in Seq(Fifo!Entries) /\ Len(EntriesOf(R, E, res, sq)) = E - R
  BY <1>3, <1>4, SeqOfFunction
<1>6. \A i \in 1 .. E - R :
        EntriesOf(R, E, res, sq)[i] =
          [value |-> res[R + i], ready |-> sq[SlotOf(R + i - 1)] = R + i]
  BY DEF EntriesOf
<1> QED BY <1>3, <1>5, <1>6 DEF IsQueue

\* The abstract queue holds the reserved positions the consumer has not
\* released yet.
LEMMA QueueType ==
  ASSUME Inv, alive
  PROVE  IsQueue(FifoQueue, Released, enqueue_position, reserved, sequence)
<1>1. /\ Released \in Nat /\ enqueue_position \in Nat /\ Released <= enqueue_position
      /\ Len(reserved) = enqueue_position /\ reserved \in Seq(Values)
  BY DEF Inv, RingInv, Bounds, Histories, TypeOK, Released
<1>2. FifoQueue = EntriesOf(Released, enqueue_position, reserved, sequence)
  BY DEF FifoQueue, EntriesOf
<1> QED BY <1>1, <1>2, EntriesType

\* The same after a step.
LEMMA QueueTypeNext ==
  ASSUME Inv', alive'
  PROVE  IsQueue(FifoQueue', Released', enqueue_position', reserved', sequence')
<1>1. dequeue_position' \in Nat /\ enqueue_position' \in Nat /\ reserved' \in Seq(Values)
  BY DEF Inv, TypeOK
<1>2. /\ Released' \in Nat /\ Released' <= enqueue_position'
      /\ Len(reserved') = enqueue_position'
  BY <1>1 DEF Inv, RingInv, Bounds, Histories, Released
<1>3. FifoQueue' = EntriesOf(Released', enqueue_position', reserved', sequence')
  BY DEF FifoQueue, EntriesOf
<1> QED BY <1>1, <1>2, <1>3, EntriesType

\* Steps that move neither a sequence nor the window leave the abstract queue
\* alone.
LEMMA Stutter ==
  ASSUME UNCHANGED <<enqueue_position, sequence, reserved, delivered>>, Released' = Released
  PROVE  UNCHANGED Fifo!vars
BY DEF FifoQueue, Fifo!vars

LEMMA ReserveStep ==
  ASSUME Inv, Inv', NEW p \in Producers, CompareExchange(p)
  PROVE  Fifo!Reserve(ValueOf(p)) \/ UNCHANGED Fifo!vars
<1>1. /\ alive /\ alive' /\ Released' = Released /\ pc[p] = "exchange"
      /\ Released \in Nat /\ enqueue_position \in Nat /\ Released <= enqueue_position
      /\ UNCHANGED <<sequence, delivered>>
  BY SMTT(30) DEF Inv, RingInv, Bounds, CompareExchange, Released, TypeOK
<1>2. CASE UNCHANGED <<enqueue_position, reserved>>
  BY <1>1, <1>2, Stutter
<1>3. CASE /\ enqueue_position = position[p]
           /\ enqueue_position' = position[p] + 1
           /\ reserved' = Append(reserved, ValueOf(p))
  <2> DEFINE e == [value |-> ValueOf(p), ready |-> FALSE]
             n == enqueue_position - Released
  <2>1. /\ ValueOf(p) \in Values /\ reserved \in Seq(Values) /\ Len(reserved) = enqueue_position
        /\ enqueue_position < Released + Capacity
    BY <1>1, <1>3, ValueType DEF Inv, RingInv, ExchangeInv, Histories, TypeOK
  <2>2. /\ \A i \in 1 .. Len(reserved) : reserved'[i] = reserved[i]
        /\ reserved'[Len(reserved) + 1] = ValueOf(p)
    BY <1>3, <2>1
  <2>3. sequence[SlotOf(enqueue_position)] = enqueue_position
    <3>1. enqueue_position \in Window
      BY <1>1, <2>1, CapacityAssumption DEF Window
    <3>2. SlotState(enqueue_position)
      BY <1>1, <3>1 DEF Inv, RingInv, SlotsInv
    <3> QED BY <1>1, <3>2, TailSlot, Zenon
  <2>4. /\ FifoQueue \in Seq(Fifo!Entries) /\ Len(FifoQueue) = n
        /\ \A i \in 1 .. n :
             FifoQueue[i] = [value |-> reserved[Released + i],
                             ready |-> sequence[SlotOf(Released + i - 1)] = Released + i]
    BY <1>1, QueueType DEF IsQueue
  <2>5. /\ FifoQueue' \in Seq(Fifo!Entries) /\ Len(FifoQueue') = n + 1
        /\ \A i \in 1 .. n + 1 :
             FifoQueue'[i] = [value |-> reserved'[Released + i],
                              ready |-> sequence[SlotOf(Released + i - 1)] = Released + i]
    <3>1. enqueue_position' - Released' = n + 1
      BY <1>1, <1>3, SMTT(30)
    <3>2. /\ FifoQueue' \in Seq(Fifo!Entries) /\ Len(FifoQueue') = enqueue_position' - Released'
          /\ \A i \in 1 .. enqueue_position' - Released' :
               FifoQueue'[i] = [value |-> reserved'[Released' + i],
                                ready |-> sequence'[SlotOf(Released' + i - 1)] = Released' + i]
      BY <1>1, QueueTypeNext DEF IsQueue
    <3> QED BY <1>1, <3>1, <3>2
  <2>6. e \in Fifo!Entries
    BY <2>1 DEF Fifo!Entries
  <2>7. /\ Append(FifoQueue, e) \in Seq(Fifo!Entries) /\ Len(Append(FifoQueue, e)) = n + 1
        /\ \A i \in 1 .. n : Append(FifoQueue, e)[i] = FifoQueue[i]
        /\ Append(FifoQueue, e)[n + 1] = e
    BY <1>1, <2>4, <2>6, SMTT(30)
  <2>8. ASSUME NEW i \in 1 .. n + 1 PROVE FifoQueue'[i] = Append(FifoQueue, e)[i]
    <3>0. n \in Nat /\ Released + n = enqueue_position /\ i \in Nat
      BY <1>1
    <3> HIDE DEF n
    <3>1. CASE i \in 1 .. n
      <4>1. reserved'[Released + i] = reserved[Released + i]
        BY <1>1, <2>1, <2>2, <3>0, <3>1, SMTT(30)
      <4>2. FifoQueue'[i] = [value |-> reserved'[Released + i],
                             ready |-> sequence[SlotOf(Released + i - 1)] = Released + i]
        BY <2>5
      <4> QED BY <2>4, <2>7, <3>1, <4>1, <4>2
    <3>2. CASE i = n + 1
      <4>1. Released + i - 1 = enqueue_position /\ Released + i = enqueue_position + 1
        BY <1>1, <3>0, <3>2
      <4>2. /\ reserved'[Released + i] = ValueOf(p)
            /\ (sequence[SlotOf(Released + i - 1)] = Released + i) = FALSE
        BY <1>1, <2>1, <2>2, <2>3, <4>1
      <4>3. FifoQueue'[i] = [value |-> reserved'[Released + i],
                             ready |-> sequence[SlotOf(Released + i - 1)] = Released + i]
        BY <2>5
      <4>4. FifoQueue'[i] = e
        BY <4>2, <4>3, Zenon
      <4> QED BY <2>7, <3>2, <4>4
    <3>3. i \in 1 .. n \/ i = n + 1
      BY <3>0
    <3> QED BY <3>1, <3>2, <3>3
  <2>9. FifoQueue' = Append(FifoQueue, e)
    BY <2>5, <2>7, <2>8, SeqEqual, ZenonT(30)
  <2>10. Len(FifoQueue) < Capacity
    BY <1>1, <2>1, <2>4, CapacityAssumption
  <2> QED BY <1>1, <2>9, <2>10 DEF Fifo!Reserve, Fifo!Reserved
<1> QED BY <1>2, <1>3 DEF CompareExchange

LEMMA PublishStep ==
  ASSUME Inv, Inv', NEW p \in Producers, Publish(p)
  PROVE  Fifo!Publish(ValueOf(p))
<1> DEFINE n == enqueue_position - Released
           k == position[p] - Released + 1
<1>1. /\ pc[p] = "publish" /\ Filling(p)
      /\ sequence' = [sequence EXCEPT ![SlotOf(position[p])] = position[p] + 1]
      /\ UNCHANGED <<enqueue_position, dequeue_position, cpc, reserved, delivered, alive>>
  BY DEF Publish, Filling
<1>2. /\ alive /\ FillingState(p) /\ position[p] \in Window /\ position[p] < enqueue_position
      /\ SlotOf(position[p]) \in Slots
  BY <1>1, FillingWindow
<1>3. /\ Released' = Released /\ Released \in Nat /\ position[p] \in Nat
      /\ enqueue_position \in Nat /\ Released <= position[p]
      /\ enqueue_position <= Released + Capacity
  <2>1. Released' = Released /\ Released \in Nat /\ position[p] \in Nat /\ enqueue_position \in Nat
    BY <1>1 DEF Released, Inv, TypeOK
  <2>2. enqueue_position <= Released + Capacity
    BY <1>2 DEF Inv, RingInv, Bounds
  <2>3. Released <= position[p]
    BY <1>2, <2>1 DEF FillingState
  <2> QED BY <2>1, <2>2, <2>3
<1>4. n \in Nat /\ k \in 1 .. n /\ Released + k = position[p] + 1
  BY <1>2, <1>3
<1>5. /\ FifoQueue \in Seq(Fifo!Entries) /\ Len(FifoQueue) = n /\ DOMAIN FifoQueue = 1 .. n
      /\ \A i \in 1 .. n :
           FifoQueue[i] = [value |-> reserved[Released + i],
                           ready |-> sequence[SlotOf(Released + i - 1)] = Released + i]
  BY <1>2, QueueType DEF IsQueue
<1>6. /\ FifoQueue' \in Seq(Fifo!Entries) /\ Len(FifoQueue') = n
      /\ \A i \in 1 .. n :
           FifoQueue'[i] = [value |-> reserved[Released + i],
                            ready |-> sequence'[SlotOf(Released + i - 1)] = Released + i]
  BY <1>1, <1>2, <1>3, QueueTypeNext DEF IsQueue
<1> HIDE DEF n, k
<1> DEFINE e == [value |-> FifoQueue[k].value, ready |-> TRUE]
           f == [FifoQueue EXCEPT ![k] = e]
<1>7. Released + k - 1 = position[p] /\ Released + k = position[p] + 1
  BY <1>3, <1>4
<1>8. FifoQueue[k] = [value |-> ValueOf(p), ready |-> FALSE]
  <2>1. FifoQueue[k] = [value |-> reserved[Released + k],
                        ready |-> sequence[SlotOf(Released + k - 1)] = Released + k]
    BY <1>4, <1>5
  <2>2. (sequence[SlotOf(Released + k - 1)] = Released + k) = FALSE
    BY <1>2, <1>3, <1>7, SMTT(30) DEF FillingState
  <2>3. reserved[Released + k] = ValueOf(p)
    BY <1>2, <1>7 DEF FillingState
  <2> QED BY <2>1, <2>2, <2>3, Zenon
<1>9. /\ f \in Seq(Fifo!Entries) /\ Len(f) = n /\ f[k] = e
      /\ \A i \in 1 .. n : i # k => f[i] = FifoQueue[i]
  <2>1. e \in Fifo!Entries
    <3>1. FifoQueue[k] \in Fifo!Entries
      BY <1>4, <1>5
    <3> QED BY <3>1 DEF Fifo!Entries
  <2> QED BY <1>4, <1>5, <2>1
<1>10. ASSUME NEW i \in 1 .. n PROVE FifoQueue'[i] = f[i]
  <2>1. CASE i = k
    <3>1. sequence'[SlotOf(position[p])] = position[p] + 1
      BY <1>1, <1>2 DEF Inv, TypeOK
    <3>2. FifoQueue'[k] = [value |-> reserved[Released + k], ready |-> TRUE]
      <4>1. FifoQueue'[k] = [value |-> reserved[Released + k],
                             ready |-> sequence'[SlotOf(Released + k - 1)] = Released + k]
        BY <1>4, <1>6
      <4>2. (sequence'[SlotOf(Released + k - 1)] = Released + k) = TRUE
        BY <1>7, <3>1
      <4> QED BY <4>1, <4>2, Zenon
    <3>3. FifoQueue[k].value = reserved[Released + k]
      <4>1. reserved[Released + k] = ValueOf(p)
        BY <1>2, <1>7 DEF FillingState
      <4> QED BY <1>8, <4>1
    <3> QED BY <1>9, <2>1, <3>2, <3>3
  <2>2. CASE i # k
    <3>1. /\ Released + i - 1 \in Nat /\ Released + i - 1 # position[p]
          /\ Released + i - 1 >= Released /\ Released + i - 1 < Released + Capacity
      BY <1>3, <1>4, <1>7, <2>2, CapacityAssumption DEF n
    <3>2. Released + i - 1 \in Window
      BY <1>3, <3>1, CapacityAssumption DEF Window
    <3>3. SlotOf(Released + i - 1) # SlotOf(position[p]) /\ SlotOf(Released + i - 1) \in Slots
      BY <1>2, <3>1, <3>2, WindowSlots, WindowSlot DEF Inv
    <3>4. sequence'[SlotOf(Released + i - 1)] = sequence[SlotOf(Released + i - 1)]
      BY <1>1, <1>2, <3>3 DEF Inv, TypeOK
    <3> QED BY <1>5, <1>6, <1>9, <2>2, <3>4
  <2> QED BY <2>1, <2>2
<1>11. FifoQueue' = f
  BY <1>6, <1>9, <1>10, SeqEqual
<1> QED BY <1>1, <1>4, <1>5, <1>8, <1>11 DEF Fifo!Publish, Fifo!Published

LEMMA PopStep ==
  ASSUME Inv, Inv', PopRelease
  PROVE  Fifo!Pop
<1> DEFINE n == enqueue_position - dequeue_position
<1>1. /\ cpc = "release" /\ cpc' = "advance" /\ delivered' = Append(delivered, taken)
      /\ sequence' = [sequence EXCEPT ![SlotOf(dequeue_position)] = dequeue_position + Capacity]
      /\ UNCHANGED <<enqueue_position, dequeue_position, alive, reserved>>
  BY DEF PopRelease
<1>2. /\ alive /\ dequeue_position \in Window /\ SlotOf(dequeue_position) \in Slots
      /\ dequeue_position < enqueue_position
      /\ sequence[SlotOf(dequeue_position)] = dequeue_position + 1
      /\ taken = reserved[dequeue_position + 1]
  BY <1>1, HeadWindow DEF Inv, RingInv, HeadInv
<1>3. /\ Released = dequeue_position /\ Released' = dequeue_position + 1
      /\ dequeue_position \in Nat /\ enqueue_position \in Nat
      /\ enqueue_position <= dequeue_position + Capacity
  BY <1>1, <1>2 DEF Released, Inv, TypeOK, RingInv, Bounds
<1>4. n \in Nat /\ n >= 1
  BY <1>2, <1>3
<1>5. /\ FifoQueue \in Seq(Fifo!Entries) /\ Len(FifoQueue) = n
      /\ \A i \in 1 .. n :
           FifoQueue[i] = [value |-> reserved[dequeue_position + i],
                           ready |-> sequence[SlotOf(dequeue_position + i - 1)] = dequeue_position + i]
  BY <1>2, <1>3, QueueType DEF IsQueue
<1>6. /\ FifoQueue' \in Seq(Fifo!Entries) /\ Len(FifoQueue') = n - 1
      /\ \A i \in 1 .. n - 1 :
           FifoQueue'[i] =
             [value |-> reserved[dequeue_position + 1 + i],
              ready |-> sequence'[SlotOf(dequeue_position + 1 + i - 1)] = dequeue_position + 1 + i]
  <2>1. enqueue_position' - Released' = n - 1
    BY <1>1, <1>3
  <2> QED BY <1>1, <1>2, <1>3, <2>1, QueueTypeNext DEF IsQueue
<1>7. FifoQueue[1] = [value |-> taken, ready |-> TRUE]
  <2>1. dequeue_position + 1 - 1 = dequeue_position
    BY <1>3
  <2>2. FifoQueue[1] = [value |-> reserved[dequeue_position + 1],
                        ready |-> sequence[SlotOf(dequeue_position + 1 - 1)] = dequeue_position + 1]
    BY <1>4, <1>5, SMTT(30)
  <2>3. (sequence[SlotOf(dequeue_position + 1 - 1)] = dequeue_position + 1) = TRUE
    BY <1>2, <2>1
  <2> QED BY <1>2, <2>2, <2>3, Zenon
<1>8. /\ FifoQueue # <<>> /\ Head(FifoQueue) = FifoQueue[1]
      /\ Tail(FifoQueue) \in Seq(Fifo!Entries) /\ Len(Tail(FifoQueue)) = n - 1
      /\ \A i \in 1 .. n - 1 : Tail(FifoQueue)[i] = FifoQueue[i + 1]
  BY <1>4, <1>5
<1>9. ASSUME NEW i \in 1 .. n - 1 PROVE FifoQueue'[i] = Tail(FifoQueue)[i]
  <2>1. /\ dequeue_position + i \in Nat /\ i + 1 \in 1 .. n
        /\ dequeue_position + (i + 1) = dequeue_position + 1 + i
        /\ dequeue_position + (i + 1) - 1 = dequeue_position + i
        /\ dequeue_position + 1 + i - 1 = dequeue_position + i
    BY <1>3, <1>4
  <2>2. dequeue_position + i \in Window /\ dequeue_position + i # dequeue_position
    BY <1>3, <1>4, CapacityAssumption DEF Window
  <2>3. sequence'[SlotOf(dequeue_position + i)] = sequence[SlotOf(dequeue_position + i)]
    BY <1>1, <1>2, <2>2, WindowSlots, WindowSlot DEF Inv, TypeOK
  <2>4. FifoQueue[i + 1] =
          [value |-> reserved[dequeue_position + 1 + i],
           ready |-> sequence[SlotOf(dequeue_position + i)] = dequeue_position + 1 + i]
    BY <1>5, <2>1
  <2>5. FifoQueue'[i] =
          [value |-> reserved[dequeue_position + 1 + i],
           ready |-> sequence'[SlotOf(dequeue_position + i)] = dequeue_position + 1 + i]
    BY <1>6, <2>1
  <2> QED BY <1>8, <2>3, <2>4, <2>5
<1>10. FifoQueue' = Tail(FifoQueue)
  BY <1>6, <1>8, <1>9, SeqEqual
<1>11. Head(FifoQueue).ready /\ Head(FifoQueue).value = taken
  BY <1>7, <1>8
<1> QED BY <1>1, <1>8, <1>10, <1>11 DEF Fifo!Pop, Fifo!HeadReady

LEMMA DropStep ==
  ASSUME Inv, DestroyRemaining
  PROVE  Fifo!Drop
<1>1. /\ alive /\ cpc = "idle" /\ cpc' = "idle" /\ Released = dequeue_position
      /\ Released' = dequeue_position'
      /\ UNCHANGED <<enqueue_position, reserved, delivered>>
  BY DEF DestroyRemaining, Released
<1>2. /\ dequeue_position \in Nat /\ enqueue_position \in Nat
      /\ dequeue_position <= enqueue_position
  BY <1>1 DEF Inv, TypeOK, RingInv, Bounds
<1>3. PublishedRun = dequeue_position .. enqueue_position - 1
  BY RunIsTheRest
<1>4. PICK m \in dequeue_position .. enqueue_position :
        PublishedRun = dequeue_position .. m - 1 /\ dequeue_position' = m
  BY DEF DestroyRemaining
<1>5. m = enqueue_position
  <2>1. CASE m < enqueue_position
    <3>1. m \in dequeue_position .. enqueue_position - 1 /\ m \notin dequeue_position .. m - 1
      BY <1>2, <1>4, <2>1
    <3> QED BY <1>3, <1>4, <3>1
  <2> QED BY <1>2, <1>4, <2>1
<1>6. FifoQueue' = <<>>
  <2>1. 1 .. enqueue_position' - Released' = {}
    BY <1>1, <1>2, <1>4, <1>5
  <2> QED BY <2>1 DEF FifoQueue
<1>7. ASSUME NEW i \in DOMAIN FifoQueue PROVE FifoQueue[i].ready
  <2>1. /\ i \in 1 .. enqueue_position - dequeue_position
        /\ FifoQueue[i].ready = (sequence[SlotOf(dequeue_position + i - 1)] = dequeue_position + i)
    BY <1>1, QueueType DEF IsQueue
  <2>2. dequeue_position + i - 1 \in PublishedRun /\ dequeue_position + i - 1 + 1 = dequeue_position + i
    BY <1>2, <1>3, <2>1
  <2>3. sequence[SlotOf(dequeue_position + i - 1)] = dequeue_position + i - 1 + 1
    BY <1>2, <2>1, <2>2 DEF PublishedRun
  <2> QED BY <2>1, <2>2, <2>3
<1> QED BY <1>1, <1>6, <1>7 DEF Fifo!Drop

\* The lock-free ring, in every interleaving of its atomic accesses, implements
\* the bounded FIFO queue with separate reservation and publication.
THEOREM Implements_Fifo == Spec => ImplementsFifo
<1>1. Init => Fifo!Init
  <2> SUFFICES ASSUME Init PROVE Fifo!Init
    OBVIOUS
  <2>1. 1 .. enqueue_position - Released = {}
    BY DEF Init, Released
  <2>2. FifoQueue = <<>>
    BY <2>1 DEF FifoQueue
  <2> QED BY <2>2 DEF Fifo!Init, Init
<1>2. Inv /\ Inv' /\ [Next]_vars => [Fifo!Next]_(Fifo!vars)
  <2> SUFFICES ASSUME Inv, Inv', [Next]_vars PROVE Fifo!Next \/ UNCHANGED Fifo!vars
    OBVIOUS
  <2>1. ASSUME NEW p \in Producers, Producing(p) PROVE Fifo!Next \/ UNCHANGED Fifo!vars
    <3>1. CASE TryPush(p) \/ LoadPosition(p) \/ LoadSequence(p) \/ Construct(p)
      BY <3>1, Stutter DEF TryPush, LoadPosition, LoadSequence, Construct, shared, Released
    <3>2. CASE CompareExchange(p)
      <4>1. ValueOf(p) \in Values
        BY <3>2, ValueType DEF CompareExchange, Inv, RingInv
      <4> QED BY <3>2, <4>1, ReserveStep DEF Fifo!Next
    <3>3. CASE Publish(p)
      <4>1. ValueOf(p) \in Values
        BY <3>3, ValueType DEF Publish, Inv, RingInv
      <4> QED BY <3>3, <4>1, PublishStep DEF Fifo!Next
    <3> QED BY <2>1, <3>1, <3>2, <3>3 DEF Producing
  <2>2. CASE Consuming
    <3>1. CASE PopCheck \/ PopMove \/ PopAdvance
      BY <3>1, Stutter DEF PopCheck, PopMove, PopAdvance, shared, Released
    <3>2. CASE PopRelease
      BY <3>2, PopStep DEF Fifo!Next
    <3> QED BY <2>2, <3>1, <3>2 DEF Consuming
  <2>3. CASE DestroyRemaining
    BY <2>3, DropStep DEF Fifo!Next
  <2>4. CASE UNCHANGED vars
    BY <2>4, Stutter DEF vars, shared, Released
  <2> QED BY <2>1, <2>2, <2>3, <2>4 DEF Next, Gone
<1> QED BY <1>1, <1>2, RingOrder, PTL DEF Spec, Inv, ImplementsFifo, Fifo!Spec
=============================================================================
