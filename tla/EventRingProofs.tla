--------------------------- MODULE EventRingProofs --------------------------
(***************************************************************************)
(* The ring behaves as a queue as long as no more events wait than it has  *)
(* slots: types, the inductive invariant, and the refinement of EventQueue *)
(* with the slots between head and tail as the queue.                      *)
(***************************************************************************)
EXTENDS EventRing, SequenceTheorems, TLAPS

\* Quotient and remainder by a positive number, as the slots of a ring need them.
LEMMA DivMod ==
  ASSUME NEW n \in Nat \ {0}, NEW i \in Nat
  PROVE  /\ i % n \in 0 .. n - 1
         /\ i \div n \in Nat
         /\ i = (n * (i \div n)) + (i % n)
  BY SMT

\* A multiple of n strictly between -n and n is zero.
LEMMA MultipleBelow ==
  ASSUME NEW n \in Nat \ {0}, NEW d \in Int, n * d < n, n * d > -n
  PROVE  d = 0
  <1>1. CASE d >= 1
    <2>1. n * d >= n
      BY <1>1, SMT
    <2>. QED BY <2>1, SMT
  <1>2. CASE d <= -1
    <2>1. n * d <= -n
      BY <1>2, SMT
    <2>. QED BY <2>1, SMT
  <1>. QED BY <1>1, <1>2, SMT

\* Equal remainders cancel.
LEMMA Factor ==
  ASSUME NEW n \in Int, NEW a \in Int, NEW b \in Int, NEW r \in Int
  PROVE  ((n * b) + r) - ((n * a) + r) = n * (b - a)
  BY SMT

\* Two positions less than n apart never share a slot of a ring of n slots.
LEMMA DistinctSlots ==
  ASSUME NEW n \in Nat \ {0}, NEW i \in Nat, NEW j \in Nat,
         i <= j, j - i < n, i % n = j % n
  PROVE  i = j
  <1> DEFINE a == i \div n
             b == j \div n
             r == i % n
  <1>1. a \in Int /\ b \in Int /\ r \in Int
    BY DivMod, SMT
  <1>2. i = (n * a) + r /\ j = (n * b) + r
    BY DivMod
  <1> HIDE DEF a, b, r
  <1>3. j - i = n * (b - a)
    BY <1>1, <1>2, Factor
  <1> DEFINE d == b - a
  <1>4. d \in Int /\ j - i = n * d
    BY <1>1, <1>3, SMT
  <1> HIDE DEF d
  <1>5. d = 0
    <2>1. n * d < n /\ n * d > -n
      BY <1>4, SMT
    <2>. QED BY <1>4, <2>1, MultipleBelow
  <1>6. n * d = 0
    BY <1>5, SMT
  <1>. QED BY <1>4, <1>6, SMT

-----------------------------------------------------------------------------
(* Type correctness.                                                       *)

\* A position reduced modulo Size is a slot.
LEMMA SlotOfPosition ==
  ASSUME NEW i \in Nat
  PROVE  i % Size \in Slot
  BY SizeAssumption, DivMod DEF Slot

\* The zero-filled ring is well typed.
LEMMA TypeInit == Init => TypeOK
  <1> SUFFICES ASSUME Init PROVE TypeOK
    OBVIOUS
  <1> PICK k \in Key : /\ keyAt = [i \in Slot |-> k]
                       /\ arg = [c \in Core |-> [key |-> k, pressed |-> FALSE]]
    BY DEF Init
  <1>1. keyAt \in [Slot -> Key] /\ arg \in [Core -> Event]
    BY DEF Event
  <1>2. pc \in [Core -> Points]
    BY DEF Init, Points
  <1>3. pushed \in Seq(Event) /\ delivered \in Seq(Event)
    BY DEF Init
  <1>. QED BY <1>1, <1>2, <1>3 DEF Init, TypeOK

\* So is the ring after any step.
LEMMA TypeStep == TypeOK /\ [Next]_vars => TypeOK'
  <1> SUFFICES ASSUME TypeOK, [Next]_vars PROVE TypeOK'
    OBVIOUS
  <1> USE DEF TypeOK
  <1>0. tail % Size \in Slot /\ head % Size \in Slot
    BY SlotOfPosition
  <1>1. ASSUME NEW c \in Core, NEW e \in Event, AcquireToPush(c, e)
        PROVE  TypeOK'
    BY <1>1 DEF AcquireToPush, Goto, Points
  <1>2. ASSUME NEW c \in Core, StoreKey(c)
        PROVE  TypeOK'
    BY <1>0, <1>2 DEF StoreKey, Goto, Points, Event
  <1>3. ASSUME NEW c \in Core, StorePressed(c)
        PROVE  TypeOK'
    BY <1>0, <1>3 DEF StorePressed, Goto, Points, Event
  <1>4. ASSUME NEW c \in Core, AdvanceTail(c)
        PROVE  TypeOK'
    BY <1>4 DEF AdvanceTail, Goto, Points
  <1>5. ASSUME NEW c \in Core, Release(c)
        PROVE  TypeOK'
    BY <1>5 DEF Release, Goto, Points
  <1>6. CASE AcquireToDrain
    BY <1>6, ConsumerAssumption DEF AcquireToDrain, Goto, Points
  <1>7. CASE HandleSlot
    <2>1. [key |-> keyAt[head % Size], pressed |-> pressedAt[head % Size]] \in Event
      BY <1>0 DEF Event
    <2>. QED BY <1>7, <2>1, ConsumerAssumption DEF HandleSlot, Goto, Points
  <1>8. CASE AdvanceHead
    BY <1>8, ConsumerAssumption DEF AdvanceHead, Goto, Points
  <1>9. CASE Drained
    BY <1>9, ConsumerAssumption DEF Drained, Goto, Points
  <1>10. ASSUME NEW e \in Event, PushLocked(e)
         PROVE  TypeOK'
    BY <1>0, <1>10 DEF PushLocked, Event
  <1>11. CASE EndDrain
    BY <1>11, ConsumerAssumption DEF EndDrain, Goto, Points
  <1>12. CASE UNCHANGED vars
    BY <1>12 DEF vars
  <1>. QED
    BY <1>1, <1>2, <1>3, <1>4, <1>5, <1>6, <1>7, <1>8, <1>9, <1>10, <1>11, <1>12
    DEF Next, Push, DrainLoop

\* Every variable of the ring keeps its type, for every number of cores and
\* every ring size (emux_key_interrupt and the drain of vsyncarch_postsync).
THEOREM TypeCorrect == Spec => []TypeOK
  BY TypeInit, TypeStep, PTL DEF Spec

-----------------------------------------------------------------------------
(* The ring invariant, for every number of cores and every ring at least as *)
(* long as the handlers get ahead of the main loop.                         *)

\* The empty ring has the invariant.
LEMMA InvInit == Init => RingInvariant
  <1> SUFFICES ASSUME Init PROVE RingInvariant
    OBVIOUS
  <1>1. LockHeld
    BY FreeAssumption DEF Init, LockHeld, Draining
  <1>2. Cursors
    BY ConsumerAssumption, BoundAssumption DEF Init, Cursors, Storing
  <1>3. SlotsHold
    BY DEF Init, SlotsHold
  <1>4. HalfStored
    BY DEF Init, HalfStored
  <1>5. HandledSoFar
    BY ConsumerAssumption DEF Init, HandledSoFar
  <1>. QED BY <1>1, <1>2, <1>3, <1>4, <1>5 DEF RingInvariant

\* At most one core is inside the critical section.
LEMMA OneCoreInside ==
  ASSUME LockHeld, NEW c \in Core, NEW d \in Core,
         pc[c] # "idle", pc[d] # "idle"
  PROVE  c = d
  BY DEF LockHeld

\* Storing at tail % Size touches no live slot while the ring has room.
LEMMA TailSlotFree ==
  ASSUME TypeOK, MaxPending <= Size, tail - head < MaxPending,
         NEW i \in head .. tail - 1
  PROVE  i % Size # tail % Size
  <1>1. i \in Nat /\ tail \in Nat /\ i <= tail /\ i # tail
    BY DEF TypeOK
  <1>2. tail - i < Size
    BY <1>1, BoundAssumption, SizeAssumption DEF TypeOK
  <1>. QED BY <1>1, <1>2, DistinctSlots, SizeAssumption

\* circle_lock_acquire before a push: only the lock and the core's place change.
LEMMA AcquireToPushStep ==
  ASSUME TypeOK, RingInvariant, NEW c \in Core, NEW e \in Event,
         AcquireToPush(c, e)
  PROVE  RingInvariant'
  <1> USE DEF RingInvariant, AcquireToPush, Goto, TypeOK
  <1>1. LockHeld'
    BY FreeAssumption DEF LockHeld, Draining
  <1>2. \A d \in Core : pc[d] = "idle"
    BY FreeAssumption DEF LockHeld
  <1>3. pc'[Consumer] # "advanceHead" /\ pc[Consumer] # "advanceHead"
    BY <1>2, ConsumerAssumption
  <1>4. Cursors'
    BY <1>2, <1>3 DEF Cursors, Room
  <1>5. SlotsHold'
    BY DEF SlotsHold
  <1>6. HalfStored'
    BY <1>2 DEF HalfStored
  <1>7. HandledSoFar'
    BY <1>3 DEF HandledSoFar
  <1>. QED BY <1>1, <1>4, <1>5, <1>6, <1>7

\* The first store goes to a slot that holds no waiting event.
LEMMA StoreKeyStep ==
  ASSUME TypeOK, RingInvariant, MaxPending <= Size,
         NEW c \in Core, StoreKey(c)
  PROVE  RingInvariant'
  <1> USE DEF RingInvariant, StoreKey, Goto, TypeOK
  <1>0. tail % Size \in Slot /\ arg[c].key \in Key
    BY SlotOfPosition DEF Event
  <1>1. LockHeld'
    BY DEF LockHeld, Draining
  <1>2. pc'[Consumer] # "advanceHead" /\ pc[Consumer] # "advanceHead"
    BY ConsumerAssumption DEF LockHeld
  <1>3. Cursors'
    BY <1>2 DEF Cursors, Storing
  <1>4. SlotsHold'
    <2>1. tail - head < MaxPending
      BY DEF Cursors, Storing
    <2>2. \A i \in head .. tail - 1 : i % Size # tail % Size
      BY <2>1, TailSlotFree
    <2>3. \A i \in head .. tail - 1 : i % Size \in Slot
      BY SlotOfPosition
    <2>. QED BY <1>0, <2>2, <2>3 DEF SlotsHold
  <1>5. HalfStored'
    BY <1>0 DEF HalfStored, LockHeld
  <1>6. HandledSoFar'
    BY <1>2 DEF HandledSoFar
  <1>. QED BY <1>1, <1>3, <1>4, <1>5, <1>6

\* So does the second, and the first one's value is still there.
LEMMA StorePressedStep ==
  ASSUME TypeOK, RingInvariant, MaxPending <= Size,
         NEW c \in Core, StorePressed(c)
  PROVE  RingInvariant'
  <1> USE DEF RingInvariant, StorePressed, Goto, TypeOK
  <1>0. tail % Size \in Slot /\ arg[c].pressed \in BOOLEAN
    BY SlotOfPosition DEF Event
  <1>1. LockHeld'
    BY DEF LockHeld, Draining
  <1>2. pc'[Consumer] # "advanceHead" /\ pc[Consumer] # "advanceHead"
    BY ConsumerAssumption DEF LockHeld
  <1>3. Cursors'
    BY <1>2 DEF Cursors, Storing
  <1>4. SlotsHold'
    <2>1. tail - head < MaxPending
      BY DEF Cursors, Storing
    <2>2. \A i \in head .. tail - 1 : i % Size # tail % Size
      BY <2>1, TailSlotFree
    <2>3. \A i \in head .. tail - 1 : i % Size \in Slot
      BY SlotOfPosition
    <2>. QED BY <1>0, <2>2, <2>3 DEF SlotsHold
  <1>5. HalfStored'
    BY <1>0 DEF HalfStored, LockHeld
  <1>6. HandledSoFar'
    BY <1>2 DEF HandledSoFar
  <1>. QED BY <1>1, <1>3, <1>4, <1>5, <1>6

\* With tail++ the half-stored event becomes a waiting one.
LEMMA AdvanceTailStep ==
  ASSUME TypeOK, RingInvariant, NEW c \in Core, AdvanceTail(c)
  PROVE  RingInvariant'
  <1> USE DEF RingInvariant, AdvanceTail, Goto, TypeOK
  <1>0. arg[c] \in Event /\ Len(pushed) = tail
    BY DEF Cursors
  <1>1. LockHeld'
    BY DEF LockHeld, Draining
  <1>2. pc'[Consumer] # "advanceHead" /\ pc[Consumer] # "advanceHead"
    BY ConsumerAssumption DEF LockHeld
  <1>3. \A d \in Core : d # c => pc[d] = "idle"
    BY DEF LockHeld
  <1>4. /\ Len(pushed') = tail + 1
        /\ \A i \in 1 .. tail : pushed'[i] = pushed[i]
        /\ pushed'[tail + 1] = arg[c]
    BY <1>0
  <1>5. Cursors'
    BY <1>2, <1>3, <1>4, BoundAssumption DEF Cursors, Storing
  <1>6. SlotsHold'
    <2>0. head' .. tail' - 1 = head .. tail
      OBVIOUS
    <2>1. SUFFICES ASSUME NEW i \in head .. tail
                   PROVE  /\ keyAt[i % Size] = pushed'[i + 1].key
                          /\ pressedAt[i % Size] = pushed'[i + 1].pressed
      BY <2>0 DEF SlotsHold
    <2>2. CASE i = tail
      BY <1>4, <2>2 DEF HalfStored
    <2>3. CASE i # tail
      BY <1>4, <2>3 DEF SlotsHold
    <2>. QED BY <2>2, <2>3
  <1>7. HalfStored'
    BY <1>3 DEF HalfStored
  <1>8. HandledSoFar'
    BY <1>0, <1>2, <1>4 DEF HandledSoFar, Cursors
  <1>. QED BY <1>1, <1>5, <1>6, <1>7, <1>8

\* A release gives up a lock that the core holds.
LEMMA ReleaseStep ==
  ASSUME TypeOK, RingInvariant, NEW c \in Core, Release(c)
  PROVE  RingInvariant'
  <1> USE DEF RingInvariant, Release, Goto, TypeOK
  <1>1. LockHeld'
    BY FreeAssumption DEF LockHeld, Draining
  <1>2. pc'[Consumer] # "advanceHead" /\ pc[Consumer] # "advanceHead"
    BY ConsumerAssumption DEF LockHeld
  <1>3. Cursors'
    BY <1>2 DEF Cursors, Storing
  <1>4. SlotsHold'
    BY DEF SlotsHold
  <1>5. HalfStored'
    BY DEF HalfStored
  <1>6. HandledSoFar'
    BY <1>2 DEF HandledSoFar
  <1>. QED BY <1>1, <1>3, <1>4, <1>5, <1>6

\* The main loop enters the critical section.
LEMMA AcquireToDrainStep ==
  ASSUME TypeOK, RingInvariant, AcquireToDrain
  PROVE  RingInvariant'
  <1> USE ConsumerAssumption DEF RingInvariant, AcquireToDrain, Goto, TypeOK
  <1>1. LockHeld'
    BY FreeAssumption DEF LockHeld, Draining
  <1>2. Cursors'
    BY DEF Cursors, Storing
  <1>3. SlotsHold'
    BY DEF SlotsHold
  <1>4. HalfStored'
    BY DEF HalfStored
  <1>5. HandledSoFar'
    BY DEF HandledSoFar
  <1>. QED BY <1>1, <1>2, <1>3, <1>4, <1>5

\* The slot at head holds the oldest event that waits.
LEMMA HandleSlotStep ==
  ASSUME TypeOK, RingInvariant, HandleSlot
  PROVE  RingInvariant'
  <1> USE ConsumerAssumption DEF RingInvariant, HandleSlot, Goto, TypeOK
  <1> DEFINE e == [key |-> keyAt[head % Size], pressed |-> pressedAt[head % Size]]
  <1>1. LockHeld'
    BY DEF LockHeld, Draining
  <1>2. Cursors'
    BY DEF Cursors, Storing
  <1>3. SlotsHold'
    BY DEF SlotsHold
  <1>4. HalfStored'
    BY DEF HalfStored
  <1>5. HandledSoFar'
    <2>1. e \in Event
      BY SlotOfPosition DEF Event
    <2>2. head \in head .. tail - 1 /\ head + 1 \in 1 .. Len(pushed)
      BY DEF Cursors
    <2>3. e = pushed[head + 1]
      <3>1. pushed[head + 1] \in Event
        BY <2>2
      <3>2. e.key = pushed[head + 1].key /\ e.pressed = pushed[head + 1].pressed
        BY <2>2 DEF SlotsHold
      <3>. QED BY <2>1, <3>1, <3>2 DEF Event
    <2>4. Len(delivered) = head
      BY DEF HandledSoFar
    <2> HIDE DEF e
    <2>5. delivered' = Append(delivered, e)
      BY DEF e
    <2>6. /\ Len(delivered') = head + 1
          /\ \A i \in 1 .. head : delivered'[i] = delivered[i]
          /\ delivered'[head + 1] = e
      BY <2>1, <2>4, <2>5
    <2>. QED BY <2>3, <2>4, <2>6 DEF HandledSoFar
  <1>. QED BY <1>1, <1>2, <1>3, <1>4, <1>5

\* head++ lets go of a slot that has been handled.
LEMMA AdvanceHeadStep ==
  ASSUME TypeOK, RingInvariant, AdvanceHead
  PROVE  RingInvariant'
  <1> USE ConsumerAssumption DEF RingInvariant, AdvanceHead, Goto, TypeOK
  <1>1. LockHeld'
    BY DEF LockHeld, Draining
  <1>2. Cursors'
    <2>1. \A c \in Core : pc'[c] \notin Storing
      BY DEF LockHeld, Storing
    <2>2. head' = head + 1 /\ tail' = tail /\ pushed' = pushed /\ head < tail
      BY DEF Cursors
    <2>. QED BY <2>1, <2>2, BoundAssumption DEF Cursors
  <1>3. SlotsHold'
    <2>1. \A i \in head' .. tail' - 1 : i \in head .. tail - 1
      OBVIOUS
    <2>. QED BY <2>1 DEF SlotsHold
  <1>4. HalfStored'
    BY DEF HalfStored
  <1>5. HandledSoFar'
    BY DEF HandledSoFar
  <1>. QED BY <1>1, <1>2, <1>3, <1>4, <1>5

\* Drained and EndDrain only move the main loop on.
LEMMA MoveOnStep ==
  ASSUME TypeOK, RingInvariant, Drained \/ EndDrain
  PROVE  RingInvariant'
  <1> USE ConsumerAssumption DEF RingInvariant, Drained, EndDrain, Goto, TypeOK
  <1>1. LockHeld'
    BY DEF LockHeld, Draining
  <1>2. Cursors'
    BY DEF Cursors, Storing
  <1>3. SlotsHold'
    BY DEF SlotsHold
  <1>4. HalfStored'
    BY DEF HalfStored
  <1>5. HandledSoFar'
    BY DEF HandledSoFar
  <1>. QED BY <1>1, <1>2, <1>3, <1>4, <1>5

\* A push under the lock is a whole emux_key_interrupt in one step: both
\* fields of the slot at tail, then tail++.
LEMMA PushLockedStep ==
  ASSUME TypeOK, RingInvariant, MaxPending <= Size,
         NEW e \in Event, PushLocked(e)
  PROVE  RingInvariant'
  <1> USE ConsumerAssumption DEF RingInvariant, PushLocked, TypeOK
  <1>0. tail % Size \in Slot /\ e.key \in Key /\ e.pressed \in BOOLEAN
    BY SlotOfPosition DEF Event
  <1>1. LockHeld'
    BY DEF LockHeld, Draining
  <1>2. \A d \in Core : d # Consumer => pc[d] = "idle"
    BY DEF LockHeld
  <1>3. /\ Len(pushed') = tail + 1
        /\ \A i \in 1 .. tail : pushed'[i] = pushed[i]
        /\ pushed'[tail + 1] = e
    BY DEF Cursors
  <1>4. Cursors'
    <2>1. \A c \in Core : pc'[c] \notin Storing /\ pc'[c] # "advanceHead"
      BY <1>2 DEF Storing
    <2>2. head' = head /\ tail' = tail + 1 /\ tail - head < MaxPending /\ head <= tail
      BY DEF Cursors, Room
    <2>. QED BY <1>3, <2>1, <2>2, BoundAssumption DEF Cursors
  <1>5. SlotsHold'
    <2>0. head' .. tail' - 1 = head .. tail
      OBVIOUS
    <2>1. SUFFICES ASSUME NEW i \in head .. tail
                   PROVE  /\ keyAt'[i % Size] = pushed'[i + 1].key
                          /\ pressedAt'[i % Size] = pushed'[i + 1].pressed
      BY <2>0 DEF SlotsHold
    <2>2. CASE i = tail
      BY <1>0, <1>3, <2>2
    <2>3. CASE i # tail
      <3>1. i \in head .. tail - 1
        BY <2>3
      <3>2. i % Size # tail % Size
        BY <3>1, TailSlotFree DEF Room
      <3>3. i % Size \in Slot
        BY SlotOfPosition
      <3>4. /\ keyAt'[i % Size] = keyAt[i % Size]
            /\ pressedAt'[i % Size] = pressedAt[i % Size]
        BY <1>0, <3>2, <3>3
      <3>. QED BY <1>3, <3>1, <3>4 DEF SlotsHold
    <2>. QED BY <2>2, <2>3
  <1>6. HalfStored'
    BY <1>2 DEF HalfStored
  <1>7. HandledSoFar'
    BY <1>3 DEF HandledSoFar, Cursors
  <1>. QED BY <1>1, <1>4, <1>5, <1>6, <1>7

\* Every step of every core preserves the invariant.
LEMMA InvStep ==
  ASSUME MaxPending <= Size, TypeOK, RingInvariant, [Next]_vars
  PROVE  RingInvariant'
  <1>1. CASE UNCHANGED vars
    BY <1>1 DEF vars, RingInvariant, LockHeld, Cursors, SlotsHold, HalfStored,
                HandledSoFar, Draining, Storing
  <1>2. ASSUME NEW c \in Core, Push(c)
        PROVE  RingInvariant'
    BY <1>2, AcquireToPushStep, StoreKeyStep, StorePressedStep,
       AdvanceTailStep, ReleaseStep
    DEF Push
  <1>3. CASE DrainLoop
    BY <1>3, AcquireToDrainStep, HandleSlotStep, AdvanceHeadStep, MoveOnStep,
       PushLockedStep
    DEF DrainLoop
  <1>. QED BY <1>1, <1>2, <1>3 DEF Next

\* The lock, the cursors, the live slots and the half-stored event are as the
\* code of emux_key_interrupt and vsyncarch_postsync relies on, as long as no
\* more events are queued between two drains than the ring has slots.
THEOREM InvariantHolds ==
  ASSUME MaxPending <= Size
  PROVE  Spec => []RingInvariant
  <1>1. Init => TypeOK /\ RingInvariant
    BY TypeInit, InvInit
  <1>2. TypeOK /\ RingInvariant /\ [Next]_vars => (TypeOK /\ RingInvariant)'
    BY TypeStep, InvStep
  <1>. QED BY <1>1, <1>2, PTL DEF Spec

\* Every queued key event is handled at most once, unchanged and in order, for
\* every number of cores and every ring size, under the same assumption.
THEOREM NothingLostOrReordered ==
  ASSUME MaxPending <= Size
  PROVE  Spec => []ExactlyOnceInOrder
  <1>1. TypeOK /\ RingInvariant => ExactlyOnceInOrder
    BY ConsumerAssumption
    DEF TypeOK, RingInvariant, HandledSoFar, Cursors, ExactlyOnceInOrder
  <1>. QED BY <1>1, TypeCorrect, InvariantHolds, PTL

-----------------------------------------------------------------------------
(* The ring implements the queue.                                          *)

\* What the live slots stand for, in terms of the two histories.
Unhandled ==
  [i \in 1 .. Len(pushed) - Len(delivered) |-> pushed[Len(delivered) + i]]

\* What the refinement mapping reads from the slots is what was queued and not handled.
LEMMA PendingIsUnhandled == TypeOK /\ RingInvariant => Pending = Unhandled
  <1> SUFFICES ASSUME TypeOK, RingInvariant
               PROVE  Pending = Unhandled
    OBVIOUS
  <1> USE DEF TypeOK, RingInvariant
  <1> DEFINE first == IF pc[Consumer] = "advanceHead" THEN head + 1 ELSE head
             slot(i) == [key     |-> keyAt[(first + i - 1) % Size],
                         pressed |-> pressedAt[(first + i - 1) % Size]]
  <1>1. /\ first \in Nat
        /\ Len(delivered) = first
        /\ Len(pushed) = tail
        /\ head <= first
    BY DEF HandledSoFar, Cursors
  <1>2. Pending = [i \in 1 .. tail - first |-> slot(i)]
    BY DEF Pending
  <1>3. ASSUME NEW i \in 1 .. tail - first
        PROVE  slot(i) = pushed[first + i]
    <2> DEFINE j == first + i - 1
    <2>1. j \in head .. tail - 1 /\ j \in Nat /\ j + 1 = first + i
      BY <1>1
    <2>2. j + 1 \in 1 .. Len(pushed)
      BY <1>1, <2>1
    <2>3. pushed[j + 1] \in Event
      BY <2>2
    <2>4. keyAt[j % Size] = pushed[j + 1].key /\ pressedAt[j % Size] = pushed[j + 1].pressed
      BY <2>1 DEF SlotsHold
    <2>5. slot(i) = [key |-> keyAt[j % Size], pressed |-> pressedAt[j % Size]]
      OBVIOUS
    <2> HIDE DEF j, slot, first
    <2>. QED BY <2>1, <2>3, <2>4, <2>5 DEF Event
  <1> HIDE DEF first, slot
  <1>. QED BY <1>1, <1>2, <1>3 DEF Unhandled

\* A sequence is the function of its elements.
LEMMA SeqAsFunction ==
  ASSUME NEW S, NEW s \in Seq(S), NEW n \in Nat, Len(s) = n
  PROVE  s = [i \in 1 .. n |-> s[i]]
  BY LenProperties

\* A push appends to it.
LEMMA UnhandledGrows ==
  ASSUME TypeOK, NEW e \in Event, Len(delivered) <= Len(pushed),
         pushed' = Append(pushed, e), delivered' = delivered
  PROVE  Unhandled' = Append(Unhandled, e)
  <1> DEFINE m == Len(delivered)
             n == Len(pushed)
  <1>1. m \in Nat /\ n \in Nat /\ m <= n
    BY DEF TypeOK
  <1>2. Len(pushed') = n + 1 /\ pushed'[n + 1] = e
        /\ \A i \in 1 .. n : pushed'[i] = pushed[i]
    BY DEF TypeOK
  <1>3. Unhandled = [i \in 1 .. n - m |-> pushed[m + i]]
    BY DEF Unhandled
  <1>4. Unhandled' = [i \in 1 .. (n + 1) - m |-> pushed'[m + i]]
    BY <1>2 DEF Unhandled
  <1>5. Unhandled \in Seq(Event) /\ Len(Unhandled) = n - m
    BY <1>1, <1>3 DEF TypeOK
  <1> HIDE DEF m, n
  <1>6. /\ Append(Unhandled, e) \in Seq(Event)
        /\ Len(Append(Unhandled, e)) = (n + 1) - m
    BY <1>1, <1>5, AppendProperties
  <1>7. ASSUME NEW i \in 1 .. (n + 1) - m
        PROVE  pushed'[m + i] = Append(Unhandled, e)[i]
    <2>1. CASE i = (n + 1) - m
      BY <1>1, <1>2, <1>5, <2>1
    <2>2. CASE i # (n + 1) - m
      BY <1>1, <1>2, <1>3, <1>5, <2>2
    <2>. QED BY <2>1, <2>2
  <1>8. Append(Unhandled, e) = [i \in 1 .. (n + 1) - m |-> Append(Unhandled, e)[i]]
    <2>1. (n + 1) - m \in Nat
      BY <1>1
    <2> DEFINE s == Append(Unhandled, e)
    <2>2. s \in Seq(Event) /\ Len(s) = (n + 1) - m
      BY <1>6
    <2> HIDE DEF s
    <2>3. s = [i \in 1 .. (n + 1) - m |-> s[i]]
      BY <2>1, <2>2, SeqAsFunction
    <2>. QED BY <2>3 DEF s
  <1>. QED BY <1>4, <1>7, <1>8

\* Handling a slot takes its first.
LEMMA UnhandledShrinks ==
  ASSUME TypeOK, NEW e \in Event, Len(delivered) < Len(pushed),
         e = pushed[Len(delivered) + 1],
         delivered' = Append(delivered, e), pushed' = pushed
  PROVE  /\ Unhandled # << >>
         /\ Head(Unhandled) = e
         /\ Unhandled' = Tail(Unhandled)
  <1> DEFINE m == Len(delivered)
             n == Len(pushed)
  <1>1. m \in Nat /\ n \in Nat /\ m < n
    BY DEF TypeOK
  <1>2. Len(delivered') = m + 1
    BY DEF TypeOK
  <1>3. Unhandled = [i \in 1 .. n - m |-> pushed[m + i]]
    BY DEF Unhandled
  <1>4. Unhandled' = [i \in 1 .. n - (m + 1) |-> pushed[(m + 1) + i]]
    BY <1>2 DEF Unhandled
  <1>5. Unhandled \in Seq(Event) /\ Len(Unhandled) = n - m
    BY <1>1, <1>3 DEF TypeOK
  <1>6. Unhandled[1] = e
    BY <1>1, <1>3
  <1> HIDE DEF m, n
  <1>7. Tail(Unhandled) = [i \in 1 .. n - (m + 1) |-> Unhandled[i + 1]]
    <2>1. Unhandled # << >>
      BY <1>1, <1>5
    <2>2. /\ Tail(Unhandled) \in Seq(Event)
          /\ Len(Tail(Unhandled)) = n - (m + 1)
          /\ \A i \in 1 .. n - (m + 1) : Tail(Unhandled)[i] = Unhandled[i + 1]
      BY <1>1, <1>5, <2>1, HeadTailProperties
    <2>3. Tail(Unhandled) = [i \in 1 .. n - (m + 1) |-> Tail(Unhandled)[i]]
      <3>1. n - (m + 1) \in Nat
        BY <1>1
      <3> DEFINE s == Tail(Unhandled)
      <3>2. s \in Seq(Event) /\ Len(s) = n - (m + 1)
        BY <2>2
      <3> HIDE DEF s
      <3>3. s = [i \in 1 .. n - (m + 1) |-> s[i]]
        BY <3>1, <3>2, SeqAsFunction
      <3>. QED BY <3>3 DEF s
    <2>. QED BY <2>2, <2>3
  <1>8. \A i \in 1 .. n - (m + 1) : Unhandled[i + 1] = pushed[(m + 1) + i]
    BY <1>1, <1>3
  <1>9. Unhandled # << >> /\ Head(Unhandled) = e
    BY <1>1, <1>5, <1>6
  <1>. QED BY <1>4, <1>7, <1>8, <1>9

\* The initial ring maps to the empty queue.
LEMMA RefinementInit == Init => Abstract!QueueInit
  <1> SUFFICES ASSUME Init PROVE Abstract!QueueInit
    OBVIOUS
  <1>1. Pending = << >>
    BY ConsumerAssumption DEF Init, Pending
  <1>. QED BY <1>1 DEF Init, Abstract!QueueInit

\* AdvanceTail and PushLocked are Put, HandleSlot is Take, and no other step
\* changes what is queued.
LEMMA RefinementStep ==
  ASSUME MaxPending <= Size, TypeOK, RingInvariant, [Next]_vars
  PROVE  [Abstract!QueueNext]_(Abstract!queueVars)
  <1>1. TypeOK' /\ RingInvariant'
    BY TypeStep, InvStep
  <1>2. Pending = Unhandled
    BY PendingIsUnhandled
  <1>3. (Pending = Unhandled)'
    BY <1>1, PendingIsUnhandled, PTL
  <1>4. Len(delivered) <= Len(pushed)
    BY ConsumerAssumption DEF TypeOK, RingInvariant, HandledSoFar, Cursors
  <1>5. ASSUME NEW e \in Event, pushed' = Append(pushed, e), delivered' = delivered
        PROVE  Abstract!Put(e)
    BY <1>2, <1>3, <1>4, <1>5, UnhandledGrows DEF Abstract!Put
  <1>6. CASE HandleSlot
    <2>1. /\ Len(delivered) = head
          /\ head < Len(pushed)
      BY <1>6 DEF HandleSlot, Goto, TypeOK, RingInvariant, HandledSoFar, Cursors
    <2> DEFINE e == pushed[Len(delivered) + 1]
    <2>2. e \in Event
      BY <2>1 DEF TypeOK
    <2>3. /\ pushed' = pushed
          /\ Len(delivered') = head + 1
          /\ delivered'[head + 1] = e
          /\ delivered' \in Seq(Event)
      BY <1>1, <1>6, <2>1
      DEF HandleSlot, Goto, TypeOK, RingInvariant, HandledSoFar
    <2>4. delivered' = Append(delivered, e)
      BY <1>1, <1>6, <2>1, <2>3 DEF HandleSlot, TypeOK
    <2>5. Abstract!Take
      <3> HIDE DEF e
      <3>1. /\ Unhandled # << >>
            /\ Head(Unhandled) = e
            /\ Unhandled' = Tail(Unhandled)
        BY <1>4, <2>1, <2>2, <2>3, <2>4, UnhandledShrinks DEF e, TypeOK
      <3>. QED BY <1>2, <1>3, <2>4, <3>1 DEF Abstract!Take
    <2>. QED BY <2>5 DEF Abstract!QueueNext
  <1>7. ASSUME pushed' = pushed, delivered' = delivered
        PROVE  UNCHANGED Abstract!queueVars
    BY <1>2, <1>3, <1>7 DEF Unhandled, Abstract!queueVars
  <1>8. ASSUME NEW c \in Core, AdvanceTail(c)
        PROVE  \E e \in Event : Abstract!Put(e)
    BY <1>5, <1>8 DEF AdvanceTail, TypeOK
  <1>9. ASSUME NEW e \in Event, PushLocked(e)
        PROVE  Abstract!Put(e)
    BY <1>5, <1>9 DEF PushLocked
  <1>10. CASE UNCHANGED vars
    BY <1>7, <1>10 DEF vars
  <1>11. ASSUME NEW c \in Core, Push(c)
         PROVE  [Abstract!QueueNext]_(Abstract!queueVars)
    BY <1>7, <1>8, <1>11
    DEF Push, AcquireToPush, StoreKey, StorePressed, Release, Abstract!QueueNext
  <1>12. CASE DrainLoop
    BY <1>6, <1>7, <1>9, <1>12
    DEF DrainLoop, AcquireToDrain, AdvanceHead, Drained, EndDrain, Abstract!QueueNext
  <1>. QED BY <1>10, <1>11, <1>12 DEF Next

\* The ring under its lock implements the queue that the input handlers and
\* the main loop take it for, while no more events are queued between two
\* drains than it has slots.
THEOREM RingImplementsQueue ==
  ASSUME MaxPending <= Size
  PROVE  Spec => ImplementsQueue
  <1>1. Init => Abstract!QueueInit
    BY RefinementInit
  <1>2. TypeOK /\ RingInvariant /\ [Next]_vars
          => [Abstract!QueueNext]_(Abstract!queueVars)
    BY RefinementStep
  <1>. QED
    BY <1>1, <1>2, TypeCorrect, InvariantHolds, PTL
    DEF Spec, ImplementsQueue, Abstract!QueueSpec
=============================================================================
