----------------------------- MODULE EventRing ------------------------------
(***************************************************************************)
(* The ring buffers between the input handlers and the main loop, with the *)
(* one spin lock of the kernel around them, one step per memory access.    *)
(*                                                                         *)
(* Three rings have this shape: pending_emu_key and pending_emu_joy        *)
(* (emux_api.c) and pending_ui_key (ui.c).  A slot has several fields that *)
(* are stored one after the other; `key' and `pressed' stand for them.     *)
(* The code indexes a slot with `tail & 0xf' (`& 0x7f' for the joystick    *)
(* ring), which is tail % Size for the Size of that ring, and never        *)
(* compares tail - head with Size: MaxPending is how far the handlers get  *)
(* ahead of the main loop.  Every event is handled exactly once only while *)
(* MaxPending <= Size.                                                     *)
(***************************************************************************)
EXTENDS Integers, Sequences

CONSTANTS
  Core,        \* the cores that run input handlers
  Consumer,    \* the core of the main loop (core 1); it also scans the GPIOs
  Key,         \* key codes
  Size,        \* slots of the ring
  MaxPending,  \* how many events may be queued between two drains
  MaxEvents,   \* bound of the model: events queued in a behaviour
  Free         \* the value of an unowned lock

ASSUME ConsumerAssumption == Consumer \in Core
ASSUME SizeAssumption == Size \in Nat \ {0}
ASSUME FreeAssumption == Free \notin Core
ASSUME BoundAssumption == MaxPending \in Nat /\ MaxEvents \in Nat

Event == [key : Key, pressed : BOOLEAN]

VARIABLES
  lock,        \* CKernel::m_Lock: the core that owns it, or Free
  keyAt,       \* pending_emu_key.key
  pressedAt,   \* pending_emu_key.pressed
  head, tail,  \* pending_emu_key.head and .tail, never reduced modulo Size
  pc,          \* where each core is
  arg,         \* the event each core is queueing
  pushed,      \* history: every event queued, in the order of tail++
  delivered    \* history: every event the main loop handled

vars == << lock, keyAt, pressedAt, head, tail, pc, arg, pushed, delivered >>

Slot == 0 .. Size - 1
Points == {"idle", "storeKey", "storePressed", "advanceTail",
           "drain", "advanceHead", "drained", "unlock"}

TypeOK ==
  /\ lock \in Core \union {Free}
  /\ keyAt \in [Slot -> Key]
  /\ pressedAt \in [Slot -> BOOLEAN]
  /\ head \in Nat
  /\ tail \in Nat
  /\ pc \in [Core -> Points]
  /\ arg \in [Core -> Event]
  /\ pushed \in Seq(Event)
  /\ delivered \in Seq(Event)

\* The rings are static variables: zero-filled, so every slot holds one same
\* event that no handler has queued.
Init ==
  /\ lock = Free
  /\ \E k \in Key : /\ keyAt = [i \in Slot |-> k]
                    /\ arg = [c \in Core |-> [key |-> k, pressed |-> FALSE]]
  /\ pressedAt = [i \in Slot |-> FALSE]
  /\ head = 0
  /\ tail = 0
  /\ pc = [c \in Core |-> "idle"]
  /\ pushed = << >>
  /\ delivered = << >>

Goto(c, from, to) ==
  /\ pc[c] = from
  /\ pc' = [pc EXCEPT ![c] = to]

Room == tail - head < MaxPending /\ Len(pushed) < MaxEvents

-----------------------------------------------------------------------------
(* emux_key_interrupt, on any core.                                        *)

\* Mutant of AcquireToPush: the event is queued without circle_lock_acquire.
PushWithoutLock(c, e) ==
  /\ Goto(c, "idle", "storeKey")
  /\ Room
  /\ arg' = [arg EXCEPT ![c] = e]
  /\ UNCHANGED << lock, keyAt, pressedAt, head, tail, pushed, delivered >>

AcquireToPush(c, e) ==
  /\ Goto(c, "idle", "storeKey")
  /\ lock = Free
  /\ Room
  /\ lock' = c
  /\ arg' = [arg EXCEPT ![c] = e]
  /\ UNCHANGED << keyAt, pressedAt, head, tail, pushed, delivered >>

StoreKey(c) ==
  /\ Goto(c, "storeKey", "storePressed")
  /\ keyAt' = [keyAt EXCEPT ![tail % Size] = arg[c].key]
  /\ UNCHANGED << lock, pressedAt, head, tail, arg, pushed, delivered >>

StorePressed(c) ==
  /\ Goto(c, "storePressed", "advanceTail")
  /\ pressedAt' = [pressedAt EXCEPT ![tail % Size] = arg[c].pressed]
  /\ UNCHANGED << lock, keyAt, head, tail, arg, pushed, delivered >>

AdvanceTail(c) ==
  /\ Goto(c, "advanceTail", "unlock")
  /\ tail' = tail + 1
  /\ pushed' = Append(pushed, arg[c])
  /\ UNCHANGED << lock, keyAt, pressedAt, head, arg, delivered >>

Release(c) ==
  /\ Goto(c, "unlock", "idle")
  /\ lock' = Free
  /\ UNCHANGED << keyAt, pressedAt, head, tail, arg, pushed, delivered >>

-----------------------------------------------------------------------------
(* The drain loop of vsyncarch_postsync, on the core of the main loop.     *)

AcquireToDrain ==
  /\ Goto(Consumer, "idle", "drain")
  /\ lock = Free
  /\ lock' = Consumer
  /\ UNCHANGED << keyAt, pressedAt, head, tail, arg, pushed, delivered >>

\* Mutant of HandleSlot: the newest event is handled instead of the oldest.
HandleNewestSlot ==
  /\ head # tail
  /\ Goto(Consumer, "drain", "advanceHead")
  /\ delivered' = Append(delivered, [key |-> keyAt[(tail - 1) % Size],
                                     pressed |-> pressedAt[(tail - 1) % Size]])
  /\ UNCHANGED << lock, keyAt, pressedAt, head, tail, arg, pushed >>

HandleSlot ==
  /\ head # tail
  /\ Goto(Consumer, "drain", "advanceHead")
  /\ delivered' = Append(delivered, [key |-> keyAt[head % Size],
                                     pressed |-> pressedAt[head % Size]])
  /\ UNCHANGED << lock, keyAt, pressedAt, head, tail, arg, pushed >>

AdvanceHead ==
  /\ Goto(Consumer, "advanceHead", "drain")
  /\ head' = head + 1
  /\ UNCHANGED << lock, keyAt, pressedAt, tail, arg, pushed, delivered >>

\* Mutant of Drained: the loop ends with one event left in the ring.
DrainedButOne ==
  /\ tail - head <= 1
  /\ Goto(Consumer, "drain", "drained")
  /\ UNCHANGED << lock, keyAt, pressedAt, head, tail, arg, pushed, delivered >>

Drained ==
  /\ head = tail
  /\ Goto(Consumer, "drain", "drained")
  /\ UNCHANGED << lock, keyAt, pressedAt, head, tail, arg, pushed, delivered >>

\* A joystick event handled with the lock held presses a key of the virtual
\* keyboard: emux_key_interrupt_locked, called back inside the critical
\* section.  The key loop is over by then.
PushLocked(e) ==
  /\ pc[Consumer] = "drained"
  /\ Room
  /\ keyAt' = [keyAt EXCEPT ![tail % Size] = e.key]
  /\ pressedAt' = [pressedAt EXCEPT ![tail % Size] = e.pressed]
  /\ tail' = tail + 1
  /\ pushed' = Append(pushed, e)
  /\ UNCHANGED << lock, head, pc, arg, delivered >>

EndDrain ==
  /\ Goto(Consumer, "drained", "unlock")
  /\ UNCHANGED << lock, keyAt, pressedAt, head, tail, arg, pushed, delivered >>

-----------------------------------------------------------------------------

Push(c) ==
  \/ \E e \in Event : AcquireToPush(c, e)
  \/ StoreKey(c)
  \/ StorePressed(c)
  \/ AdvanceTail(c)
  \/ Release(c)

DrainLoop ==
  \/ AcquireToDrain
  \/ HandleSlot
  \/ AdvanceHead
  \/ Drained
  \/ \E e \in Event : PushLocked(e)
  \/ EndDrain

Next == (\E c \in Core : Push(c)) \/ DrainLoop

Spec == Init /\ [][Next]_vars

\* The main loop comes back to the drain every frame, and a core inside the
\* critical section runs on.  Nothing obliges a user to press a key.
Fairness ==
  /\ WF_vars(AcquireToDrain \/ HandleSlot \/ AdvanceHead \/ Drained \/ EndDrain)
  /\ \A c \in Core : WF_vars(StoreKey(c) \/ StorePressed(c) \/ AdvanceTail(c)
                             \/ Release(c))

FairSpec == Spec /\ Fairness

-----------------------------------------------------------------------------
(* Properties.                                                             *)

\* The main loop never handles an event that was not queued, never handles
\* one twice and never reorders two: what it handled is what the handlers
\* queued, from the start (emux_key_interrupt, vsyncarch_postsync).
ExactlyOnceInOrder ==
  /\ Len(delivered) <= Len(pushed)
  /\ \A i \in 1 .. Len(delivered) : delivered[i] = pushed[i]

\* The inductive strengthening of ExactlyOnceInOrder, by parts.
Storing == {"storeKey", "storePressed", "advanceTail"}
Draining == {"drain", "advanceHead", "drained"}

LockHeld ==
  /\ \A c \in Core : pc[c] # "idle" <=> lock = c
  /\ \A c \in Core : pc[c] \in Draining => c = Consumer

Cursors ==
  /\ head <= tail
  /\ tail - head <= MaxPending
  /\ tail = Len(pushed)
  /\ \A c \in Core : pc[c] \in Storing => tail - head < MaxPending
  /\ pc[Consumer] = "advanceHead" => head < tail

SlotsHold ==
  \A i \in head .. tail - 1 :
    /\ keyAt[i % Size] = pushed[i + 1].key
    /\ pressedAt[i % Size] = pushed[i + 1].pressed

HalfStored ==
  \A c \in Core :
    /\ pc[c] \in {"storePressed", "advanceTail"} => keyAt[tail % Size] = arg[c].key
    /\ pc[c] = "advanceTail" => pressedAt[tail % Size] = arg[c].pressed

HandledSoFar ==
  /\ Len(delivered) = IF pc[Consumer] = "advanceHead" THEN head + 1 ELSE head
  /\ \A i \in 1 .. Len(delivered) : delivered[i] = pushed[i]

\* Who owns the lock, how far the cursors are apart, what each live slot
\* holds, what a half-finished emux_key_interrupt has stored, and how many
\* events the main loop has handled, at every step of every core.
RingInvariant == LockHeld /\ Cursors /\ SlotsHold /\ HalfStored /\ HandledSoFar

\* The slots not yet handled.  Between handling a slot and head++ the slot is
\* already handled.
Pending ==
  LET first == IF pc[Consumer] = "advanceHead" THEN head + 1 ELSE head
  IN  [i \in 1 .. tail - first |->
         [key     |-> keyAt[(first + i - 1) % Size],
          pressed |-> pressedAt[(first + i - 1) % Size]]]

Abstract == INSTANCE EventQueue WITH queue <- Pending

\* The ring implements the queue of EventQueue: each step of a core is a Put,
\* a Take or invisible (emux_key_interrupt, vsyncarch_postsync).
ImplementsQueue == Abstract!QueueSpec

\* Every queued event is handled in the end, however the handlers and the
\* main loop compete for the lock.
EveryEventHandled ==
  \A n \in 1 .. MaxEvents : (Len(pushed) >= n) ~> (Len(delivered) >= n)
=============================================================================
