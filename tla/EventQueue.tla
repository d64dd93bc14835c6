----------------------------- MODULE EventQueue -----------------------------
(***************************************************************************)
(* What the input rings promise to the code around them: an interrupt      *)
(* handler queues an event and the main loop handles every queued event,   *)
(* once, in the order in which it was queued.                              *)
(***************************************************************************)
EXTENDS Sequences

CONSTANT Event       \* the events a handler may queue

VARIABLES
  queue,             \* queued and not yet handled, oldest first
  delivered          \* handled so far, oldest first

queueVars == << queue, delivered >>

QueueInit ==
  /\ queue = << >>
  /\ delivered = << >>

Put(e) ==
  /\ queue' = Append(queue, e)
  /\ UNCHANGED delivered

Take ==
  /\ queue # << >>
  /\ delivered' = Append(delivered, Head(queue))
  /\ queue' = Tail(queue)

QueueNext == (\E e \in Event : Put(e)) \/ Take

QueueSpec == QueueInit /\ [][QueueNext]_queueVars
=============================================================================
