SPECIFICATION FairSpec
CONSTANTS
  Core = {c0, c1}
  Consumer = c1
  Key = {k1, k2}
  Size = 2
  MaxPending = 2
  MaxEvents = 4
  Free = Free
INVARIANTS ExactlyOnceInOrder
PROPERTIES ImplementsQueue EveryEventHandled
