SPECIFICATION MCSpec
CHECK_DEADLOCK FALSE
CONSTANTS
  Thread = {t1, t2, t3}
  Item = {x, y}
  NoItem = NoItem
  NoThread = NoThread
  MaxLen = 2
  t1 = t1
  t2 = t2
INVARIANTS
  NoLostSignal AssertionsHold InOrder NumbersExact OwnCompletion LatencyExact
  NothingOverdue StatusIsMine
PROPERTIES
  ImplementsQueue CallsReturn
