SPECIFICATION Spec
CONSTANTS
  Process = {p1, p2, p3}
  a = a
  b = b
  c = c
  Name = {a, b, c}
  MaxSemaphore = 2
  InitialValue <- AnyInitialValue
  NoSem = NoSem
  MaxValue = 2
PROPERTIES WaitsUntilPositive
