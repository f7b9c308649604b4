CONSTANTS Main = main
 Pipe = pipe
 main = main
 pipe = pipe
 MaxStudents = 3
 Base = 4
 Inputs <- MCInputsLong
SPECIFICATION Spec
INVARIANT ReturnedIsFree
CHECK_DEADLOCK FALSE
