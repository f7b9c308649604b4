CONSTANTS
 PageSize = 3
 HeaderSize = 2
 StackPages = 1
 TextSizes = {1,2,3,4,6,7}
 DataSizes = {0,1,2,3,4,5,7}
 BssSizes = {0,1}
 Frame <- MCFrame
 Hole = Hole
SPECIFICATION Spec
INVARIANTS LoadedWhereLinked
CHECK_DEADLOCK FALSE
