SPECIFICATION Spec
CHECK_DEADLOCK FALSE
CONSTANTS
  TransferSize = 2
  Texts <- MCTexts
  Room = 4
  NoFile = NoFile
  Old <- MCOld
INVARIANT CopyExact
