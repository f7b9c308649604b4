SPECIFICATION Spec
CONSTANTS
  MaxProcess = 3
  Prog = {"shell", "a", "b"}
  MainProg = "shell"
  Pages <- MCPages
  BitmapSize = 4
  NumPhysPages = 2
  ExitCode = {7}
  MaxNumWait = 1
  Disciplined = TRUE
PROPERTIES RefusedWithReason
