SPECIFICATION MCSpec
CONSTANTS
  MaxProcess = 3
  Prog = {"shell", "big", "huge"}
  MainProg = "shell"
  Pages <- MCPages
  BitmapSize = 4
  NumPhysPages = 2
  ExitCode = {7}
  MaxNumWait = 2
  Disciplined = TRUE
  p1 = p1
  p2 = p2
  p3 = p3
  x = x
  y = y
  z = z
  NoSem = NoSem
  main = main
  pipe = pipe
INVARIANTS
  NoCorruption Rendezvous Exclusive AnswersRight TestsSound
PROPERTIES
  KeptUntilJoined TableImplements ProgramsEnd
