SPECIFICATION MCSpec
CONSTANTS
  t1 = t1
  t2 = t2
  t3 = t3
  s1 = s1
  s2 = s2
  NULL = NULL
  c0 = c0
  c1 = c1
  d0 = d0
  NoMail = NoMail
  Thread = {t1, t2, t3}
  Main = t1
  Sem = {s1, s2}
  Device = {s2}
  MaxValue = 2
  InitialValue <- MCInitialValue
INVARIANTS
  OnePlace
  CleanSwitch
  NoLostWakeup
  SentInOrder
PROPERTIES
  ImplementsSemaphore
  ReadyRuns
  FinishedReclaimed
  UnitsAreTaken
  MailEnds
