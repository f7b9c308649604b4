SPECIFICATION Spec
CONSTANTS
  p1 = p1
  p2 = p2
  p3 = p3
  Process = {p1, p2, p3}
  Main = p1
  BitmapSize = 4
  NumPhysPages = 2
  MaxPages = 2
  Value = {0, 1}
  Zero = 0
INVARIANT
  FramesExist
