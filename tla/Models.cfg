SPECIFICATION ModelSpec
CONSTANTS
  Callers = {t1, t2}
  Shapes <- MCShapes
  Samples <- MCSamples
  Bounds <- MCBounds
INVARIANTS ReadIsWritten MirrorKept OkMeansUnique
CHECK_DEADLOCK FALSE
