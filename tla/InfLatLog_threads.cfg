SPECIFICATION Spec
CONSTANTS
  main = main
  w0 = w0
  Threads = {main, w0}
  Main = main
  Reporter = w0
  BufLogSize = 4
  MaxMeasured = 3
  MaxSignals = 1
  FillAt = {1, 2, 4}
INVARIANTS
  SoleHandlerLog
PROPERTIES
  RecordsAreKept
