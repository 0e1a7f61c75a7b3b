SPECIFICATION Spec
CONSTANTS
  main = main
  w0 = w0
  Threads = {main, w0}
  Main = main
  Reporter = w0
  BufLogSize = 1
  MaxMeasured = 1
  MaxSignals = 1
  FillAt = {2}
INVARIANTS
  LogIsRecorded
