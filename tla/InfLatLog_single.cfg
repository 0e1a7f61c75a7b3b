SPECIFICATION FairSpec
CONSTANTS
  main = main
  Threads = {main}
  Main = main
  Reporter = main
  BufLogSize = 2
  MaxMeasured = 3
  MaxSignals = 2
  FillAt = {1, 2, 4}
INVARIANTS
  LogIsComplete
  FileIsPrefix
  NoMisuse
  OneThreadInv
PROPERTIES
  KeepsPromise
  HandlerEnds
  RunEnds
