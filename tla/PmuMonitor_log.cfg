SPECIFICATION FairSpec
CONSTANTS
  Arguments <- EndArguments
  BufLogSize = 3
  MaxWork = 0
  MaxTicks = 4
  MaxSignals = 2
  FillAt = {3}
INVARIANTS
  LogIsWellFormed
  NoMisuse
PROPERTIES
  SignalEndsRun
