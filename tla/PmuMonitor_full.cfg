SPECIFICATION Spec
CONSTANTS
  Arguments <- FullArguments
  BufLogSize = 1
  MaxWork = 0
  MaxTicks = 3
  MaxSignals = 2
  FillAt = {2}
INVARIANTS
  FullIsWarned
