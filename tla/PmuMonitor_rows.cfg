SPECIFICATION Spec
CONSTANTS
  Arguments <- RowArguments
  BufLogSize = 3
  MaxWork = 1
  MaxTicks = 3
  MaxSignals = 2
  FillAt = {}
INVARIANTS
  EachUnitIsInOneRow
  RowsAgree
  TotalsAgree
PROPERTIES
  RowsAreKept
