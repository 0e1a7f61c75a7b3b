SPECIFICATION Spec
CONSTANTS
  NumCpu = 2
  WayNum = 4
  IdNum = 7
  CpuIds <- TwoCpus
  Modes = {"set", "reset", "calculate"}
  WriteFails = TRUE
  WriteLost = TRUE
  ReadFails = FALSE
  Letters = {"y", "n", "x"}
  Closes = TRUE
INVARIANTS
  TypeOK
  WaysHaveOneOwner
PROPERTIES
  PartcrIsSetLast
