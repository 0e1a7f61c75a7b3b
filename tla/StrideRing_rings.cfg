SPECIFICATION FairSpec
CONSTANTS
  SizeMod = 20
  PtrSize = 2
  PageSize = 2
  MinSize = 4
  DefaultSize = 11
  DefaultStride = 3
  MaxParallelism = 3
  MaxCpuNum = 4
  WorkSizes = {0, 3, 4, 5, 7, 8, 12, 13, 17}
  Strides = {0, 1, 2, 3, 5, 6}
  ThreadNums = {1, 2, 3, 4}
  CpuLists <- Lists
INVARIANTS
  PointersAreWhole
  RingsDivideBuffer
  WalkersStayHome
  ThreadsArePlaced
PROPERTIES
  EveryLineIsRead
