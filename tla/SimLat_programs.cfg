SPECIFICATION FairSpec
CONSTANTS
  EventNum = 2
  Cpus = {1, 3}
  AnyCpu = AnyCpu
  Targets = {1, 2, 3, 9, AnyCpu}
  Fds = {3, 4, 5}
  kBufferSizePow2Low = 3
  kBufferSizePow2High = 6
  NUM_SAMPLE = 2
  num_iters = 2
  GroupNum = 2
  MAX_CPU_NUM <- MaxCpuNum
  MinSize = 4
  DefaultSize = 20
  MinStride = 2
  DefaultStride = 5
  PageSize = 2
  SizeMod = 44
  DefaultCpu = 3
  NoCpu = 9
  MaxSizes = {0, 3, 5, 17, 40}
  Strides = {0, 1, 2, 6}
  CpuLists <- Lists
  CallerCpus <- Callers
  MaxWork = 2
  MaxCalls = 5
INVARIANTS
  NoDescriptorIsLost
  CountsAreOfTheWork
  PinnedCountsAreWhole
  EverySizeIsMeasured
  RingIsWarm
PROPERTIES
  KeepsTheProtocol
  RunEnds
