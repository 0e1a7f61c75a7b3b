SPECIFICATION Spec
CONSTANTS
  CHUNK_SIZE = 4
  NUM_SAMPLE = 2
  INT_MAX = 15
  SIZE_MOD = 128
  Sizes = {0, 3, 4, 5, 7, 8, 9, 15, 16, 17, 18, 19, 20, 21, 22, 23, 24, 25, 27, 28}
  Strides = {0, 1, 2, 3, 4, 5, 6, 7, 32, 33}
  Iterations = {0, 1, 2}
  DefaultLogSize = 2
  LogSizes = {0, 1}
  MaxCalls = 3
INVARIANTS
  WritesStayInside
  EachStrideIsWrittenOnce
  ResultsAreOfWholeCalls
