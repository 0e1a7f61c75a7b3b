SPECIFICATION Spec
CONSTANTS
  Procs = {"lat", "bw", "inf"}
  Group <- SharedGroup
  Want <- ThreeWant
  Refusals = {FALSE}
  Polls = 2
INVARIANTS
  FailureIsReal
