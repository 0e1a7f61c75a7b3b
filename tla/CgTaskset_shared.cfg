SPECIFICATION FairSpec
CONSTANTS
  Procs = {"lat", "bw", "inf"}
  Group <- SharedGroup
  Want <- ThreeWant
  Refusals = {FALSE, TRUE}
  Polls = 1
INVARIANTS
  TypeOK
  DoneIsMember
  GroupsAreBuilt
  LoneProcessOwnsCpus
  LoneFailureIsReal
PROPERTIES
  Settles
