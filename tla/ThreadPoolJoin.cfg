SPECIFICATION Spec
CONSTANTS
  Workers <- TwoWorkers
  MaxWork = 2
  MaxRounds = 1
CHECK_DEADLOCK FALSE
PROPERTY JoinLeavesNothing
