CONSTANTS
  L1s = {11, 12, 21, 31}
  L2s = {1, 2, 3}
  L2Of <- MCL2Of
  Lines = {1, 2, 3}
  L1Ways = 1
  Limitless = 1
  Loads <- MCLoads
SPECIFICATION Spec
INVARIANTS AssertsHold OneWriter NothingPending LevelsAgree
PROPERTY Answered
CHECK_DEADLOCK FALSE
