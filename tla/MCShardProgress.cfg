SPECIFICATION ProgressSpec
CONSTANTS
  NShards = 12
  Gids = {1, 2, 3, 4, 5, 7}
  Joiners <- TestGroups
  NewGid = 7
  MaxNum = 15
  MaxArgs = 1
PROPERTY StableStay
CHECK_DEADLOCK FALSE
