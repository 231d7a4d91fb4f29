SPECIFICATION FairShardSpec
CONSTANTS
  NShards = 3
  Gids = {1, 2, 3, 4}
  MaxNum = 5
  MaxArgs = 2
INVARIANTS ConfigChecked MovesOnlyWhatMust ShardInv MembersOwn
PROPERTY RebalanceEnds
