CONSTANTS
  Gids = {g, h}
  Xids = {x, y, z}
  NoTransaction = NoTransaction
  MaxStream = 5
  MaxCrashes = 2
  Liberties = {"rollback", "reuse"}
SPECIFICATION FairSpec
CHECK_DEADLOCK FALSE
INVARIANT TypeOK
INVARIANT OnlyCommittedApplied
INVARIANT NothingForgotten
INVARIANT RefusedIsSettled
PROPERTY AppliesOnce
PROPERTY CommittedIsApplied
