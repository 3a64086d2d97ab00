\* An administrator with one bucket, a user, three overlapping requests.
SPECIFICATION FairSpec
CONSTANTS
  t1 = t1
  t2 = t2
  t3 = t3
  Users = {1, 2}
  LastUser = 2
  Admins = {1}
  Buckets = {"FEE"}
  Amounts = {2}
  Transactions = {t1, t2, t3}
  Openings <- SmallOpenings
INVARIANTS
  ReadsStayCurrent
  LedgerExplainsBalances
  DeadlocksNeedTwoBuckets
PROPERTIES
  MovesAreAtomic
  RequestsEnd
CHECK_DEADLOCK FALSE
