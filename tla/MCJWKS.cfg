SPECIFICATION FairSpec
CONSTANTS
  c1 = c1  c2 = c2  c3 = c3
  Caller = {c1, c2, c3}
  MaxRotations = 1
  Nobody = Nobody
INVARIANTS
  TypeOK
  OneFetchAtATime
  StaleOnlyAfterFailure
  AvailableOnceCached
PROPERTIES
  CacheNeverRegresses
  EveryCallerIsServed
