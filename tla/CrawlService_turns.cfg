SPECIFICATION FairSpec
CONSTANTS
  Runs = {r1, r2}
  Dashboards = {d1}
  MaxInode = 2
  Nobody = Nobody
  Faults <- AllFaults
INVARIANTS
  OneCrawlAtATime
  RefusalExplained
PROPERTIES
  EveryTriggerEnds
  LockComesFree
