SPECIFICATION SFairSpec
CONSTANTS
  Slots = {r1, r2}
  Kinds = {"live", "stats", "ready", "page", "seed"}
  Others = {"stats", "ready", "seed"}
  PoolSize = 1
  MaxOverflow = 0
  MaxMishaps = 2
  Plan <- SmallPlan
INVARIANTS ConnectionsBounded RunMeansAccepted CountedAsSent NoStaleAfterNotice LedgerComplete OnlyCrowdWaits
PROPERTIES EveryRequestEnds HarnessEnds
