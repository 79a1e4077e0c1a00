SPECIFICATION FairSpec
CONSTANTS
  Tables <- Broad
  LoadOrder <- BroadOrder
  Parents <- BroadParents
  Guard = "trips"
  Seeders = {s1}
  Readers = {r1}
  Plans <- BroadPlans
  NoTable = NoTable
  Images <- BroadImage
  ResetFlags = {TRUE, FALSE}
  Losses = TRUE
INVARIANTS ReferencesResolve
PROPERTIES EveryoneEnds
