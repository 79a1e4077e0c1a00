SPECIFICATION Spec
CONSTANTS
  Tables <- Pair
  LoadOrder <- PairOrder
  Parents <- PairParents
  Guard = "trips"
  Seeders = {s1, s2}
  Readers = {r1, r2}
  Plans <- PairPlans
  NoTable = NoTable
  Images <- PairImage
  ResetFlags = {TRUE}
  Losses = TRUE
SYMMETRY SessionSymmetry
INVARIANTS TypeOK SeenStillThere ResetSurvivesReaders
PROPERTIES RefinesSeed
