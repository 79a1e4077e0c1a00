SPECIFICATION FairSpec
CONSTANTS
  Tables <- Slice
  LoadOrder <- SliceOrder
  Parents <- SliceParents
  Guard = "trips"
  Seeders = {s1, s2}
  Images <- SliceImages
  ResetFlags = {TRUE, FALSE}
  Losses = TRUE
INVARIANTS LoneResetExact
PROPERTIES LoneCompleteIsComplete RejectionIsNoSeed MissingCsvCostsNothing LoneResetRepairs
