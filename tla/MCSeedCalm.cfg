SPECIFICATION FairSpec
CONSTANTS
  Tables <- DomainTables
  LoadOrder <- LOAD_ORDER
  Parents <- FullParents
  Guard = "trips"
  Seeders = {s1, s2, s3}
  Images <- CompleteImage
  ResetFlags = {FALSE}
  Losses = FALSE
INVARIANTS DoubleSubmitSafe
PROPERTIES StartedMeansSeeded
