SPECIFICATION Spec
CONSTANTS
  Tables <- DomainTables
  LoadOrder <- LOAD_ORDER
  Parents <- FullParents
  Guard = "trips"
  Seeders = {s1}
  Images <- CompleteImage
  ResetFlags = {FALSE}
  Losses = TRUE
PROPERTIES AlreadySeededIsComplete
