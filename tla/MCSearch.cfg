SPECIFICATION Spec
CONSTANTS
  Images <- SomeImages
  Filters <- SomeFilters
  MaxInteger = 11
  Limits = {1, 2}
  MaxWrites = 5
INVARIANTS TypeOK LegalFilesLoad NamesAsInFile TotalFitsPage NoRowTwice
CHECK_DEADLOCK FALSE
