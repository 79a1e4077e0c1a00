SPECIFICATION Spec
CONSTANTS
  Unmet <- CsvUnmet
INVARIANTS
  TypeOK CatalogFollowsRevision UpgradeAlwaysWorks DowngradeFailsOnlyOnRows
  HeadMatchesModels
