CONSTANTS
  Files <- McFiles
  PayloadsOf <- McPayloadsOf
  Names = {0, 1}
  SectionIds = {1, 2}
  MaxEdits = 3
SPECIFICATION Spec
INVARIANTS
  DiffIsComplete
  ModelFollowsDiff
  DecodedItemsAreMeaning
  OverviewFollowsDiff
CHECK_DEADLOCK FALSE
