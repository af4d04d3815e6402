\* One apply with slices of two, three mails at once, the rest in jobs.
SPECIFICATION Spec
CONSTANTS
  m1 = m1 m2 = m2 m3 = m3 m4 = m4
  bIn = bIn bSub = bSub bWork = bWork bTrash = bTrash
  Mails <- mcMails
  Boxes <- mcBoxes
  Inbox = bIn
  Filters <- mcFilters
  Chain <- mcChain
  Conditions <- mcConds
  Target <- mcTarget
  SliceSize = 2
  MaxAtOnce = 3
  Subtree <- mcSubtree
  ListOrder <- mcOrder
  Trash = bTrash
  Offered <- mcOffered
  Enabled <- mcFilters
  Content <- mcContent
  MaxMoves = 2
  MaxFaults = 1
INVARIANTS OneFolderMovesOnlyMatching ApplyComplete ReportAddsUp
CHECK_DEADLOCK FALSE
