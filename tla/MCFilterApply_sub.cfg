\* A filter applied to a mailbox and its subfolders.
SPECIFICATION Spec
CONSTANTS
  m1 = m1 m2 = m2 m3 = m3 m4 = m4
  bIn = bIn bSub = bSub bWork = bWork bTrash = bTrash
  Mails <- mcMails
  Boxes <- mcBoxes
  Inbox = bIn
  Filters <- mcFilters
  Chain <- mcChain
  Conditions <- mcConds
  Target <- mcTarget
  SliceSize = 2
  MaxAtOnce = 4
  Subtree <- mcSubtree
  ListOrder <- mcOrder
  Trash = bTrash
  Offered <- mcOffered
  Enabled <- mcFilters
  Content <- mcContent
  MaxMoves = 0
  MaxFaults = 1
INVARIANT MovesOnlyMatching
CHECK_DEADLOCK FALSE
