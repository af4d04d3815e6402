\* Server with MOVE, three mails, one at once: the job keeps its lists of matched UIDs over slices
\* while two requests pass over the same mails.
SPECIFICATION Spec
CONSTANTS
  m1 = m1 m2 = m2 m3 = m3
  bIn = bIn bWork = bWork bTrash = bTrash bOwn = bOwn
  r1 = r1 r2 = r2 w1 = w1
  Mails <- mcMails3
  Boxes <- mcBoxes
  Inbox = bIn
  Filters <- mcFilters
  Chain <- mcChain
  Conditions <- mcConds
  Target <- mcTarget
  SliceSize = 1
  MaxAtOnce = 1
  Requests <- mcRequests
  Workers <- mcWorker1
  JobSlots <- mcSlots1
  MaxAttempts = 1
  HasMove = TRUE
  UserBoxes <- mcNoBox
  MaxUid = 0
  MaxFaults = 1
  MaxEdits = 0
INVARIANTS TypeOK NoMailDoubled NoMailSkipped ActsOnOwnMatches
PROPERTY PromiseKept
SYMMETRY mcAlike
CHECK_DEADLOCK FALSE
