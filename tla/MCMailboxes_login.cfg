\* First requests on an account with an INBOX only, another client, a crash and a lock not granted.
SPECIFICATION Spec
CONSTANTS
  r1 = r1 r2 = r2 f1 = f1
  Titles <- mcTitles
  Requests <- mcRequests
  Changers <- mcRequests
  Filters <- mcFilters
  Inbox <- mcInbox
  Trash <- mcTrash
  Existing <- mcFresh
  Known <- mcNone
  Typed <- mcTyped
  Foreign <- mcForeign
  BadTitles <- mcNone
  NoBox = NoBox
  MaxCreates = 0
  MaxChanges = 0
  MaxSettings = 1
  MaxOutside = 1
  MaxTimeouts = 1
  MaxCrashes = 1
SYMMETRY mcSymmetry
INVARIANT OneRowPerMailbox
CHECK_DEADLOCK FALSE
