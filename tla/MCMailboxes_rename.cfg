\* One request at a time changes mailboxes and saves filters, another one reloads the list.
SPECIFICATION Spec
CONSTANTS
  r1 = r1 r2 = r2 f1 = f1
  Titles <- mcTitles
  Requests <- mcRequests
  Changers <- mcChanger
  Filters <- mcFilters
  Inbox <- mcInbox
  Trash <- mcTrash
  Existing <- mcFolders
  Known <- mcKnown
  Typed <- mcDeep
  Foreign <- mcForeign
  BadTitles <- mcNone
  NoBox = NoBox
  MaxCreates = 1
  MaxChanges = 2
  MaxSettings = 1
  MaxOutside = 0
  MaxTimeouts = 0
  MaxCrashes = 0
INVARIANTS TypeOK QuietMirror FilterFollows
PROPERTY DisabledOnlyWhenGone
CHECK_DEADLOCK FALSE
