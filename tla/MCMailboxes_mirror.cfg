\* Two first requests that synchronise and then rename, trash and delete mailboxes,
\* over mailbox trees that go out of date, for the end of each of them.
SPECIFICATION FairSpec
CONSTANTS
  r1 = r1 r2 = r2 f1 = f1
  Titles <- mcTitles
  Requests <- mcRequests
  Changers <- mcRequests
  Filters <- mcFilters
  Inbox <- mcInbox
  Trash <- mcTrash
  Existing <- mcStart
  Known <- mcNone
  Typed <- mcDeep
  Foreign <- mcForeign
  BadTitles <- mcBad
  NoBox = NoBox
  MaxCreates = 0
  MaxChanges = 2
  MaxSettings = 0
  MaxOutside = 0
  MaxTimeouts = 0
  MaxCrashes = 0
INVARIANT QuietMirror
PROPERTY RequestsEnd
CHECK_DEADLOCK FALSE
