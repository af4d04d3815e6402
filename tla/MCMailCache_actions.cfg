\* Two windows of a user on a server without MOVE; folders come and go.
SPECIFICATION Spec
CONSTANTS
  m1 = m1 m2 = m2
  b1 = b1 b2 = b2 b3 = b3 b4 = b4
  r1 = r1 r2 = r2
  nInbox = nInbox nWork = nWork nTrash = nTrash nOld = nOld
  NoName = NoName
  Mails <- mcMails
  Boxes <- mcBoxes
  Inbox = b1
  Names <- mcNames
  Trash = nTrash
  InTrash <- mcInTrash
  FirstNames <- mcNaming
  FirstStore <- mcStore
  Requests <- mcRequests
  HasMove = FALSE
  MaxAsked = 5
  MaxFaults = 1
SYMMETRY mcSymmetry
INVARIANTS HeaderTrue NoRowTwice GoneOnlyFromTrash
CHECK_DEADLOCK FALSE
