\* Two windows of one user; errors, killed requests and other windows' moves.
SPECIFICATION Spec
CONSTANTS
  w1 = w1 w2 = w2 fA = fA fB = fB d1 = d1 m1 = m1
  Windows <- mcWindows
  Files <- mcFiles
  Size <- mcSize
  MaxSize = 1
  Refs <- mcRefs
  NoRef = NoRef
  Opened <- mcOpened
  RefFiles <- mcRefFiles
  MaxHistory = 1
  FirstHistory = 1
  MaxUploads <- mcUploads
  MaxFaults = 1
SYMMETRY mcSymmetry
INVARIANTS AttachmentsTravel OutOnce DraftKept LimitKept HistoryBounded
CHECK_DEADLOCK FALSE
