\* Server without MOVE: COPY, STORE, EXPUNGE, by one request at a time, refreshed for
\* ever, one worker and the user.
SPECIFICATION RefreshSpec
CONSTANTS
  m1 = m1 m2 = m2 m3 = m3
  bIn = bIn bWork = bWork bTrash = bTrash bOwn = bOwn
  r1 = r1 r2 = r2 w1 = w1
  Mails <- mcMails2
  Boxes <- mcBoxes
  Inbox = bIn
  Filters <- mcFilter1
  Chain <- mcChain1
  Conditions <- mcConds1
  Target <- mcTarget1
  SliceSize = 1
  MaxAtOnce = 1
  Requests <- mcRequest1
  Workers <- mcWorker1
  JobSlots <- mcSlots1
  MaxAttempts = 2
  HasMove = FALSE
  UserBoxes <- mcOwn
  MaxUid = 2
  MaxFaults = 1
  MaxEdits = 1
INVARIANTS NoMailLost
PROPERTIES JobsDrain EveryMailExamined
CHECK_DEADLOCK FALSE
