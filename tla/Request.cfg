SPECIFICATION FairSpec
CONSTANTS
  Requests = {r1, r2}
  MaxParallel = 2
  Sources = {users}
  AutoReturn <- MCAutoReturn
  SourceLimit <- MCSourceLimit
  Values = {u1, u2}
  Source <- MCSource
  Unread = {u2}
  Rules = 3
  Send <- MCSend
  Limit <- MCLimit
  RowSets <- MCRowSets
  HasLogger = TRUE
  users = users
  u1 = u1
  u2 = u2
INVARIANTS TypeOK ValuesKept OneCall
PROPERTIES RequestsEnd
CHECK_DEADLOCK FALSE
