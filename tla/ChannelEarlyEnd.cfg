SPECIFICATION FairSpec
CONSTANTS
  Senders = {s1, s2}
  Receivers = {r1}
  OnDemands = {}
  FirstSender = s1
  FirstReceiver = r1
  Values = {v1}
  NoItem = NoItem
  Digest <- MCDigest
  Unique = FALSE
  Dynamic = FALSE
  StartLimit = 1
  Calls = {"ready"}
  Droppable = {s1, s2}
  Budget = 1
  Preemptive = TRUE
  v1 = v1
  v2 = v2
  v3 = v3
  r1 = r1
  s1 = s1
  s2 = s2
PROPERTY EndOfStreamMeansDrained
CHECK_DEADLOCK FALSE
