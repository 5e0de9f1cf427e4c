SPECIFICATION FairSpec
CONSTANTS
  Senders = {s1}
  Receivers = {r1, r2}
  FirstSender = s1
  FirstReceiver = r1
  Values = {v1}
  NoItem = NoItem
  Digest <- MCDigest
  Unique = FALSE
  Dynamic = TRUE
  StartLimit = 2
  Calls = {"ready", "try"}
  OnDemands = {d1, d2}
  Droppable = {s1, d1}
  Budget = 3
  Preemptive = FALSE
  v1 = v1
  v2 = v2
  v3 = v3
  d1 = d1
  d2 = d2
  r1 = r1
  r2 = r2
  s1 = s1
PROPERTIES FilledThenEmptiedGrows OneYieldPerNeed KeepsPromise EndOfStreamMeansDrained NobodyWaits
CHECK_DEADLOCK FALSE
