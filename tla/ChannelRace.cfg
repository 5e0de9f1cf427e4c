SPECIFICATION Spec
CONSTANTS
  Senders = {s1, s2}
  Receivers = {r1}
  OnDemands = {}
  FirstSender = s1
  FirstReceiver = r1
  Values = {v1, v2, v3}
  NoItem = NoItem
  Digest <- MCDigest
  Unique = TRUE
  Dynamic = TRUE
  StartLimit = 1
  Calls = {"ready", "try", "force"}
  Droppable = {s2, r1}
  Budget = 2
  Preemptive = TRUE
  v1 = v1
  v2 = v2
  v3 = v3
  r1 = r1
  s1 = s1
  s2 = s2
INVARIANTS TypeOK SetIsQueue SoftLimit CountsMatch ListenersServed
SYMMETRY Symmetry
CHECK_DEADLOCK FALSE
