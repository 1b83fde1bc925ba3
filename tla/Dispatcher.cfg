\* Two nodes that discovery resolves; each may be known by heartbeats first.
SPECIFICATION LiveSpec
CONSTANTS
  Nodes = {f1, f2}
  Named = {f1, f2}
  Unknown = Unknown
  MaxSelects = 3
  MaxCrashes = 1
  MaxRestarts = 1
  MaxOutages = 1
  MaxLost = 1
INVARIANTS
  TypeOK
  RoundRobin
PROPERTIES
  AliveIsTarget
  DeadIsDropped
