\* A telephone and a browser of one member.
SPECIFICATION LiveSpec
CONSTANTS
  Addrs = {d1, d2}
  MaxMissed = 2
  Posts = {p1}
  MaxPings = 2
  MaxLapses = 1
  MaxRegisters = 2
  MaxActs = 1
  MayUnregister = TRUE
  MayLose = TRUE
INVARIANTS TypeOK LapseIsPending
PROPERTIES LapseIsTold SilentContactGoes CallKeepsPresence
