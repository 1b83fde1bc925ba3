\* Server fairness only: FreeSWITCH may fall silent.
SPECIFICATION LiveSpec
CONSTANTS
  Queues = {q1}
  Agents = {a1}
  Calls = {c1}
  None = None
  MaxRes = 1
  MaxNoAnswers = 0
  SecondLeg = FALSE
  OddReplies = TRUE
  MaxHangUps = 1
  MaxTimeOuts = 2
  MaxUserActs = 0
  MaxMemberActs = 0
  MaxCrashes = 0
PROPERTIES
  AttemptResolves
  HungUpCallLeaves
  PassingEnds
  KeepsPromise
