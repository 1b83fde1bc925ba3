\* dialer.ex:21
SPECIFICATION FairSpec
CONSTANTS
  Queues = {q1}
  Agents = {a1}
  Calls = {c1}
  None = None
  MaxRes = 1
  MaxNoAnswers = 0
  SecondLeg = FALSE
  OddReplies = FALSE
  MaxHangUps = 0
  MaxTimeOuts = 1
  MaxUserActs = 0
  MaxMemberActs = 0
  MaxCrashes = 0
PROPERTIES
  CancelledIsNotBridged
