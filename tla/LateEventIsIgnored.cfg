\* agent_session.ex:252: an agent of two queues with a call each.
SPECIFICATION Spec
CONSTANTS
  Queues = {q1, q2}
  Agents = {a1}
  Calls = {c1, c2}
  None = None
  MaxRes = 2
  MaxNoAnswers = 0
  SecondLeg = FALSE
  OddReplies = FALSE
  MaxHangUps = 0
  MaxTimeOuts = 0
  MaxUserActs = 0
  MaxMemberActs = 0
  MaxCrashes = 0
PROPERTIES
  LateEventIsIgnored
