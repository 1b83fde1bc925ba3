\* A member sets a presence, a manager changes the membership and a customer hangs up, in the middle of attempts.
SPECIFICATION Spec
CONSTANTS
  Queues = {q1}
  Agents = {a1}
  Calls = {c1}
  None = None
  MaxRes = 2
  MaxNoAnswers = 1
  SecondLeg = FALSE
  OddReplies = FALSE
  MaxHangUps = 1
  MaxTimeOuts = 0
  MaxUserActs = 1
  MaxMemberActs = 1
  MaxCrashes = 0
INVARIANTS
  SchedulerConsistent
  DeadCallLeavesWaiting
