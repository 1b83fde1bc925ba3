\* Two calls and two agents.
SPECIFICATION Spec
CONSTANTS
  Queues = {q1}
  Agents = {a1, a2}
  Calls = {c1, c2}
  None = None
  MaxRes = 2
  MaxNoAnswers = 0
  SecondLeg = FALSE
  OddReplies = FALSE
  MaxHangUps = 0
  MaxTimeOuts = 0
  MaxUserActs = 0
  MaxMemberActs = 0
  MaxCrashes = 0
SYMMETRY Symmetry
INVARIANTS
  SchedulerConsistent
  LiveCallIsWaiting
