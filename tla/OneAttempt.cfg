\* An attempt with both legs of the dial string, a time-out and a crash.
SPECIFICATION Spec
CONSTANTS
  Queues = {q1}
  Agents = {a1}
  Calls = {c1}
  None = None
  MaxRes = 1
  MaxNoAnswers = 0
  SecondLeg = TRUE
  OddReplies = TRUE
  MaxHangUps = 0
  MaxTimeOuts = 1
  MaxUserActs = 0
  MaxMemberActs = 0
  MaxCrashes = 1
INVARIANTS
  TypeOK
  PassingHasTimer
  ReservationHasResolver
PROPERTIES
  KeepsPromise
