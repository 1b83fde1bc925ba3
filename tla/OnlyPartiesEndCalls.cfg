\* Any two callees of a fork may answer; one call.
SPECIFICATION Spec
CONSTANTS
  Calls = {c1}
  Branches = {only, b2}
  Only = only
  Targets = {fs1}
  Kinds = {"to_user"}
  None = None
PROPERTIES
  OnlyPartiesEndCalls
CHECK_DEADLOCK FALSE
