\* Two calls of every kind, each with one callee.
SPECIFICATION Spec
CONSTANTS
  Calls = {c1, c2}
  Branches = {only}
  Only = only
  Targets = {fs1, fs2}
  Kinds = {"to_fs", "to_trunk", "to_user"}
  None = None
INVARIANTS TypeOK CallIsKnown NoLeftovers
PROPERTIES SameUserSameFs
CHECK_DEADLOCK FALSE
