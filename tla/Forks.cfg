\* One call, forked to up to three contacts of a user, or of another kind.
SPECIFICATION LiveSpec
CONSTANTS
  Calls = {c1}
  Branches = {only, b2, b3}
  Only = only
  Targets = {fs1}
  Kinds = {"to_fs", "to_trunk", "to_user"}
  None = None
INVARIANTS CallIsKnown AckReachesCallee LosersReleased NoLeftovers
PROPERTIES InviteIsAnswered
CHECK_DEADLOCK FALSE
