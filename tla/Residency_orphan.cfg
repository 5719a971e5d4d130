SPECIFICATION Spec
CONSTANTS
  Request = {r1, r2}
  Key = {k1, k2}
  Kinds = {"chat"}
  Wedged = {}
  NoRequest = NoRequest
  NoKey = NoKey
CHECK_DEADLOCK TRUE
INVARIANT MarkIsHonoured
