SPECIFICATION Spec
CONSTANTS
  Request = {r1, r2}
  Key = {k1, k2}
  Kinds = {"chat", "warm"}
  Wedged = {}
  NoRequest = NoRequest
  NoKey = NoKey
CHECK_DEADLOCK TRUE
PROPERTY NothingReloads
