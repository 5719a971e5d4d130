SPECIFICATION FairSpec
CONSTANTS
  Request = {r1, r2, r3}
  Key = {k1, k2}
  Kinds = {"draft"}
  Wedged = {r3}
  NoRequest = NoRequest
  NoKey = NoKey
CHECK_DEADLOCK TRUE
INVARIANTS
  TypeOK
  RightModel
  QuietClaimIsAlone
PROPERTIES
  EveryRequestReturns
  ClaimReturns
  LockComesBack
  DeferredEvictionHappens
