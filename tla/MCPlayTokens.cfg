CONSTANTS
  Tokens = {t1}
  Sessions = {s1}
  Auths = {a1, a2, a3}
  MaxUpdates = 2
  NoToken = NoToken
  NoSession = NoSession
  Revoke = Revoke
SPECIFICATION FairSpec
INVARIANTS TypeOK ChildrenRevoked LastUpdateStands ClosedSessionSwept PurgeAccounted
PROPERTIES UsedOnce PurgeTakesEffect
CHECK_DEADLOCK FALSE
