CONSTANTS
  Tokens = {t1}
  Sessions = {s1}
  Auths = {a1, a2, a3}
  MaxUpdates = 1
  NoToken = NoToken
  NoSession = NoSession
  Revoke = Revoke
SPECIFICATION Spec
INVARIANT PermissionInForce
CHECK_DEADLOCK FALSE
