\* Two refreshes with one token, as rotate_refresh_token rules out.
CONSTANTS
  Users = {u1}
  SessionIds = {s1}
  Tokens = {t1, t2, t3}
  Slots = {r1, r2}
  MaxSessions = 1
  SessionTTL = 1
  AccessTTL = 1
  MaxTime = 0
  Backend = "sqlalchemy"
  None = None
SPECIFICATION Spec
INVARIANTS OneTimeRefreshTokens
