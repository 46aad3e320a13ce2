\* Two logins at once against the cap.
CONSTANTS
  Users = {u1}
  SessionIds = {s1, s2}
  Tokens = {t1, t2}
  Slots = {r1, r2}
  MaxSessions = 1
  SessionTTL = 1
  AccessTTL = 1
  MaxTime = 0
  Backend = "sqlalchemy"
  None = None
SPECIFICATION Spec
INVARIANTS SessionCap
