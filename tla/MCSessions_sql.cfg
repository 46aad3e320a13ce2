\* SQLAlchemy stack: two requests at a time, cap of one session.
CONSTANTS
  Users = {u1}
  SessionIds = {s1, s2, s3}
  Tokens = {t1, t2, t3, t4}
  Slots = {r1, r2}
  MaxSessions = 1
  SessionTTL = 2
  AccessTTL = 1
  MaxTime = 2
  Backend = "sqlalchemy"
  None = None
SPECIFICATION Spec
SYMMETRY Symmetry
INVARIANTS TypeOK LogoutIsFinal SpentTokensAreDead CapUnderConcurrency
PROPERTIES RevokedForever ImplementsLedger ImplementsStanding
