\* Django stack: two users, a cap of one; no symmetry, for liveness.
CONSTANTS
  Users = {u1, u2}
  SessionIds = {s1, s2}
  Tokens = {t1, t2}
  Slots = {r1, r2}
  MaxSessions = 1
  SessionTTL = 1
  AccessTTL = 1
  MaxTime = 1
  Backend = "django"
  None = None
SPECIFICATION FairSpec
INVARIANTS TokenOpensOwnSession
PROPERTIES EvictsOwnSessionsOnly RequestsFinish
