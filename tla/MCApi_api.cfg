\* Both stacks, two users, two sessions, two requests at a time.
CONSTANTS
  UserIds = {a, b}
  SessionIds = {s1, s2}
  Slots = {r1, r2}
  Admin = Admin
  User = User
  Mixes <- Traffic
  AskedRoles = {User}
  Stacks = {"fastapi", "drf"}
  None = None
SPECIFICATION Spec
SYMMETRY Symmetry
INVARIANTS TypeOK RevokedSessionsGetNothing  PrivateAnswersAreNotStored StacksAgree
PROPERTIES LockoutNeedsOverlap ReactivationNeedsOverlap ImplementsAccounts ImplementsStanding
