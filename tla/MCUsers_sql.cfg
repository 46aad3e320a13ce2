\* SQLAlchemy stack: two users, every use case, two requests; no symmetry, for liveness.
CONSTANTS
  UserIds = {a, b}
  Names = {x, y}
  Passwords = {p}
  Admin = Admin
  User = User
  Slots = {r1, r2}
  Ops = {"create", "update", "chpass", "delete"}
  AskedRoles = {User}
  Backend = "sqlalchemy"
  None = None
SPECIFICATION FairSpec
INVARIANTS TypeOK UniqueUsernames 
PROPERTIES ImplementsDirectory ImplementsAccounts RequestsFinish
