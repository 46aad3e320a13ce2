\* Django stack, three requests and a spare name: two renamings may want each
\* other's name.
CONSTANTS
  UserIds = {a, b}
  Names = {x, y, z}
  Passwords = {p}
  Admin = Admin
  User = User
  Slots = {r1, r2, r3}
  Ops = {"create", "update"}
  AskedRoles = {Admin}
  Backend = "django"
  None = None
SPECIFICATION Spec
SYMMETRY Symmetry
INVARIANTS UniqueUsernames  CirclesAreRenamings
 
