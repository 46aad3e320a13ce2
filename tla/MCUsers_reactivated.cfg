\* An update that loaded the user before a deletion commits after it.
CONSTANTS
  UserIds = {a, b}
  Names = {x, y}
  Passwords = {p}
  Admin = Admin
  User = User
  Slots = {r1, r2}
  Ops = {"create", "update", "delete"}
  AskedRoles = {Admin, User}
  Backend = "django"
  None = None
SPECIFICATION Spec
SYMMETRY Symmetry
PROPERTIES DeactivationIsFinal
