\* An update and a creation want one username.
CONSTANTS
  UserIds = {a, b}
  Names = {x, y}
  Passwords = {p}
  Admin = Admin
  User = User
  Slots = {r1, r2}
  Ops = {"create", "update"}
  AskedRoles = {Admin}
  Backend = "sqlalchemy"
  None = None
SPECIFICATION Spec
SYMMETRY Symmetry
INVARIANTS UpdateAnswersConflict
