\* A session is revoked between the two looks DELETE takes at the caller.
CONSTANTS
  UserIds = {a, b}
  SessionIds = {s1}
  Slots = {r1, r2}
  Admin = Admin
  User = User
  Mixes = {{"delete_user", "login", "logout"}}
  AskedRoles = {User}
  Stacks = {"fastapi"}
  None = None
SPECIFICATION Spec
SYMMETRY Symmetry
INVARIANTS EndedSessionIsUnauthorized
