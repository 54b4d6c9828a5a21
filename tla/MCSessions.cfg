SPECIFICATION Spec
CONSTANTS
  Nil = Nil
  Users = {u1, u2}
  Roles = {investor, custodian}
  Logins = {l1, l2}
  Requests = {r1}
  DevMode = TRUE
  MaxFaults = 1
SYMMETRY Symmetry
CHECK_DEADLOCK FALSE
INVARIANTS
  TypeOK
  AuthorityWasHeld
  LogoutIsFinal
  DevLoginsAudited
PROPERTIES
  RolesAreTheAdministrators
