CONSTANTS
  Req = {r1, r2}
  Proc = {a1, a2}
  User = {u1, u2}
  Email = {First, e}
  First = First
  NoUser = NoUser
  NoToken = NoToken
  MaxDeploys = 2
SYMMETRY Symmetry
SPECIFICATION Spec
INVARIANTS TypeOK AuthorityIsCurrent DeploymentsContiguous
PROPERTIES SeedOnlyFirst OnlyAdminsAppoint LastAdminLeaves
