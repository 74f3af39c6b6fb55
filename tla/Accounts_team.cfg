SPECIFICATION Spec
CONSTANTS
  uma = uma
  vic = vic
  pia = pia
  quin = quin
  r1 = r1
  r2 = r2
  r3 = r3
  NoUser = NoUser
  NoPerson = NoPerson
  Persons = {pia, quin}
  Veterans = {uma, vic}
  Requests = {r1, r2, r3}
  RoleSets = {{"editor"}, {"admin"}}
  Deployments <- Teams
INVARIANT SetupOnce
INVARIANT AdminRemains
INVARIANT RolesAreGranted
INVARIANT OnePersonOneUser
SYMMETRY Symmetry
CHECK_DEADLOCK FALSE
