SPECIFICATION Spec
CONSTANTS
  Superuser = Superuser
  HrUser = HrUser
  HrManager = HrManager
  HrExec = HrExec
  VeridiaUser = VeridiaUser
  Users = {u1, u2}
  Docs = {d1}
  SiloRoles <- MCSiloRoles
  OtherGroups = {VeridiaUser}
  Ladders <- MCLadders
SYMMETRY Symmetric
INVARIANTS
  TypeOK
  LayersAgree
  SeniorsSeeWhatJuniorsSee
  SamplesAreAnswerable
PROPERTIES
  GrantingHidesNothing
