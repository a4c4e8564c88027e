SPECIFICATION Spec
CONSTANTS
  root = root
  ann = ann
  hr = hr
  veridia = veridia
  HrUser = HrUser
  VeridiaUser = VeridiaUser
  Users = {root, ann}
  Nobody = Nobody
  Superusers = {root}
  Silos = {hr, veridia}
  MayUse <- MCMayUse
  MaxMessages = 4
  Docs = {doc}
  NoDoc = NoDoc
  Roles = {HrUser, VeridiaUser}
  SiloRoles <- MCSiloRoles
  NoSilo = NoSilo
  Slots = {x1}
  MaxLists = 1
  MaxListings = 1
INVARIANTS
  TypeOK
  ConversationIsOwn
  AnswersGoWhereAsked
  PageRevealsNothing
  PublishedRolesWereTicked
PROPERTIES
  ControlsComeBack
