SPECIFICATION Spec
CONSTANTS
  hr = hr
  veridia = veridia
  HrUser = HrUser
  HrExec = HrExec
  VeridiaUser = VeridiaUser
  User = User
  NoPrefix = NoPrefix
  memo = memo
  policy = policy
  upload = upload
  faq = faq
  NoDoc = NoDoc
  Agents <- MCAgents
  Roles = {HrUser, HrExec, VeridiaUser}
  SiloRoles <- MCSiloRoles
  Workflow <- MCWorkflow
  Prefixes <- MCPrefixes
  AutoClassify <- MCAutoClassify
  SiloOf <- MCSiloOf
  PrefixOf <- MCPrefixOf
  FromBucket <- MCFromBucket
  Docs = {memo, policy, upload, faq}
  Versions = {1, 2}
  Messages = {m1, m2}
  MaxReceiveCount = 2
  Admins = {a1}
SYMMETRY Symmetric
INVARIANTS
  TypeOK
  ConsumedIsRecorded
  RowsAreLawful
PROPERTIES
  ImplementsReviewGate
  LeavesQueueStoredOrDiscarded
CHECK_DEADLOCK FALSE
