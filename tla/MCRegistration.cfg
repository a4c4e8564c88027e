SPECIFICATION Spec
CONSTANTS
  Superuser = Superuser
  HrUser = HrUser
  HrExec = HrExec
  FinanceUser = FinanceUser
  User = User
  NoPrefix = NoPrefix
  policy = policy
  memo = memo
  Fields = {"database", "roles", "role-ladder", "ingest-workflow", "auto-classify"}
  Versions = {1}
  Absent = 0
  Threads = {lambda}
  TTL = 1
  LoadTime = 0
  Alone = FALSE
  SiloRoles = {HrUser, HrExec}
  OtherRoles = {FinanceUser}
  Ladder <- MCLadder
  Workflow = "UIMediated"
  AutoClassify <- MCAutoClassify
  Docs = {policy, memo}
  PrefixOf <- MCPrefixOf
INVARIANTS
  TypeOK
  PartialRegistrationRevealsNothing
PROPERTIES
  TagsAsRegistered
