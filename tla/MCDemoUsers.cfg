SPECIFICATION Spec
CONSTANTS
  old = old
  new = new
  small = small
  user = user
  exec = exec
  Exec = Exec
  root = root
  userLogin = userLogin
  execLogin = execLogin
  plus = plus
  extra = extra
  Configs = {old, new, small}
  NoConfig = NoConfig
  Roles = {user, exec, Exec}
  Superuser = Superuser
  Usernames = {root, userLogin, execLogin, plus, extra}
  Root = root
  Slug <- MCSlug
  Declared <- MCDeclared
  Identities <- MCIdentities
  MaxFaults = 3
INVARIANTS
  TypeOK
  ConfiguredUsersSignIn
  RoleAccountsShowOneRole
PROPERTIES
  TeardownEnds
