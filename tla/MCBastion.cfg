SPECIFICATION Spec
CONSTANTS
  s1 = s1
  s2 = s2
  s3 = s3
  laptop = laptop
  desktop = desktop
  Sessions = {s1, s2, s3}
  NoSession = NoSession
  Hosts = {laptop, desktop}
  HostOf <- MCHostOf
INVARIANTS
  TypeOK
  OnForSomeone
PROPERTIES
  CommandsComeToPsqlOrEnd
