SPECIFICATION Spec
CONSTANTS
  Databases = {hr}
  Docs = {doc}
  MaxFaults = 1
  Tasks = {r1, r2}
  NoTask = NoTask
  Containers = {c1}
  Orchestrator = Orchestrator
  Provisioner = Provisioner
  Clients = {c1, Orchestrator, Provisioner}
  NoDatabase = NoDatabase
INVARIANTS
  TypeOK
  OnePoolPerDatabase
  CompleteStacksAreReady
PROPERTIES
  ProductionKeepsDocuments
  DestroyEnds
  RequestsEnd
  IndexingRecovers
