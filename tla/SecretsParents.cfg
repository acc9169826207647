SPECIFICATION SecretsSpec
CONSTANTS
  c1 = c1
  c2 = c2
  None = None
  Torn = Torn
  Master = "kMaster"
  Renewer = "renewer"
  Requests <- MCRequests
  Locations <- DocLocations
  Data = {"d1", "d2"}
  Identities <- MCIdentities
  Begins <- MCBegins
  Signers <- MCSigners
  Conns <- MCConns
  Queries <- DocQueries
  HostLife = 2
  RenewBefore = 1
  Repos <- DocRepos
  Loads <- DocLoads
INVARIANTS ParentsReadable
CHECK_DEADLOCK FALSE
