SPECIFICATION SecretsSpec
CONSTANTS
  c1 = c1
  c2 = c2
  None = None
  Torn = Torn
  Master = "kMaster"
  Renewer = "renewer"
  Requests <- MCRequests
  Locations <- MCLocations
  Data = {"d1", "d2"}
  Identities <- MCIdentities
  Begins <- MCBegins
  Signers <- MCSigners
  Conns <- MCConns
  Queries <- MCQueries
  HostLife = 2
  RenewBefore = 1
  Repos <- MCRepos
  Loads <- MCLoads
INVARIANTS MarkerLast IssuedIsAccepted AnswersGenuine SearchNearest HostCertFresh SignFailsWithCause
PROPERTIES CertNeverOverwritten ConnectionEnds HostCertInstalled
CHECK_DEADLOCK FALSE
