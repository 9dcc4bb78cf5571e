SPECIFICATION FairSpec
CONSTANTS
  Requests = {r1, r2}
  SessionIDs = {s1, s2}
  Users = {u1}
  acme = acme
  ops = ops
  Orgs = {acme}
  Teams = {ops}
  RWTeams <- MCRWTeams
  ROTeams <- MCNone
  RWOrgs <- MCRWOrgs
  ROOrgs <- MCNone
  Values <- SessionValues
  NoValues <- EmptyValues
  NoID = NoID
  NoSession = NoSession
  NoUser = NoUser
  NoTeam = NoTeam
  NoTeamData = NoTeamData
INVARIANTS GithubAuthTypeOK UsesAreHolders LoggedInIsIndexed
PROPERTIES MarkIsFinal DroppedIsDestroyed
