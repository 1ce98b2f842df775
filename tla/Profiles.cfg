\* u2 leaves e2, u1 follows to it from e1 while its picture is uploaded, a new
\* user asks for e1; one call fails, one crash.
SPECIFICATION Spec
CONSTANTS
  u1 = u1
  u2 = u2
  new = new
  leave = leave
  follow = follow
  picture = picture
  login = login
  shouted = shouted
  e1 = e1
  e2 = e2
  e3 = e3
  E3 = E3
  h1 = h1
  h2 = h2
  h3 = h3
  None = None
  Null = Null
  Existing <- MCExisting
  Creates = {new}
  Edits = {leave, follow, picture}
  Reads = {}
  Logins = {login, shouted}
  WithBanking = {follow}
  Uploads = {picture}
  UserOf <- MCUserOf
  Addresses = {e1, e2, e3, E3}
  Normal <- MCNormal
  Homes = {h1, h2, h3}
  NewEmail <- MCNewEmail
  NewHome <- MCNewHome
  Profile0 <- MCProfile0
  MaxFaults = 1
  MaxCrashes = 1
INVARIANTS TypeOK ProfilesKeepApart EmailKeysTrue SettledProfileIsCachedRight OnlyAddressLogsIn
PROPERTIES UnexposedEditIsExact ImplementsDirectory
CHECK_DEADLOCK FALSE
