\* A client reconnects while the server starts again.
SPECIFICATION FairSpec
CONSTANTS
  u1 = u1
  s1 = s1
  s2 = s2
  Users = {u1}
  Sockets = {s1, s2}
  UserOf <- TwoTabs
  MaxCrashes = 1
PROPERTY ResetSparesConnected
