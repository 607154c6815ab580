\* One user with two tabs, no crash.
SPECIFICATION FairSpec
CONSTANTS
  u1 = u1
  s1 = s1
  s2 = s2
  Users = {u1}
  Sockets = {s1, s2}
  UserOf <- TwoTabs
  MaxCrashes = 0
INVARIANT OnlineWhileOpen
