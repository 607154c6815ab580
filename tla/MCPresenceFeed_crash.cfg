\* Two connections of one user, one of another they share a conversation with,
\* two crashes.
SPECIFICATION FairFeedSpec
CONSTANTS
  u1 = u1
  u2 = u2
  s1 = s1
  s2 = s2
  s3 = s3
  Users = {u1, u2}
  Sockets = {s1, s2, s3}
  UserOf <- ThreeSockets
  Rosters <- Together
  MaxCrashes = 2
INVARIANTS
  TypeOK
  OnlineHasReason
  FramesAgree
  LastSeenIsHonest
  OfflineHasReason
PROPERTY GoesOffline
