\* An owner with one tab and a member with two: two joins race two calls, with
\* failures, on a group that exists and one that may be created.
SPECIFICATION FeedGroupSpec
CONSTANTS
  u1 = u1
  u2 = u2
  s1 = s1
  s2 = s2
  s3 = s3
  Later = {c2}
  Users <- TwoUsers
  Admins <- Owner
  Conversations = {c1, c2}
  Requests = {r1, r2}
  Concurrency = 2
  Failures = TRUE
  None = None
  Sockets = {s1, s2, s3}
  UserOf <- ThreeTabs
  Joins = {j1, j2}
SYMMETRY Alike
INVARIANTS
  GwTypeOK
  RoomIsCurrent
  NobodyLingers
  GatewayInvariant
  NobodyMissesAChange
  JoinedTabMissesNothing
