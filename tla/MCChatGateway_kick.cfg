\* A member with two tabs is removed, perhaps twice, perhaps added again, while
\* another conversation may be created.
SPECIFICATION FairGroupSpec
CONSTANTS
  u1 = u1
  u2 = u2
  s1 = s1
  s2 = s2
  s3 = s3
  Later = {c2}
  Users <- TwoUsers
  Admins <- Owner
  Conversations = {c1, c2}
  Requests = {r1, r2}
  Concurrency = 2
  Failures = TRUE
  None = None
  Sockets = {s2, s3}
  UserOf <- TwoTabs
  Joins = {j1, j2}
PROPERTY KickedInTheEnd
