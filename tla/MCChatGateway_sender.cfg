\* A member sends a message and leaves the conversation before the answer.
SPECIFICATION GroupSpec
CONSTANTS
  u1 = u1
  u2 = u2
  s1 = s1
  s2 = s2
  s3 = s3
  Later = {}
  Users <- TwoUsers
  Admins <- Owner
  Conversations = {c1}
  Requests = {r1}
  Concurrency = 1
  Failures = FALSE
  None = None
  Sockets = {s2}
  UserOf <- MemberHasTabA
  Joins = {j1}
INVARIANT SenderIsRoomed
