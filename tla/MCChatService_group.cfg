\* One group, every interleaving of five calls of any kind, three at a time.
SPECIFICATION Spec
CONSTANTS
  u1 = u1
  u2 = u2
  u3 = u3
  Users <- ThreeUsers
  Admins <- OneAdmin
  Conversations = {c1}
  Requests = {r1, r2, r3, r4, r5}
  Concurrency = 3
  Failures = TRUE
  None = None
SYMMETRY AlikeOneAdmin
INVARIANTS
  TypeOK
  OneOwner
  OwnerInvariant
  MessagesTellRoster
  DirectIsPair
  RemovalIsAnnounced
PROPERTIES
  OnlyOwnerRemoves
  ImplementsLog
