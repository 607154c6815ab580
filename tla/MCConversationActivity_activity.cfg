\* Two admins, two conversations: four calls of any kind, two at a time.
SPECIFICATION ActSpec
CONSTANTS
  u1 = u1
  u2 = u2
  Users <- TwoUsers
  Admins <- TwoUsers
  Conversations = {c1, c2}
  Requests = {r1, r2, r3, r4}
  Concurrency = 2
  Failures = TRUE
  None = None
SYMMETRY AlikeUsers
INVARIANTS
  HistoryKeepsCallOrder
  PreviewIsLatest
  ListRespectsCalls
  MessagesTakeTurns
  HistoryIsConsistent
  TwinsOverlapped
  OwnerIsFirst
