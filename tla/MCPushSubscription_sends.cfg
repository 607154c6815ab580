\* Two users share two browsers; two sends overlap; the database answers.
SPECIFICATION FairSpec
CONSTANTS
  u1 = u1
  u2 = u2
  b1 = b1
  b2 = b2
  s1 = s1
  s2 = s2
  None = None
  Users <- TwoUsers
  Endpoints <- TwoBrowsers
  Keys = {k1}
  Sends <- TwoSends
INVARIANTS
  TypeOK
  ExpiredIsGone
  PushIsAddressed
PROPERTY GoneIsRetired
