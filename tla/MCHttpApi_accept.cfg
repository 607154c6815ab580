\* Acceptances behind the HTTP interface: two invitations, three logins, three
\* acceptances, two at a time, with failures; requests of every kind.
SPECIFICATION ApiSpec
CONSTANTS
  Invitations = {i1, i2}
  Calls = {a1, a2, a3}
  Concurrency = 2
  Failures = TRUE
  None = None
  Connections = {h1}
  Logins <- SomeLogins
  Passwords <- SomePasswords
  Root <- RootLogin
  RootPassword <- Secret
  Asked <- AccountRoutes
SYMMETRY Alike
INVARIANTS
  ApiTypeOK
  AccountInvariant
  AcceptedMadeAccount
  PendingIsUnused
  AccountsBoundedByOverlap
  RunsAsCaller
  EntitledAreAdmitted
PROPERTY CredentialsStay
