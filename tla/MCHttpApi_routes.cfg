\* Every route is asked for.
SPECIFICATION ApiSpec
CONSTANTS
  Invitations = {i1}
  Calls = {a1}
  Concurrency = 1
  Failures = FALSE
  None = None
  Connections = {h1}
  Logins <- SomeLogins
  Passwords <- SomePasswords
  Root <- RootLogin
  RootPassword <- Secret
  Asked <- AllRoutes
INVARIANT ReachesHandler
