CONSTANTS
  Networks = {home}
  Nothing = Nothing
  WrongPassword = wrong
  Others = {other}
  MaxWifis = 1
  Period = 3
  RetryAt = 1
  ApTimeout = 2
  Servers = {s1}
  NoServer = NoServer
SPECIFICATION FairSpec
INVARIANTS TypeOK
PROPERTIES StaysReachable Reconnects TimeIsKnown
