CONSTANTS
  Clients = {c1, c2}
  NoClient = NoClient
  Patient = c1
  Addresses = {0, 1}
  NoAddress = 9
  LeaseUnits = 1
  Wrap = 6
SPECIFICATION FairSpec
INVARIANTS TypeOK NoSharedAddress
PROPERTIES LeasesComeFree
