CONSTANTS
  Pcbs = {p1, p2, p3, p4}
  NoPcb = NoPcb
  NoCall = NoCall
  MaxClients = 2
  Window = 3
  Room = 2
SPECIFICATION FairSpec
INVARIANTS TypeOK ServedIsHeld NothingOwed
PROPERTIES ServedEnds
