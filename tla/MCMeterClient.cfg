CONSTANTS
  Slots = {p1, p2}
  NoPcb = NoPcb
  Window = 3
SPECIFICATION FairSpec
INVARIANTS TypeOK PcbOwned ConnectedIsEstablished NoMissedWakeup
PROPERTIES ImplementsConnection NeverStuck Recovers
